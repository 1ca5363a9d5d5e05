------------------------ MODULE StateDirectoryProofs ------------------------
(***************************************************************************)
(* Safety of StateDirectory, and that it implements StateRegister, for any *)
(* number of processes, goroutines, directories, lock files, saves and     *)
(* faults.                                                                 *)
(*                                                                         *)
(* The heart is CommitInv: between the last check of a save and its rename *)
(* the directory names the lock file the saver holds, so nobody else can   *)
(* be acknowledged in that directory, and the state the rename replaces is *)
(* the one the new state was computed from.  That needs the baseline to be *)
(* what was loaded (LoadInv, by the entry tracked under the lock) and the  *)
(* history of every file a power loss can bring back to contain the last   *)
(* acknowledged state (DurableInv).                                        *)
(***************************************************************************)
EXTENDS StateDirectory, FiniteSetTheorems, SequenceTheorems, TLAPS

-----------------------------------------------------------------------------
(***************************************************************************)
(* Types.                                                                  *)
(***************************************************************************)

DirRecord == [state : Nat, lock : Nat, temps : SUBSET Nat, disk : SUBSET Nat]
FileRecord == [data : Seq(Updaters), synced : {TRUE}]
HandleRecord == [mode : {"open", "closing", "closed"}, dir : Nat, refs : Int,
                 active : Updaters \cup {None}, tracked : Nat]
LocalRecord == [lock : Nat, fd : Nat, base : Nat, data : Seq(Updaters),
                err : {"none", "refused", "changed"}]

\* Where a goroutine is while it has the setup lock.
Owning == {"reading", "opened", "tracked", "loaded", "synced", "commit", "renamed",
           "published", "cleanup", "unlock"}
Places == Owning \cup {"idle", "waiting", "checking", "closing", "release"}

FilesType ==
  /\ path \in Nat /\ faults \in Nat
  /\ dirs \in Seq(DirRecord) /\ files \in Seq(FileRecord) /\ flock \in Seq(Updaters \cup {None})
  /\ Len(dirs) <= MaxDirs /\ Len(files) <= MaxFiles /\ path <= Len(dirs)
  /\ acked \in [1..MaxDirs -> Seq(Updaters)]

ThreadsType ==
  /\ handle \in [Handles -> HandleRecord]
  /\ pc \in [Threads -> Places]
  /\ my \in [Threads -> LocalRecord]

\* Entries, descriptors and pins name what exists.
Bounds ==
  /\ \A d \in DOMAIN dirs :
       /\ dirs[d].state \in dirs[d].disk /\ dirs[d].lock <= Len(flock)
       /\ \A i \in dirs[d].disk : i <= Len(files)
  /\ \A t \in Threads : my[t].fd <= Len(files) /\ my[t].base <= Len(files)
  /\ \A h \in Handles : handle[h].mode # "closed" => handle[h].dir \in DOMAIN dirs

-----------------------------------------------------------------------------
(***************************************************************************)
(* The invariant.                                                          *)
(***************************************************************************)

Data(i) == IF i = 0 THEN <<>> ELSE files[i].data

\* A closed handle has no reference and no active lock.
UseInv ==
  /\ CloseIsExact
  /\ \A h \in Handles : handle[h].mode = "closed" => handle[h].refs = 0

\* A loader takes no lock; an updater that has the setup lock holds the lock file it
\* opened, and its handle knows.
LockInv(t) ==
  /\ t \in Loaders => pc[t] \in {"idle", "reading", "opened", "tracked", "release"}
  /\ t \in Updaters =>
       /\ pc[t] \notin {"idle", "release"} => my[t].lock \in DOMAIN flock
       /\ pc[t] \in Owning \cup {"checking"} => flock[my[t].lock] = t
       /\ pc[t] \in Owning => Impl(t).active = t

\* What was loaded is the content of the entry that is tracked.
LoadInv(t) ==
  /\ pc[t] = "idle" => my[t] = Blank
  /\ pc[t] = "tracked" => my[t].fd # 0
  /\ t \in Updaters /\ pc[t] \in {"waiting", "checking", "reading", "opened", "tracked"} =>
       my[t].data = <<>>
  /\ t \in Updaters /\ pc[t] = "tracked" => Impl(t).tracked = my[t].fd
  /\ pc[t] = "loaded" => Impl(t).tracked <= Len(files) /\ my[t].data = Data(Impl(t).tracked)

\* The file a save has written is the next state after its baseline; at the rename
\* the baseline is the state, and the lock held is the directory's.
CommitInv(t) ==
  /\ pc[t] \in {"synced", "commit", "renamed", "published"} =>
       my[t].fd # 0 /\ files[my[t].fd].data = Append(Data(my[t].base), t)
  /\ pc[t] = "commit" => Dir(t).lock = my[t].lock /\ Dir(t).state = my[t].base
  /\ pc[t] = "published" /\ Dir(t).state = my[t].fd => Dir(t).disk = {my[t].fd}

ThreadInv(t) == LockInv(t) /\ LoadInv(t) /\ CommitInv(t)

\* Every state a power loss can bring back comes after the acknowledged one.
DurableInv ==
  \A d \in 1..MaxDirs :
    IF d \in DOMAIN dirs THEN \A i \in dirs[d].disk : IsPrefix(acked[d], Data(i))
                         ELSE acked[d] = <<>>

\* A temp file is that of a save on a handle of its own directory, or its process
\* died.
TempInv ==
  \A d \in DOMAIN dirs : \A i \in dirs[d].temps \ orphans :
    \E t \in Updaters : my[t].fd = i /\ pc[t] \in InSave /\ Impl(t).dir = d

DirectoryInv ==
  /\ FilesType /\ ThreadsType /\ Bounds
  /\ UseInv /\ DurableInv /\ TempInv
  /\ \A t \in Threads : ThreadInv(t)

-----------------------------------------------------------------------------
(***************************************************************************)
(* Prefixes, sequences, users.                                             *)
(***************************************************************************)

\* A prefix, element by element.
LEMMA PrefixFacts ==
  ASSUME NEW S, NEW s \in Seq(S), NEW t \in Seq(S)
  PROVE  IsPrefix(s, t) <=> Len(s) <= Len(t) /\ \A i \in 1..Len(s) : s[i] = t[i]
BY DEF IsPrefix

\* A later state has the same prefixes, and is one of itself.
LEMMA PrefixAppend ==
  ASSUME NEW S, NEW s \in Seq(S), NEW t \in Seq(S), NEW x \in S, IsPrefix(s, t)
  PROVE  IsPrefix(s, Append(t, x))
<1> DEFINE u == Append(t, x)
<1>1. u \in Seq(S) /\ Len(u) = Len(t) + 1 /\ \A i \in 1..Len(t) : u[i] = t[i]
  BY AppendProperties
<1>2. Len(s) \in Nat /\ Len(t) \in Nat BY LenProperties
<1>3. Len(s) <= Len(t) /\ \A i \in 1..Len(s) : s[i] = t[i] BY PrefixFacts
<1> HIDE DEF u
<1>4. Len(s) <= Len(u) /\ \A i \in 1..Len(s) : s[i] = u[i] BY <1>1, <1>2, <1>3
<1>5. IsPrefix(s, u) BY <1>1, <1>4, PrefixFacts
<1> QED BY <1>5 DEF u

\* A state comes after itself and after the empty one.
LEMMA PrefixSelf == ASSUME NEW S, NEW s \in Seq(S) PROVE IsPrefix(s, s) /\ IsPrefix(<<>>, s)
<1>1. Len(s) \in Nat BY LenProperties
<1> DEFINE e == <<>>
<1>2. e \in Seq(S) /\ Len(e) = 0 BY EmptySeq
<1>3. IsPrefix(s, s) BY <1>1 DEF IsPrefix
<1> HIDE DEF e
<1>4. Len(e) <= Len(s) /\ \A i \in 1..Len(e) : e[i] = s[i] BY <1>1, <1>2
<1>5. IsPrefix(e, s) BY <1>2, <1>4, PrefixFacts
<1> QED BY <1>3, <1>5 DEF e

\* Two saves of different goroutines write different states.
LEMMA AppendLast ==
  ASSUME NEW S, NEW s1 \in Seq(S), NEW s2 \in Seq(S), NEW x, NEW y,
         Append(s1, x) = Append(s2, y)
  PROVE  x = y
<1>1. Len(s1) + 1 = Len(s2) + 1 /\ Len(s1) \in Nat /\ Len(s2) \in Nat OBVIOUS
<1>2. Append(s1, x)[Len(s1) + 1] = x /\ Append(s2, y)[Len(s2) + 1] = y OBVIOUS
<1> QED BY <1>1, <1>2

\* What Append and EXCEPT do to a sequence.
LEMMA GrowFacts ==
  ASSUME NEW S, NEW s \in Seq(S), NEW e \in S
  PROVE  /\ Append(s, e) \in Seq(S) /\ Len(Append(s, e)) = Len(s) + 1
         /\ Append(s, e)[Len(s) + 1] = e
         /\ \A i \in DOMAIN s : i \in DOMAIN Append(s, e) /\ Append(s, e)[i] = s[i]
         /\ \A i \in DOMAIN Append(s, e) : i \in DOMAIN s \/ i = Len(s) + 1
         /\ Len(s) \in Nat /\ Len(s) + 1 \notin DOMAIN s
OBVIOUS

\* An entry replaced in place.
LEMMA ReplaceFacts ==
  ASSUME NEW S, NEW s \in Seq(S), NEW i \in DOMAIN s, NEW e \in S
  PROVE  /\ [s EXCEPT ![i] = e] \in Seq(S) /\ Len([s EXCEPT ![i] = e]) = Len(s)
         /\ DOMAIN [s EXCEPT ![i] = e] = DOMAIN s
         /\ [s EXCEPT ![i] = e][i] = e
         /\ \A j \in DOMAIN s : j # i => [s EXCEPT ![i] = e][j] = s[j]
OBVIOUS

\* The goroutines in an operation on a handle.
UsersOf(h) == {t \in Threads : HandleOf[t] = h /\ pc[t] # "idle"}

\* They are counted.
LEMMA UsersCount ==
  ASSUME NEW h \in Handles
  PROVE  /\ IsFiniteSet(UsersOf(h)) /\ Cardinality(UsersOf(h)) \in Nat
         /\ Cardinality(UsersOf(h)) = 0 <=> \A t \in Threads : HandleOf[t] = h => pc[t] = "idle"
<1>1. IsFiniteSet(UsersOf(h)) BY StateDirectoryAssumption, FS_Subset DEF UsersOf
<1>2. Cardinality(UsersOf(h)) \in Nat BY <1>1, FS_CardinalityType
<1>3. Cardinality(UsersOf(h)) = 0 <=> UsersOf(h) = {} BY <1>1, FS_EmptySet
<1> QED BY <1>1, <1>2, <1>3 DEF UsersOf

\* A goroutine in an operation keeps its handle open, and its directory pinned.
LEMMA InUse ==
  ASSUME DirectoryInv, NEW t \in Threads
  PROVE  /\ HandleOf[t] \in Handles
         /\ pc[t] # "idle" => /\ Impl(t).mode # "closed" /\ Impl(t).dir \in DOMAIN dirs
                              /\ Impl(t).dir \in 1..MaxDirs
                              /\ Dir(t) = dirs[Impl(t).dir] /\ Dir(t) \in DirRecord
<1>1. HandleOf[t] \in Handles BY StateDirectoryAssumption
<1>2. ASSUME pc[t] # "idle" PROVE Impl(t).mode # "closed"
  <2>1. Cardinality(UsersOf(HandleOf[t])) # 0 /\ Cardinality(UsersOf(HandleOf[t])) \in Nat
    BY <1>1, <1>2, UsersCount
  <2>2. Impl(t).refs = Cardinality(UsersOf(HandleOf[t])) + (IF Impl(t).mode = "open" THEN 1 ELSE 0)
    BY <1>1 DEF DirectoryInv, UseInv, CloseIsExact, UsersOf, Impl
  <2>3. Impl(t).refs # 0 BY <2>1, <2>2
  <2> QED BY <1>1, <2>3 DEF DirectoryInv, UseInv, Impl
<1>3. ASSUME pc[t] # "idle"
      PROVE  /\ Impl(t).dir \in DOMAIN dirs /\ Impl(t).dir \in 1..MaxDirs
             /\ dirs[Impl(t).dir] \in DirRecord
  <2>1. Impl(t).dir \in DOMAIN dirs BY <1>1, <1>2, <1>3 DEF DirectoryInv, Bounds, Impl
  <2>2. dirs \in Seq(DirRecord) /\ Len(dirs) <= MaxDirs /\ MaxDirs \in Nat
    BY StateDirectoryAssumption DEF DirectoryInv, FilesType
  <2> QED BY <2>1, <2>2
<1> QED BY <1>1, <1>2, <1>3 DEF Dir, Held, Impl

\* A step that begins and ends no operation, and opens and closes no handle.
LEMMA UsersSame ==
  ASSUME UseInv, \A t \in Threads : pc'[t] = "idle" <=> pc[t] = "idle",
         \A h \in Handles : handle'[h].refs = handle[h].refs /\ handle'[h].mode = handle[h].mode
  PROVE  UseInv'
<1>1. \A h \in Handles : {t \in Threads : HandleOf[t] = h /\ pc'[t] # "idle"}
                           = {t \in Threads : HandleOf[t] = h /\ pc[t] # "idle"}
  OBVIOUS
<1>2. CloseIsExact' BY <1>1 DEF UseInv, CloseIsExact
<1> QED BY <1>2 DEF UseInv

\* An operation begins: the handle is open and gets a reference.
LEMMA UserEnters ==
  ASSUME UseInv, ThreadsType, NEW t \in Threads, HandleOf[t] \in Handles,
         pc[t] = "idle", pc'[t] # "idle", \A u \in Threads \ {t} : pc'[u] = pc[u],
         handle[HandleOf[t]].mode = "open",
         handle' = [handle EXCEPT ![HandleOf[t]].refs = handle[HandleOf[t]].refs + 1]
  PROVE  UseInv'
<1> DEFINE h == HandleOf[t]
<1>1. /\ handle'[h].mode = "open" /\ handle'[h].refs = handle[h].refs + 1
      /\ handle[h].refs \in Int
      /\ \A g \in Handles \ {h} : handle'[g] = handle[g]
  BY DEF ThreadsType, HandleRecord
<1>2. UsersOf(h)' = UsersOf(h) \cup {t} /\ t \notin UsersOf(h)
      /\ \A g \in Handles \ {h} : UsersOf(g)' = UsersOf(g)
  BY DEF UsersOf
<1>3. Cardinality(UsersOf(h)') = Cardinality(UsersOf(h)) + 1 /\ Cardinality(UsersOf(h)) \in Nat
  BY <1>2, UsersCount, FS_AddElement
<1>4. \A g \in Handles : handle[g].refs = Cardinality(UsersOf(g)) + (IF handle[g].mode = "open" THEN 1 ELSE 0)
  BY DEF UseInv, CloseIsExact, UsersOf
<1>5. ASSUME NEW g \in Handles
      PROVE  handle'[g].refs = Cardinality(UsersOf(g)') + (IF handle'[g].mode = "open" THEN 1 ELSE 0)
  <2>1. CASE g = h BY <1>1, <1>3, <1>4, <2>1
  <2>2. CASE g # h BY <1>1, <1>2, <1>4, <2>2
  <2> QED BY <2>1, <2>2
<1>6. CloseIsExact' BY <1>5 DEF CloseIsExact, UsersOf
<1> QED BY <1>1, <1>6 DEF UseInv

\* An operation ends and gives its reference back.
LEMMA UserLeaves ==
  ASSUME UseInv, ThreadsType, NEW t \in Threads, HandleOf[t] \in Handles,
         pc[t] # "idle", pc'[t] = "idle", \A u \in Threads \ {t} : pc'[u] = pc[u],
         handle' = [handle EXCEPT ![HandleOf[t]].refs = handle[HandleOf[t]].refs - 1]
  PROVE  UseInv'
<1> DEFINE h == HandleOf[t]
<1>1. /\ handle'[h].mode = handle[h].mode /\ handle'[h].refs = handle[h].refs - 1
      /\ handle[h].refs \in Int
      /\ \A g \in Handles \ {h} : handle'[g] = handle[g]
  BY DEF ThreadsType, HandleRecord
<1>2. UsersOf(h)' = UsersOf(h) \ {t} /\ t \in UsersOf(h)
      /\ \A g \in Handles \ {h} : UsersOf(g)' = UsersOf(g)
  BY DEF UsersOf
<1>3. /\ Cardinality(UsersOf(h)') = Cardinality(UsersOf(h)) - 1
      /\ Cardinality(UsersOf(h)) \in Nat /\ Cardinality(UsersOf(h)) # 0
  <2>1. IsFiniteSet(UsersOf(h)) /\ Cardinality(UsersOf(h)) \in Nat
        /\ (Cardinality(UsersOf(h)) = 0 <=> \A u \in Threads : HandleOf[u] = h => pc[u] = "idle")
    BY UsersCount
  <2> QED BY <1>2, <2>1, FS_RemoveElement
<1>4. \A g \in Handles : handle[g].refs = Cardinality(UsersOf(g)) + (IF handle[g].mode = "open" THEN 1 ELSE 0)
  BY DEF UseInv, CloseIsExact, UsersOf
<1>5. ASSUME NEW g \in Handles
      PROVE  handle'[g].refs = Cardinality(UsersOf(g)') + (IF handle'[g].mode = "open" THEN 1 ELSE 0)
  <2>1. CASE g = h BY <1>1, <1>3, <1>4, <2>1
  <2>2. CASE g # h BY <1>1, <1>2, <1>4, <2>2
  <2> QED BY <2>1, <2>2
<1>6. CloseIsExact' BY <1>5 DEF CloseIsExact, UsersOf
<1>7. handle[h].mode # "closed" BY <1>3, <1>4 DEF UseInv
<1> QED BY <1>1, <1>6, <1>7 DEF UseInv

-----------------------------------------------------------------------------
(***************************************************************************)
(* What a step of one goroutine leaves to the others.                      *)
(***************************************************************************)

\* Nobody else moves.
OnlyMoves(t) == \A u \in Threads \ {t} : pc'[u] = pc[u] /\ my'[u] = my[u]

\* No handle is opened or closed; a lock that is active stays so, and what was
\* tracked under it stays tracked.
HandlesKept(t) ==
  /\ \A h \in Handles : handle'[h].dir = handle[h].dir /\ handle'[h].mode = handle[h].mode
  /\ \A u \in Updaters \ {t} : Impl(u).active = u =>
       /\ handle'[HandleOf[u]].active = u
       /\ Impl(u).tracked <= Len(files) => handle'[HandleOf[u]].tracked = Impl(u).tracked

\* Nobody else loses a lock file.
FlockKept(t) ==
  /\ Len(flock) <= Len(flock')
  /\ \A l \in DOMAIN flock, u \in Updaters \ {t} : flock[l] = u => flock'[l] = u

\* Files only come to be.
FilesKept == Len(files) <= Len(files') /\ \A i \in DOMAIN files : files'[i] = files[i]

\* Saves of others that are about to rename, or to be acknowledged.
CommitsKept(t) ==
  /\ DOMAIN dirs' = DOMAIN dirs
  /\ \A u \in Updaters \ {t} :
       /\ pc[u] = "commit" => dirs'[Impl(u).dir].lock = dirs[Impl(u).dir].lock
                              /\ dirs'[Impl(u).dir].state = dirs[Impl(u).dir].state
       /\ pc[u] = "published" /\ dirs'[Impl(u).dir].state = my[u].fd =>
            dirs'[Impl(u).dir].disk = {my[u].fd}

\* The content of a file that exists does not change.
LEMMA DataKept ==
  ASSUME DirectoryInv, FilesKept, NEW i \in Nat, i <= Len(files)
  PROVE  Data(i)' = Data(i)
<1>1. files \in Seq(FileRecord) BY DEF DirectoryInv, FilesType
<1>2. i # 0 => i \in DOMAIN files BY <1>1
<1> QED BY <1>2 DEF FilesKept, Data

\* A step of one goroutine that leaves to the others what is theirs.
LEMMA ThreadStep ==
  ASSUME DirectoryInv, NEW t \in Threads,
         FilesType', ThreadsType', Bounds', UseInv', DurableInv', TempInv', ThreadInv(t)',
         OnlyMoves(t), HandlesKept(t), FlockKept(t), FilesKept, CommitsKept(t)
  PROVE  DirectoryInv'
<1>0. Updaters \subseteq Threads /\ flock \in Seq(Updaters \cup {None})
      /\ flock' \in Seq(Updaters \cup {None})
  BY DEF Threads, DirectoryInv, FilesType
<1>1. ASSUME NEW u \in Threads \ {t} PROVE ThreadInv(u)'
  <2>0. /\ LockInv(u) /\ LoadInv(u) /\ CommitInv(u) BY DEF DirectoryInv, ThreadInv
  <2>1. pc'[u] = pc[u] /\ my'[u] = my[u] BY DEF OnlyMoves
  <2>2. /\ my[u].base \in Nat /\ my[u].base <= Len(files) /\ my[u].fd \in Nat
        /\ my[u].fd <= Len(files) /\ my[u].lock \in Nat
    BY DEF DirectoryInv, ThreadsType, Bounds, LocalRecord
  <2>3. HandleOf[u] \in Handles /\ Impl(u).dir = handle'[HandleOf[u]].dir
        /\ Impl(u).tracked \in Nat
    BY InUse DEF HandlesKept, DirectoryInv, ThreadsType, HandleRecord, Impl
  <2>4. my[u].lock \in DOMAIN flock => my[u].lock \in DOMAIN flock'
    BY <1>0 DEF FlockKept
  <2>5. u \in Updaters \/ u \in Loaders BY DEF Threads
  <2>6. LockInv(u)'
    BY <1>0, <2>0, <2>1, <2>4, <2>5 DEF LockInv, Owning, FlockKept, HandlesKept, Impl
  <2>7. LoadInv(u)'
    <3>1. (pc[u] = "idle" => my[u] = Blank) /\ (pc[u] = "tracked" => my[u].fd # 0)
          /\ (u \in Updaters /\ pc[u] \in {"waiting", "checking", "reading", "opened", "tracked"} =>
                my[u].data = <<>>)
      BY <2>0 DEF LoadInv
    <3>2. u \in Updaters /\ pc[u] \in {"tracked", "loaded"} => Impl(u).active = u
      BY <2>0 DEF LockInv, Owning
    <3>3. u \in Updaters /\ pc[u] = "tracked" => handle'[HandleOf[u]].tracked = my[u].fd
      BY <2>0, <2>2, <3>2 DEF LoadInv, HandlesKept
    <3>4. pc[u] = "loaded" => u \in Updaters BY <2>0, <2>5 DEF LockInv
    <3>5. pc[u] = "loaded" => /\ handle'[HandleOf[u]].tracked = Impl(u).tracked
                              /\ Impl(u).tracked <= Len(files)
                              /\ my[u].data = Data(Impl(u).tracked)
      BY <2>0, <3>2, <3>4 DEF LoadInv, HandlesKept
    <3>6. pc[u] = "loaded" => Data(Impl(u).tracked)' = my[u].data
      <4> SUFFICES ASSUME pc[u] = "loaded" PROVE Data(Impl(u).tracked)' = my[u].data OBVIOUS
      <4> DEFINE i == Impl(u).tracked
      <4>1. i \in Nat /\ i <= Len(files) /\ my[u].data = Data(i) /\ Impl(u)'.tracked = i
        BY <2>3, <3>5 DEF Impl
      <4>2. Impl(u).tracked' = i BY <4>1
      <4>3. files \in Seq(FileRecord) BY DEF DirectoryInv, FilesType
      <4> HIDE DEF i
      <4>4. i # 0 => i \in DOMAIN files BY <4>1, <4>3
      <4> QED BY <4>1, <4>2, <4>4 DEF Data, FilesKept
    <3>7. files \in Seq(FileRecord) /\ files' \in Seq(FileRecord) BY DEF DirectoryInv, FilesType
    <3>8. Len(files) \in Nat /\ Len(files') \in Nat /\ Len(files) <= Len(files')
      BY <3>7 DEF FilesKept
    <3>9. pc[u] = "loaded" => handle'[HandleOf[u]].tracked <= Len(files')
      BY <2>3, <3>5, <3>8
    <3> QED BY <2>1, <3>1, <3>3, <3>6, <3>9 DEF LoadInv, Impl
  <2>8. CommitInv(u)'
    <3>1. pc[u] \in {"synced", "commit", "renamed", "published"} =>
            /\ u \in Updaters /\ my[u].fd # 0
            /\ files[my[u].fd].data = Append(Data(my[u].base), u)
      BY <2>0, <2>5 DEF LockInv, CommitInv
    <3>3. my[u].fd # 0 => my[u].fd \in DOMAIN files BY <2>2 DEF DirectoryInv, FilesType
    <3>4. pc[u] \in {"synced", "commit", "renamed", "published"} =>
            files'[my[u].fd].data = Append(Data(my[u].base)', u)
      <4>1. Data(my[u].base)' = Data(my[u].base)
        <5> DEFINE i == my[u].base
        <5>1. i \in Nat /\ i <= Len(files) /\ my'[u].base = i BY <2>1, <2>2
        <5>2. i # 0 => i \in DOMAIN files BY <5>1 DEF DirectoryInv, FilesType
        <5> QED BY <2>1, <5>1, <5>2 DEF Data, FilesKept
      <4> QED BY <3>1, <3>3, <4>1 DEF FilesKept
    <3>5. pc[u] = "commit" => /\ dirs'[Impl(u).dir].lock = my[u].lock
                              /\ dirs'[Impl(u).dir].state = my[u].base
      BY <2>0, <3>1 DEF CommitInv, CommitsKept, Dir, Held, Impl
    <3>6. pc[u] = "published" /\ dirs'[Impl(u).dir].state = my[u].fd =>
            dirs'[Impl(u).dir].disk = {my[u].fd}
      BY <3>1 DEF CommitsKept
    <3> QED BY <2>1, <2>3, <3>1, <3>4, <3>5, <3>6 DEF CommitInv, Dir, Held, Impl
  <2> QED BY <2>6, <2>7, <2>8 DEF ThreadInv
<1> QED BY <1>1 DEF DirectoryInv

\* A step that changes only where its goroutine is, what it knows, its handle's
\* bookkeeping and its lock.
LEMMA QuietStep ==
  ASSUME DirectoryInv, NEW t \in Threads,
         UNCHANGED <<path, dirs, files, acked, orphans, faults>>,
         ThreadsType', UseInv', ThreadInv(t)', flock' \in Seq(Updaters \cup {None}),
         OnlyMoves(t), HandlesKept(t), FlockKept(t),
         my'[t].fd <= Len(files), my'[t].base <= Len(files),
         pc[t] \in InSave => pc'[t] \in InSave /\ my'[t].fd = my[t].fd
  PROVE  DirectoryInv'
<1>1. FilesType' BY DEF DirectoryInv, FilesType
<1>2. Bounds'
  <2>1. Len(flock) \in Nat /\ Len(flock') \in Nat /\ Len(flock) <= Len(flock')
        /\ \A d \in DOMAIN dirs : dirs[d].lock \in Nat
    <3>1. flock \in Seq(Updaters \cup {None}) /\ dirs \in Seq(DirRecord)
      BY DEF DirectoryInv, FilesType
    <3>2. \A d \in DOMAIN dirs : dirs[d] \in DirRecord BY <3>1
    <3>3. \A d \in DOMAIN dirs : dirs[d].lock \in Nat BY <3>2 DEF DirRecord
    <3> QED BY <3>1, <3>3, LenProperties DEF FlockKept
  <2>2. \A d \in DOMAIN dirs : /\ dirs[d].state \in dirs[d].disk /\ dirs[d].lock <= Len(flock')
                               /\ \A i \in dirs[d].disk : i <= Len(files)
    BY <2>1 DEF DirectoryInv, Bounds
  <2>3. \A u \in Threads : my'[u].fd <= Len(files) /\ my'[u].base <= Len(files)
    BY DEF DirectoryInv, Bounds, OnlyMoves
  <2>4. \A h \in Handles : handle'[h].mode # "closed" => handle'[h].dir \in DOMAIN dirs
    BY DEF DirectoryInv, Bounds, HandlesKept
  <2> QED BY <2>2, <2>3, <2>4 DEF Bounds
<1>3. DurableInv' BY DEF DirectoryInv, DurableInv, Data
<1>4. TempInv'
  <2> SUFFICES ASSUME NEW d \in DOMAIN dirs, NEW i \in dirs[d].temps \ orphans
               PROVE  \E u \in Updaters :
                        my'[u].fd = i /\ pc'[u] \in InSave /\ handle'[HandleOf[u]].dir = d
    BY DEF TempInv, Impl
  <2>1. PICK u \in Updaters : my[u].fd = i /\ pc[u] \in InSave /\ Impl(u).dir = d
    BY DEF DirectoryInv, TempInv
  <2>2. handle'[HandleOf[u]].dir = d
    BY <2>1, InUse DEF Threads, HandlesKept, Impl
  <2>3. my'[u].fd = i /\ pc'[u] \in InSave BY <2>1 DEF OnlyMoves, Threads
  <2> QED BY <2>2, <2>3
<1>5. FilesKept /\ CommitsKept(t)
  <2>1. ASSUME NEW u \in Updaters, pc[u] = "published", dirs[Impl(u).dir].state = my[u].fd
        PROVE  dirs[Impl(u).dir].disk = {my[u].fd}
    BY <2>1 DEF DirectoryInv, ThreadInv, CommitInv, Dir, Held, Impl, Threads
  <2>2. Len(files) <= Len(files) BY DEF DirectoryInv, FilesType
  <2> QED BY <2>1, <2>2 DEF FilesKept, CommitsKept
<1> QED BY <1>1, <1>2, <1>3, <1>4, <1>5, ThreadStep

\* What is known of one goroutine, its handle and its directory.
LEMMA ThreadFacts ==
  ASSUME DirectoryInv, NEW t \in Threads
  PROVE  /\ HandleOf[t] \in Handles /\ Impl(t) \in HandleRecord /\ my[t] \in LocalRecord
         /\ my[t].fd <= Len(files) /\ my[t].base <= Len(files)
         /\ LockInv(t) /\ LoadInv(t) /\ CommitInv(t) /\ UseInv
         /\ handle \in [Handles -> HandleRecord] /\ pc \in [Threads -> Places]
         /\ my \in [Threads -> LocalRecord] /\ flock \in Seq(Updaters \cup {None})
         /\ files \in Seq(FileRecord) /\ dirs \in Seq(DirRecord)
         /\ Len(files) \in Nat /\ Len(files) <= MaxFiles /\ MaxFiles \in Nat
         /\ t \in Updaters \/ t \in Loaders
BY InUse, StateDirectoryAssumption
   DEF DirectoryInv, ThreadsType, FilesType, Bounds, ThreadInv, Impl, Threads

\* A goroutine goes on; only its program counter moves.
LEMMA GotoFacts ==
  ASSUME DirectoryInv, NEW t \in Threads, NEW l \in Places, Goto(t, l)
  PROVE  /\ pc' \in [Threads -> Places] /\ pc'[t] = l
         /\ \A u \in Threads \ {t} : pc'[u] = pc[u]
BY ThreadFacts DEF Goto

\* A step that fails: what was read and the baseline are forgotten.
LEMMA FailFacts ==
  ASSUME DirectoryInv, NEW t \in Threads, NEW l \in Places,
         NEW e \in {"none", "refused", "changed"}, Fail(t, l, e)
  PROVE  /\ pc' \in [Threads -> Places] /\ pc'[t] = l
         /\ my' \in [Threads -> LocalRecord]
         /\ OnlyMoves(t)
         /\ my'[t].lock = my[t].lock /\ my'[t].data = <<>> /\ my'[t].base = 0
         /\ my'[t].fd = IF l = "cleanup" THEN my[t].fd ELSE 0
<1> DEFINE fd == IF l = "cleanup" THEN my[t].fd ELSE 0
           new == [my[t] EXCEPT !.err = e, !.data = <<>>, !.base = 0, !.fd = fd]
<1>1. my[t] \in LocalRecord /\ my \in [Threads -> LocalRecord] BY ThreadFacts
<1>2. my' = [my EXCEPT ![t] = new] /\ Goto(t, l) BY DEF Fail
<1>3. <<>> \in Seq(Updaters) /\ fd \in Nat BY <1>1 DEF LocalRecord
<1>4. new \in LocalRecord BY <1>1, <1>3 DEF LocalRecord
<1>5. new.lock = my[t].lock /\ new.data = <<>> /\ new.base = 0 /\ new.fd = fd
  BY <1>1 DEF LocalRecord
<1> HIDE DEF new
<1>6. my' \in [Threads -> LocalRecord] /\ my'[t] = new
      /\ \A u \in Threads \ {t} : my'[u] = my[u]
  BY <1>1, <1>2, <1>4
<1> QED BY <1>2, <1>5, <1>6, GotoFacts DEF OnlyMoves

\* A handle of which only references, active lock or tracked entry change.
LEMMA HandleFacts ==
  ASSUME DirectoryInv, NEW t \in Threads, NEW new \in HandleRecord,
         handle' = [handle EXCEPT ![HandleOf[t]] = new],
         new.dir = Impl(t).dir, new.mode = Impl(t).mode,
         Impl(t).active = t \/ Impl(t).active = None
           \/ /\ new.active = Impl(t).active
              /\ Impl(t).tracked <= Len(files) => new.tracked = Impl(t).tracked
  PROVE  handle' \in [Handles -> HandleRecord] /\ HandlesKept(t) /\ handle'[HandleOf[t]] = new
<1>1. handle \in [Handles -> HandleRecord] /\ HandleOf[t] \in Handles BY ThreadFacts
<1>2. handle' \in [Handles -> HandleRecord] /\ handle'[HandleOf[t]] = new
      /\ \A h \in Handles \ {HandleOf[t]} : handle'[h] = handle[h]
  BY <1>1
<1>3. ASSUME NEW u \in Updaters \ {t}, Impl(u).active = u
      PROVE  /\ handle'[HandleOf[u]].active = u
             /\ Impl(u).tracked <= Len(files) => handle'[HandleOf[u]].tracked = Impl(u).tracked
  <2>1. u \in Threads /\ u # None /\ HandleOf[u] \in Handles
    BY StateDirectoryAssumption DEF Threads
  <2>2. CASE HandleOf[u] = HandleOf[t] BY <1>2, <1>3, <2>1, <2>2 DEF Impl
  <2>3. CASE HandleOf[u] # HandleOf[t] BY <1>2, <1>3, <2>1, <2>3 DEF Impl
  <2> QED BY <2>2, <2>3
<1> QED BY <1>1, <1>2, <1>3 DEF HandlesKept, Impl

\* The same when the handle is not touched.
LEMMA HandlesSame ==
  ASSUME DirectoryInv, NEW t \in Threads, UNCHANGED handle
  PROVE  handle' \in [Handles -> HandleRecord] /\ HandlesKept(t)
BY ThreadFacts DEF HandlesKept, Impl

\* The same for the lock files.
LEMMA FlockSame ==
  ASSUME DirectoryInv, NEW t \in Threads, UNCHANGED flock
  PROVE  flock' \in Seq(Updaters \cup {None}) /\ FlockKept(t)
BY ThreadFacts DEF FlockKept

\* An operation that goes on changes no reference.
LEMMA GoesOn ==
  ASSUME DirectoryInv, NEW t \in Threads,
         UNCHANGED <<path, dirs, files, acked, orphans, faults>>,
         pc[t] # "idle", pc'[t] # "idle", pc' \in [Threads -> Places],
         my' \in [Threads -> LocalRecord], OnlyMoves(t),
         handle' \in [Handles -> HandleRecord], HandlesKept(t),
         \A h \in Handles : handle'[h].refs = handle[h].refs,
         flock' \in Seq(Updaters \cup {None}), FlockKept(t), ThreadInv(t)',
         my'[t].fd <= Len(files), my'[t].base <= Len(files),
         pc[t] \in InSave => pc'[t] \in InSave /\ my'[t].fd = my[t].fd
  PROVE  DirectoryInv'
<1>1. ThreadsType' BY DEF ThreadsType
<1>2. UseInv'
  <2>1. UseInv BY ThreadFacts
  <2> QED BY <2>1, UsersSame DEF OnlyMoves, HandlesKept
<1> QED BY <1>1, <1>2, QuietStep

\* trackActiveEntry: what others track stays; under the lock the entry is tracked.
LEMMA TrackedFacts ==
  ASSUME DirectoryInv, NEW t \in Threads, NEW ino \in Nat,
         TrackAccepts(HandleOf[t], ino), handle' = Tracked(HandleOf[t], ino)
  PROVE  /\ handle' \in [Handles -> HandleRecord] /\ HandlesKept(t)
         /\ \A h \in Handles : handle'[h].refs = handle[h].refs
         /\ handle'[HandleOf[t]].active = Impl(t).active
         /\ Impl(t).active # None => handle'[HandleOf[t]].tracked = ino
<1>0. Impl(t) \in HandleRecord /\ handle \in [Handles -> HandleRecord] /\ HandleOf[t] \in Handles
  BY ThreadFacts
<1>1. CASE Impl(t).active = None
  <2>1. handle' = handle BY <1>1 DEF Tracked, Impl
  <2> QED BY <1>1, <2>1, HandlesSame DEF Impl
<1>2. CASE Impl(t).active # None
  <2> DEFINE new == [Impl(t) EXCEPT !.tracked = ino]
  <2>1. handle' = [handle EXCEPT ![HandleOf[t]] = new] BY <1>2 DEF Tracked, Impl
  <2>2. /\ new \in HandleRecord /\ new.dir = Impl(t).dir /\ new.mode = Impl(t).mode
        /\ new.refs = Impl(t).refs /\ new.active = Impl(t).active /\ new.tracked = ino
    BY <1>0 DEF HandleRecord
  <2> HIDE DEF new
  <2>3. Impl(t).tracked \in {Untracked, ino} BY <1>2 DEF TrackAccepts, Impl
  <2>4. ~(Untracked <= Len(files)) BY ThreadFacts DEF Untracked
  <2>5. Impl(t).tracked <= Len(files) => new.tracked = Impl(t).tracked
    BY <2>2, <2>3, <2>4
  <2>6. handle' \in [Handles -> HandleRecord] /\ HandlesKept(t) /\ handle'[HandleOf[t]] = new
    BY <2>1, <2>2, <2>5, HandleFacts
  <2>7. \A h \in Handles : handle'[h].refs = handle[h].refs
    BY <1>0, <2>1, <2>2 DEF Impl
  <2> QED BY <2>2, <2>6, <2>7
<1> QED BY <1>1, <1>2

\* The state entry of a pinned directory exists.
LEMMA StateBound ==
  ASSUME DirectoryInv, NEW t \in Threads, pc[t] # "idle"
  PROVE  Dir(t).state \in Nat /\ Dir(t).state <= Len(files)
<1>1. Impl(t).dir \in DOMAIN dirs /\ Dir(t) = dirs[Impl(t).dir] /\ Dir(t) \in DirRecord
  BY InUse
<1> QED BY <1>1 DEF DirectoryInv, Bounds, DirRecord

-----------------------------------------------------------------------------
(***************************************************************************)
(* The steps that change only what their goroutine owns.                   *)
(***************************************************************************)

\* RetainAndLoad preserves the invariant: the handle gets a reference.
LEMMA RetainAndLoadStep ==
  ASSUME DirectoryInv, NEW t \in Threads, RetainAndLoad(t) PROVE DirectoryInv'
<1> DEFINE new == [Impl(t) EXCEPT !.refs = Impl(t).refs + 1]
<1>1. /\ HandleOf[t] \in Handles /\ Impl(t) \in HandleRecord /\ UseInv /\ ThreadsType
      /\ my[t].fd <= Len(files) /\ my[t].base <= Len(files) /\ my \in [Threads -> LocalRecord]
  BY ThreadFacts DEF DirectoryInv
<1>2. /\ pc[t] = "idle" /\ t \in Loaders /\ Impl(t).mode = "open" /\ Goto(t, "reading")
      /\ handle' = [handle EXCEPT ![HandleOf[t]] = new]
      /\ handle' = [handle EXCEPT ![HandleOf[t]].refs = handle[HandleOf[t]].refs + 1]
      /\ UNCHANGED <<path, dirs, files, flock, my, acked, orphans, faults>>
  BY DEF RetainAndLoad, fs, Impl
<1>3. /\ new \in HandleRecord /\ new.dir = Impl(t).dir /\ new.mode = Impl(t).mode
      /\ new.active = Impl(t).active /\ new.tracked = Impl(t).tracked
  BY <1>1 DEF HandleRecord
<1> HIDE DEF new
<1>4. handle' \in [Handles -> HandleRecord] /\ HandlesKept(t)
  BY <1>2, <1>3, HandleFacts
<1>5. /\ pc' \in [Threads -> Places] /\ pc'[t] = "reading"
      /\ \A u \in Threads \ {t} : pc'[u] = pc[u]
  BY <1>2, GotoFacts DEF Places, Owning
<1>6. UseInv' BY <1>1, <1>2, <1>5, UserEnters DEF Impl
<1>7. flock' \in Seq(Updaters \cup {None}) /\ FlockKept(t) BY <1>2, FlockSame
<1>8. ThreadInv(t)'
  <2>1. t \notin Updaters BY <1>2, StateDirectoryAssumption
  <2> QED BY <1>2, <1>5, <2>1 DEF ThreadInv, LockInv, LoadInv, CommitInv
<1>9. ThreadsType' BY <1>1, <1>2, <1>4, <1>5 DEF ThreadsType
<1>10. OnlyMoves(t) BY <1>2, <1>5 DEF OnlyMoves
<1> QED BY <1>1, <1>2, <1>4, <1>6, <1>7, <1>8, <1>9, <1>10, QuietStep DEF InSave

\* StopWaiting preserves the invariant.
LEMMA StopWaitingStep ==
  ASSUME DirectoryInv, NEW t \in Threads, StopWaiting(t) PROVE DirectoryInv'
<1>1. /\ pc[t] = "waiting" /\ Fail(t, "closing", "refused")
      /\ UNCHANGED <<path, dirs, files, flock, handle, acked, orphans, faults>>
  BY DEF StopWaiting, fs
<1>2. /\ pc' \in [Threads -> Places] /\ pc'[t] = "closing" /\ my' \in [Threads -> LocalRecord]
      /\ OnlyMoves(t) /\ my'[t].lock = my[t].lock /\ my'[t].base = 0 /\ my'[t].fd = 0
  BY <1>1, FailFacts DEF Places, Owning
<1>3. LockInv(t) /\ Len(files) \in Nat BY ThreadFacts
<1>4. handle' \in [Handles -> HandleRecord] /\ HandlesKept(t) BY <1>1, HandlesSame
<1>5. flock' \in Seq(Updaters \cup {None}) /\ FlockKept(t) BY <1>1, FlockSame
<1>6. ThreadInv(t)'
  BY <1>1, <1>2, <1>3 DEF ThreadInv, LockInv, LoadInv, CommitInv, Owning
<1> QED BY <1>1, <1>2, <1>3, <1>4, <1>5, <1>6, GoesOn DEF InSave

\* TakeFlock preserves the invariant: the lock file was free.
LEMMA TakeFlockStep ==
  ASSUME DirectoryInv, NEW t \in Threads, TakeFlock(t) PROVE DirectoryInv'
<1>0. LockInv(t) /\ LoadInv(t) /\ flock \in Seq(Updaters \cup {None})
      /\ my[t].fd <= Len(files) /\ my[t].base <= Len(files) /\ my \in [Threads -> LocalRecord]
      /\ (t \in Updaters \/ t \in Loaders)
  BY ThreadFacts
<1>1. /\ pc[t] = "waiting" /\ flock[my[t].lock] = None /\ Goto(t, "checking")
      /\ flock' = [flock EXCEPT ![my[t].lock] = t]
      /\ UNCHANGED <<path, dirs, files, handle, my, acked, orphans, faults>>
  BY DEF TakeFlock
<1>2. t \in Updaters /\ my[t].lock \in DOMAIN flock BY <1>0, <1>1 DEF LockInv
<1>3. /\ pc' \in [Threads -> Places] /\ pc'[t] = "checking"
      /\ \A u \in Threads \ {t} : pc'[u] = pc[u]
  BY <1>1, GotoFacts DEF Places
<1>4. handle' \in [Handles -> HandleRecord] /\ HandlesKept(t) BY <1>1, HandlesSame
<1>5. /\ flock' \in Seq(Updaters \cup {None}) /\ Len(flock') = Len(flock)
      /\ DOMAIN flock' = DOMAIN flock /\ flock'[my[t].lock] = t
      /\ \A l \in DOMAIN flock : l # my[t].lock => flock'[l] = flock[l]
  BY <1>0, <1>1, <1>2, ReplaceFacts
<1>6. FlockKept(t)
  <2>1. None \notin Updaters BY StateDirectoryAssumption DEF Threads
  <2>2. Len(flock) \in Nat BY <1>0, LenProperties
  <2> QED BY <1>1, <1>5, <2>1, <2>2 DEF FlockKept
<1>7. ThreadInv(t)'
  BY <1>0, <1>1, <1>2, <1>3, <1>5, StateDirectoryAssumption
     DEF ThreadInv, LockInv, LoadInv, CommitInv, Owning
<1>8. OnlyMoves(t) BY <1>1, <1>3 DEF OnlyMoves
<1> QED BY <1>0, <1>1, <1>3, <1>4, <1>5, <1>6, <1>7, <1>8, GoesOn DEF InSave

\* CheckLock preserves the invariant: the lock becomes active on a handle that has none.
LEMMA CheckLockStep ==
  ASSUME DirectoryInv, NEW t \in Threads, CheckLock(t) PROVE DirectoryInv'
<1>0. /\ LockInv(t) /\ LoadInv(t) /\ Impl(t) \in HandleRecord /\ Len(files) \in Nat
      /\ HandleOf[t] \in Handles /\ handle \in [Handles -> HandleRecord]
      /\ my[t].fd <= Len(files) /\ my[t].base <= Len(files) /\ my \in [Threads -> LocalRecord]
      /\ (t \in Updaters \/ t \in Loaders)
  BY ThreadFacts
<1>1. pc[t] = "checking" /\ UNCHANGED <<path, dirs, files, flock, acked, orphans, faults>>
  BY DEF CheckLock, fs
<1>2. t \in Updaters /\ my[t].lock \in DOMAIN flock /\ flock[my[t].lock] = t
  BY <1>0, <1>1 DEF LockInv
<1>3. flock' \in Seq(Updaters \cup {None}) /\ FlockKept(t) BY <1>1, FlockSame
<1>4. CASE LockEntryStands(t) /\ Continuity(HandleOf[t]) /\ Impl(t).active = None
  <2> DEFINE new == [Impl(t) EXCEPT !.active = t, !.tracked = Untracked]
  <2>1. /\ handle' = [handle EXCEPT ![HandleOf[t]] = new]
        /\ Goto(t, "reading") /\ UNCHANGED my
    BY <1>4 DEF CheckLock, Impl
  <2>2. Untracked \in Nat BY StateDirectoryAssumption DEF Untracked
  <2>3. /\ new \in HandleRecord /\ new.dir = Impl(t).dir /\ new.mode = Impl(t).mode
        /\ new.refs = Impl(t).refs /\ new.active = t /\ new.tracked = Untracked
    BY <1>0, <1>2, <2>2 DEF HandleRecord
  <2> HIDE DEF new
  <2>4. handle' \in [Handles -> HandleRecord] /\ HandlesKept(t) /\ handle'[HandleOf[t]] = new
    BY <1>4, <2>1, <2>3, HandleFacts
  <2>5. \A h \in Handles : handle'[h].refs = handle[h].refs BY <1>0, <2>1, <2>3 DEF Impl
  <2>6. /\ pc' \in [Threads -> Places] /\ pc'[t] = "reading"
        /\ \A u \in Threads \ {t} : pc'[u] = pc[u]
    BY <2>1, GotoFacts DEF Places, Owning
  <2>7. ThreadInv(t)'
    BY <1>0, <1>1, <1>2, <2>1, <2>3, <2>4, <2>6, StateDirectoryAssumption
       DEF ThreadInv, LockInv, LoadInv, CommitInv, Owning, Impl
  <2>8. OnlyMoves(t) BY <2>1, <2>6 DEF OnlyMoves
  <2> QED BY <1>0, <1>1, <1>3, <2>1, <2>4, <2>5, <2>6, <2>7, <2>8, GoesOn DEF InSave
<1>5. CASE ~(LockEntryStands(t) /\ Continuity(HandleOf[t]) /\ Impl(t).active = None)
  <2>1. Fail(t, "closing", "refused") /\ UNCHANGED handle BY <1>5 DEF CheckLock
  <2>2. /\ pc' \in [Threads -> Places] /\ pc'[t] = "closing" /\ my' \in [Threads -> LocalRecord]
        /\ OnlyMoves(t) /\ my'[t].lock = my[t].lock /\ my'[t].base = 0 /\ my'[t].fd = 0
    BY <2>1, FailFacts DEF Places, Owning
  <2>3. handle' \in [Handles -> HandleRecord] /\ HandlesKept(t) BY <2>1, HandlesSame
  <2>4. ThreadInv(t)'
    BY <1>1, <1>2, <2>2, StateDirectoryAssumption DEF ThreadInv, LockInv, LoadInv, CommitInv, Owning
  <2> QED BY <1>0, <1>1, <1>3, <2>1, <2>2, <2>3, <2>4, GoesOn DEF InSave
<1> QED BY <1>4, <1>5

\* OpenState preserves the invariant.
LEMMA OpenStateStep ==
  ASSUME DirectoryInv, NEW t \in Threads, OpenState(t) PROVE DirectoryInv'
<1> DEFINE new == [my[t] EXCEPT !.fd = Dir(t).state]
<1>0. /\ LockInv(t) /\ LoadInv(t) /\ my[t] \in LocalRecord /\ my \in [Threads -> LocalRecord]
      /\ my[t].base <= Len(files) /\ (t \in Updaters \/ t \in Loaders)
  BY ThreadFacts
<1>1. /\ pc[t] = "reading" /\ Goto(t, "opened") /\ my' = [my EXCEPT ![t] = new]
      /\ UNCHANGED <<path, dirs, files, flock, handle, acked, orphans, faults>>
  BY DEF OpenState, fs
<1>2. Dir(t).state \in Nat /\ Dir(t).state <= Len(files) BY <1>1, StateBound
<1>3. /\ new \in LocalRecord /\ new.fd = Dir(t).state /\ new.base = my[t].base
      /\ new.lock = my[t].lock /\ new.data = my[t].data
  BY <1>0, <1>2 DEF LocalRecord
<1> HIDE DEF new
<1>4. /\ pc' \in [Threads -> Places] /\ pc'[t] = "opened"
      /\ \A u \in Threads \ {t} : pc'[u] = pc[u]
  BY <1>1, GotoFacts DEF Places, Owning
<1>5. my' \in [Threads -> LocalRecord] /\ my'[t] = new /\ OnlyMoves(t)
  BY <1>0, <1>1, <1>3, <1>4 DEF OnlyMoves
<1>6. handle' \in [Handles -> HandleRecord] /\ HandlesKept(t) BY <1>1, HandlesSame
<1>7. flock' \in Seq(Updaters \cup {None}) /\ FlockKept(t) BY <1>1, FlockSame
<1>8. ThreadInv(t)'
  BY <1>0, <1>1, <1>3, <1>4, <1>5 DEF ThreadInv, LockInv, LoadInv, CommitInv, Owning, Impl
<1> QED BY <1>0, <1>1, <1>2, <1>3, <1>4, <1>5, <1>6, <1>7, <1>8, GoesOn DEF InSave

\* TrackState preserves the invariant: a missing file is an empty state.
LEMMA TrackStateStep ==
  ASSUME DirectoryInv, NEW t \in Threads, TrackState(t) PROVE DirectoryInv'
<1> DEFINE l == IF my[t].fd # 0 THEN "tracked" ELSE AfterLoad(t)
           fd == my[t].fd
<1>0. /\ LockInv(t) /\ LoadInv(t) /\ my[t] \in LocalRecord /\ my \in [Threads -> LocalRecord]
      /\ my[t].fd <= Len(files) /\ my[t].base <= Len(files) /\ (t \in Updaters \/ t \in Loaders)
      /\ Len(files) \in Nat
  BY ThreadFacts
<1>1. /\ pc[t] = "opened" /\ TrackAccepts(HandleOf[t], fd) /\ handle' = Tracked(HandleOf[t], fd)
      /\ Goto(t, l) /\ UNCHANGED <<path, dirs, files, flock, my, acked, orphans, faults>>
  BY DEF TrackState, fs
<1>2. fd \in Nat BY <1>0 DEF LocalRecord
<1>3. /\ handle' \in [Handles -> HandleRecord] /\ HandlesKept(t)
      /\ \A h \in Handles : handle'[h].refs = handle[h].refs
      /\ handle'[HandleOf[t]].active = Impl(t).active
      /\ Impl(t).active # None => handle'[HandleOf[t]].tracked = fd
  BY <1>1, <1>2, TrackedFacts
<1>4. l \in {"tracked", "loaded", "release"} /\ (l = "loaded" => t \in Updaters /\ fd = 0)
      /\ (l = "tracked" => fd # 0)
      /\ (t \in Loaders => l # "loaded") /\ (t \in Updaters => l # "release")
  BY StateDirectoryAssumption DEF AfterLoad
<1> HIDE DEF l
<1>5. pc' \in [Threads -> Places] /\ pc'[t] = l /\ \A u \in Threads \ {t} : pc'[u] = pc[u]
  BY <1>1, <1>4, GotoFacts DEF Places, Owning
<1>6. OnlyMoves(t) BY <1>1, <1>5 DEF OnlyMoves
<1>7. flock' \in Seq(Updaters \cup {None}) /\ FlockKept(t) BY <1>1, FlockSame
<1>8. LockInv(t)'
  BY <1>0, <1>1, <1>3, <1>4, <1>5, StateDirectoryAssumption DEF LockInv, Owning, Impl
<1>9. LoadInv(t)'
  <2>1. t \in Updaters => Impl(t).active = t /\ t # None /\ my[t].data = <<>>
    BY <1>0, <1>1, StateDirectoryAssumption DEF LockInv, LoadInv, Owning, Threads
  <2>2. t \in Updaters => handle'[HandleOf[t]].tracked = fd BY <1>3, <2>1
  <2>3. 0 <= Len(files) BY <1>0
  <2> QED BY <1>1, <1>4, <1>5, <2>1, <2>2, <2>3 DEF LoadInv, Data, Impl
<1>10. CommitInv(t)' BY <1>4, <1>5 DEF CommitInv
<1>11. ThreadInv(t)' BY <1>8, <1>9, <1>10 DEF ThreadInv
<1> QED BY <1>0, <1>1, <1>3, <1>4, <1>5, <1>6, <1>7, <1>11, GoesOn DEF InSave

\* ReadState preserves the invariant: the content is that of the tracked entry.
LEMMA ReadStateStep ==
  ASSUME DirectoryInv, NEW t \in Threads, ReadState(t) PROVE DirectoryInv'
<1> DEFINE d == files[my[t].fd].data
           new == [my[t] EXCEPT !.data = d, !.fd = 0]
           l == AfterLoad(t)
<1>0. /\ LockInv(t) /\ LoadInv(t) /\ my[t] \in LocalRecord /\ my \in [Threads -> LocalRecord]
      /\ my[t].fd <= Len(files) /\ my[t].base <= Len(files) /\ (t \in Updaters \/ t \in Loaders)
      /\ Len(files) \in Nat /\ files \in Seq(FileRecord)
  BY ThreadFacts
<1>1. /\ pc[t] = "tracked" /\ Goto(t, l) /\ my' = [my EXCEPT ![t] = new]
      /\ UNCHANGED <<path, dirs, files, flock, handle, acked, orphans, faults>>
  BY DEF ReadState, fs
<1>2. my[t].fd \in DOMAIN files
  <2>1. my[t].fd \in Nat /\ my[t].fd # 0 BY <1>0, <1>1 DEF LocalRecord, LoadInv
  <2> QED BY <1>0, <2>1
<1>3. d \in Seq(Updaters)
  <2>1. files[my[t].fd] \in FileRecord BY <1>0, <1>2
  <2> QED BY <2>1 DEF FileRecord
<1>4. /\ new \in LocalRecord /\ new.fd = 0 /\ new.base = my[t].base /\ new.lock = my[t].lock
      /\ new.data = d
  <2> HIDE DEF d
  <2> QED BY <1>0, <1>3 DEF LocalRecord
<1>5. t \in Updaters => Impl(t).tracked = my[t].fd BY <1>0, <1>1 DEF LoadInv
<1>6. t \in Updaters => d = Data(my[t].fd) /\ my[t].fd <= Len(files)
  BY <1>0, <1>1 DEF Data, LoadInv
<1> HIDE DEF new, d
<1>7. l \in {"loaded", "release"} /\ (t \in Loaders => l = "release") /\ (t \in Updaters => l = "loaded")
  BY <1>0, StateDirectoryAssumption DEF AfterLoad
<1> HIDE DEF l
<1>8. pc' \in [Threads -> Places] /\ pc'[t] = l /\ \A u \in Threads \ {t} : pc'[u] = pc[u]
  BY <1>1, <1>7, GotoFacts DEF Places, Owning
<1>9. my' \in [Threads -> LocalRecord] /\ my'[t] = new /\ OnlyMoves(t)
  BY <1>0, <1>1, <1>4, <1>8 DEF OnlyMoves
<1>10. handle' \in [Handles -> HandleRecord] /\ HandlesKept(t) BY <1>1, HandlesSame
<1>11. flock' \in Seq(Updaters \cup {None}) /\ FlockKept(t) BY <1>1, FlockSame
<1>12. LockInv(t)'
  BY <1>0, <1>1, <1>4, <1>7, <1>8, <1>9 DEF LockInv, Owning, Impl
<1>13. LoadInv(t)'
  <2>1. CASE t \in Updaters
    <3>1. Data(Impl(t).tracked)' = Data(my[t].fd) BY <1>1, <1>5, <2>1 DEF Data, Impl
    <3>2. Impl(t)'.tracked = my[t].fd BY <1>1, <1>5, <2>1 DEF Impl
    <3> QED BY <1>1, <1>4, <1>6, <1>7, <1>8, <1>9, <2>1, <3>1, <3>2 DEF LoadInv, Impl
  <2>2. CASE t \notin Updaters BY <1>0, <1>7, <1>8, <2>2 DEF LoadInv
  <2> QED BY <2>1, <2>2
<1>14. CommitInv(t)' BY <1>7, <1>8 DEF CommitInv
<1>15. ThreadInv(t)' BY <1>12, <1>13, <1>14 DEF ThreadInv
<1> QED BY <1>0, <1>1, <1>4, <1>7, <1>8, <1>9, <1>10, <1>11, <1>15, GoesOn DEF InSave

\* An operation that gives up keeps its lock until it is closed.
LEMMA GivesUp ==
  ASSUME DirectoryInv, NEW t \in Threads, pc[t] \in Owning, NEW l, NEW e \in {"refused", "changed"},
         \/ l = "unlock" /\ t \in Updaters /\ pc[t] \notin InSave
         \/ l = "release" /\ t \in Loaders
         \/ l = "cleanup" /\ t \in Updaters /\ pc[t] \in InSave,
         Fail(t, l, e), UNCHANGED <<path, dirs, files, flock, handle, acked, orphans, faults>>
  PROVE  DirectoryInv'
<1>0. LockInv(t) /\ Len(files) \in Nat /\ my[t].fd <= Len(files) BY ThreadFacts
<1>1. /\ pc' \in [Threads -> Places] /\ pc'[t] = l /\ my' \in [Threads -> LocalRecord]
      /\ OnlyMoves(t) /\ my'[t].lock = my[t].lock /\ my'[t].base = 0
      /\ my'[t].fd = IF l = "cleanup" THEN my[t].fd ELSE 0
  BY FailFacts DEF Places, Owning
<1>2. handle' \in [Handles -> HandleRecord] /\ HandlesKept(t) BY HandlesSame
<1>3. flock' \in Seq(Updaters \cup {None}) /\ FlockKept(t) BY FlockSame
<1>4. ThreadInv(t)'
  BY <1>0, <1>1, StateDirectoryAssumption DEF ThreadInv, LockInv, LoadInv, CommitInv, Owning, Impl
<1>5. pc[t] \in InSave => l = "cleanup" BY <1>0, StateDirectoryAssumption DEF LockInv, InSave
<1>6. l # "idle" /\ pc[t] # "idle" BY DEF Owning
<1> QED BY <1>0, <1>1, <1>2, <1>3, <1>4, <1>5, <1>6, GoesOn DEF InSave

\* ReadFails preserves the invariant.
LEMMA ReadFailsStep ==
  ASSUME DirectoryInv, NEW t \in Threads, ReadFails(t) PROVE DirectoryInv'
<1>1. UNCHANGED <<path, dirs, files, flock, handle, acked, orphans, faults>> BY DEF ReadFails, fs
<1>2. \E e \in {"refused", "changed"} : Fail(t, AfterRefusal(t), e)
  BY DEF ReadFails
<1>3. pc[t] \in {"reading", "opened", "tracked"} BY DEF ReadFails
<1>4. \/ AfterRefusal(t) = "unlock" /\ t \in Updaters
      \/ AfterRefusal(t) = "release" /\ t \in Loaders
  BY ThreadFacts DEF AfterRefusal
<1>5. pc[t] \in Owning /\ pc[t] \notin InSave BY <1>3 DEF Owning, InSave
<1>6. PICK e \in {"refused", "changed"} : Fail(t, AfterRefusal(t), e) BY <1>2
<1> QED BY <1>1, <1>4, <1>5, <1>6, GivesUp

\* SaveFails preserves the invariant.
LEMMA SaveFailsStep ==
  ASSUME DirectoryInv, NEW t \in Threads, SaveFails(t) PROVE DirectoryInv'
<1>1. UNCHANGED <<path, dirs, files, flock, handle, acked, orphans, faults>> BY DEF SaveFails, fs
<1>2. pc[t] \in {"loaded", "synced", "commit", "renamed", "published"} BY DEF SaveFails
<1>3. t \in Updaters
  <2>1. LockInv(t) /\ (t \in Updaters \/ t \in Loaders) BY ThreadFacts
  <2> QED BY <1>2, <2>1 DEF LockInv
<1>4. pc[t] \in Owning BY <1>2 DEF Owning
<1>5. CASE pc[t] \in InSave
  <2>1. Fail(t, "cleanup", "refused") BY <1>2, <1>5 DEF SaveFails, InSave
  <2> QED BY <1>1, <1>3, <1>4, <1>5, <2>1, GivesUp
<1>6. CASE pc[t] \notin InSave
  <2>1. \E e \in {"refused", "changed"} : Fail(t, "unlock", e)
    BY <1>2, <1>6 DEF SaveFails, InSave
  <2> QED BY <1>1, <1>3, <1>4, <1>6, <2>1, GivesUp
<1> QED BY <1>5, <1>6

\* PrepareCommit preserves the invariant: what it checked is what Rename relies on.
LEMMA PrepareCommitStep ==
  ASSUME DirectoryInv, NEW t \in Threads, PrepareCommit(t) PROVE DirectoryInv'
<1>0. /\ LockInv(t) /\ LoadInv(t) /\ CommitInv(t) /\ my \in [Threads -> LocalRecord]
      /\ my[t].fd <= Len(files) /\ my[t].base <= Len(files) /\ (t \in Updaters \/ t \in Loaders)
  BY ThreadFacts
<1>1. /\ pc[t] = "synced" /\ Continuity(HandleOf[t]) /\ Dir(t).state = my[t].base
      /\ TrackAccepts(HandleOf[t], Dir(t).state) /\ handle' = Tracked(HandleOf[t], Dir(t).state)
      /\ Goto(t, "commit") /\ UNCHANGED <<path, dirs, files, flock, my, acked, orphans, faults>>
  BY DEF PrepareCommit, MayCommit, fs
<1>2. Dir(t).state \in Nat /\ Dir(t).state <= Len(files) BY <1>1, StateBound
<1>3. /\ handle' \in [Handles -> HandleRecord] /\ HandlesKept(t)
      /\ \A h \in Handles : handle'[h].refs = handle[h].refs
      /\ handle'[HandleOf[t]].active = Impl(t).active
  BY <1>1, <1>2, TrackedFacts
<1>4. /\ pc' \in [Threads -> Places] /\ pc'[t] = "commit"
      /\ \A u \in Threads \ {t} : pc'[u] = pc[u]
  BY <1>1, GotoFacts DEF Places, Owning
<1>5. OnlyMoves(t) BY <1>1, <1>4 DEF OnlyMoves
<1>6. flock' \in Seq(Updaters \cup {None}) /\ FlockKept(t) BY <1>1, FlockSame
<1>7. t \in Updaters /\ Impl(t).active = t BY <1>0, <1>1 DEF LockInv, Owning
<1>8. LockInv(t)'
  BY <1>0, <1>1, <1>3, <1>4, <1>7, StateDirectoryAssumption DEF LockInv, Owning, Impl
<1>9. LoadInv(t)' BY <1>4 DEF LoadInv
<1>10. CommitInv(t)'
  <2>1. Dir(t).lock = my[t].lock
    BY <1>1, <1>7, StateDirectoryAssumption DEF Continuity, LockStands, Dir, Impl, Threads
  <2>2. HandleOf[t] \in Handles /\ handle'[HandleOf[t]].dir = Impl(t).dir
    BY <1>3, ThreadFacts DEF HandlesKept, Impl
  <2>3. Dir(t)' = Dir(t) BY <1>1, <2>2 DEF Dir, Held, Impl
  <2>4. my[t].fd # 0 /\ files[my[t].fd].data = Append(Data(my[t].base), t)
    BY <1>0, <1>1 DEF CommitInv
  <2> QED BY <1>1, <1>4, <2>1, <2>3, <2>4 DEF CommitInv, Data
<1>11. ThreadInv(t)' BY <1>8, <1>9, <1>10 DEF ThreadInv
<1> QED BY <1>0, <1>1, <1>3, <1>4, <1>5, <1>6, <1>11, GoesOn DEF InSave

\* Deactivate preserves the invariant.
LEMMA DeactivateStep ==
  ASSUME DirectoryInv, NEW t \in Threads, Deactivate(t) PROVE DirectoryInv'
<1> DEFINE new == [Impl(t) EXCEPT !.active = None, !.tracked = Untracked]
<1>0. /\ LockInv(t) /\ Impl(t) \in HandleRecord /\ HandleOf[t] \in Handles
      /\ handle \in [Handles -> HandleRecord] /\ my \in [Threads -> LocalRecord]
      /\ my[t].fd <= Len(files) /\ my[t].base <= Len(files) /\ (t \in Updaters \/ t \in Loaders)
  BY ThreadFacts
<1>1. /\ pc[t] = "unlock" /\ Goto(t, "closing") /\ handle' = [handle EXCEPT ![HandleOf[t]] = new]
      /\ UNCHANGED <<path, dirs, files, flock, my, acked, orphans, faults>>
  BY DEF Deactivate, fs, Impl
<1>2. Untracked \in Nat BY StateDirectoryAssumption DEF Untracked
<1>3. /\ new \in HandleRecord /\ new.dir = Impl(t).dir /\ new.mode = Impl(t).mode
      /\ new.refs = Impl(t).refs
  BY <1>0, <1>2 DEF HandleRecord
<1> HIDE DEF new
<1>4. t \in Updaters /\ Impl(t).active = t /\ my[t].lock \in DOMAIN flock
  BY <1>0, <1>1 DEF LockInv, Owning
<1>5. handle' \in [Handles -> HandleRecord] /\ HandlesKept(t)
  BY <1>1, <1>3, <1>4, HandleFacts
<1>6. \A h \in Handles : handle'[h].refs = handle[h].refs BY <1>0, <1>1, <1>3 DEF Impl
<1>7. /\ pc' \in [Threads -> Places] /\ pc'[t] = "closing"
      /\ \A u \in Threads \ {t} : pc'[u] = pc[u]
  BY <1>1, GotoFacts DEF Places, Owning
<1>8. OnlyMoves(t) BY <1>1, <1>7 DEF OnlyMoves
<1>9. flock' \in Seq(Updaters \cup {None}) /\ FlockKept(t) BY <1>1, FlockSame
<1>10. ThreadInv(t)'
  BY <1>1, <1>4, <1>7, StateDirectoryAssumption DEF ThreadInv, LockInv, LoadInv, CommitInv, Owning
<1> QED BY <1>0, <1>1, <1>5, <1>6, <1>7, <1>8, <1>9, <1>10, GoesOn DEF InSave

\* CloseLock preserves the invariant: only its own lock is dropped.
LEMMA CloseLockStep ==
  ASSUME DirectoryInv, NEW t \in Threads, CloseLock(t) PROVE DirectoryInv'
<1> DEFINE l == my[t].lock
           new == IF flock[l] = t THEN None ELSE flock[l]
<1>0. /\ LockInv(t) /\ flock \in Seq(Updaters \cup {None}) /\ my \in [Threads -> LocalRecord]
      /\ my[t].fd <= Len(files) /\ my[t].base <= Len(files) /\ (t \in Updaters \/ t \in Loaders)
  BY ThreadFacts
<1>1. /\ pc[t] = "closing" /\ Goto(t, "release") /\ flock' = [flock EXCEPT ![l] = new]
      /\ UNCHANGED <<path, dirs, files, handle, my, acked, orphans, faults>>
  BY DEF CloseLock
<1>2. t \in Updaters /\ l \in DOMAIN flock BY <1>0, <1>1 DEF LockInv
<1>3. new \in Updaters \cup {None} BY <1>0, <1>2
<1>4. flock[l] # t => new = flock[l] OBVIOUS
<1> HIDE DEF l, new
<1>5. /\ flock' \in Seq(Updaters \cup {None}) /\ Len(flock') = Len(flock)
      /\ flock'[l] = new
      /\ \A i \in DOMAIN flock : i # l => flock'[i] = flock[i]
  BY <1>0, <1>1, <1>2, <1>3, ReplaceFacts
<1>6. FlockKept(t)
  <2>1. Len(flock) \in Nat BY <1>0, LenProperties
  <2> QED BY <1>4, <1>5, <2>1 DEF FlockKept
<1>7. /\ pc' \in [Threads -> Places] /\ pc'[t] = "release"
      /\ \A u \in Threads \ {t} : pc'[u] = pc[u]
  BY <1>1, GotoFacts DEF Places
<1>8. handle' \in [Handles -> HandleRecord] /\ HandlesKept(t) BY <1>1, HandlesSame
<1>9. ThreadInv(t)'
  BY <1>1, <1>2, <1>7, StateDirectoryAssumption DEF ThreadInv, LockInv, LoadInv, CommitInv, Owning
<1>10. OnlyMoves(t) BY <1>1, <1>7 DEF OnlyMoves
<1> QED BY <1>0, <1>1, <1>5, <1>6, <1>7, <1>8, <1>9, <1>10, GoesOn DEF InSave

\* Release preserves the invariant: the reference is given back.
LEMMA ReleaseStep ==
  ASSUME DirectoryInv, NEW t \in Threads, Release(t) PROVE DirectoryInv'
<1> DEFINE new == [Impl(t) EXCEPT !.refs = Impl(t).refs - 1]
<1>0. /\ Impl(t) \in HandleRecord /\ HandleOf[t] \in Handles /\ UseInv /\ ThreadsType
      /\ my \in [Threads -> LocalRecord] /\ Len(files) \in Nat
  BY ThreadFacts DEF DirectoryInv
<1>1. /\ pc[t] = "release" /\ Goto(t, "idle") /\ handle' = [handle EXCEPT ![HandleOf[t]] = new]
      /\ handle' = [handle EXCEPT ![HandleOf[t]].refs = handle[HandleOf[t]].refs - 1]
      /\ my' = [my EXCEPT ![t] = Blank]
      /\ UNCHANGED <<path, dirs, files, flock, acked, orphans, faults>>
  BY DEF Release, fs, Impl
<1>2. /\ new \in HandleRecord /\ new.dir = Impl(t).dir /\ new.mode = Impl(t).mode
      /\ new.active = Impl(t).active /\ new.tracked = Impl(t).tracked
  BY <1>0 DEF HandleRecord
<1> HIDE DEF new
<1>3. handle' \in [Handles -> HandleRecord] /\ HandlesKept(t) BY <1>1, <1>2, HandleFacts
<1>4. /\ pc' \in [Threads -> Places] /\ pc'[t] = "idle"
      /\ \A u \in Threads \ {t} : pc'[u] = pc[u]
  BY <1>1, GotoFacts DEF Places
<1>5. UseInv' BY <1>0, <1>1, <1>4, UserLeaves
<1>6. Blank \in LocalRecord /\ Blank.fd = 0 /\ Blank.base = 0
  <2>1. <<>> \in Seq(Updaters) OBVIOUS
  <2> QED BY <2>1 DEF Blank, LocalRecord
<1>7. my' \in [Threads -> LocalRecord] /\ my'[t] = Blank /\ OnlyMoves(t)
  BY <1>0, <1>1, <1>4, <1>6 DEF OnlyMoves
<1>8. flock' \in Seq(Updaters \cup {None}) /\ FlockKept(t) BY <1>1, FlockSame
<1>9. ThreadInv(t)' BY <1>4, <1>7 DEF ThreadInv, LockInv, LoadInv, CommitInv, Owning
<1>10. ThreadsType' BY <1>3, <1>4, <1>7 DEF ThreadsType
<1> QED BY <1>0, <1>1, <1>3, <1>5, <1>6, <1>7, <1>8, <1>9, <1>10, QuietStep DEF InSave

-----------------------------------------------------------------------------
(***************************************************************************)
(* A step that changes one directory.                                      *)
(***************************************************************************)

\* One entry of dirs is replaced.
DirBecomes(d, new) == dirs' = [dirs EXCEPT ![d] = new]

\* What that does to dirs.
LEMMA DirFacts ==
  ASSUME DirectoryInv, NEW d \in DOMAIN dirs, NEW new \in DirRecord, DirBecomes(d, new)
  PROVE  /\ dirs' \in Seq(DirRecord) /\ Len(dirs') = Len(dirs) /\ DOMAIN dirs' = DOMAIN dirs
         /\ dirs'[d] = new /\ \A e \in DOMAIN dirs : e # d => dirs'[e] = dirs[e]
<1>1. dirs \in Seq(DirRecord) BY DEF DirectoryInv, FilesType
<1> QED BY <1>1, ReplaceFacts DEF DirBecomes

\* Entries, descriptors and pins still name what exists.
LEMMA BoundsKept ==
  ASSUME DirectoryInv, NEW t \in Threads, NEW d \in DOMAIN dirs, NEW new \in DirRecord,
         DirBecomes(d, new), new.state \in new.disk, new.lock <= Len(flock'),
         \A i \in new.disk : i <= Len(files'),
         my'[t].fd <= Len(files'), my'[t].base <= Len(files'),
         Len(files') \in Nat, Len(files) <= Len(files'), FlockKept(t),
         flock' \in Seq(Updaters \cup {None}), my' \in [Threads -> LocalRecord],
         OnlyMoves(t), HandlesKept(t)
  PROVE  Bounds'
<1>1. /\ DOMAIN dirs' = DOMAIN dirs /\ dirs'[d] = new
      /\ \A e \in DOMAIN dirs : e # d => dirs'[e] = dirs[e]
  BY DirFacts
<1>2. Len(flock) \in Nat /\ Len(flock') \in Nat /\ Len(flock) <= Len(flock') /\ Len(files) \in Nat
  BY ThreadFacts, LenProperties DEF FlockKept
<1>3. ASSUME NEW e \in DOMAIN dirs
      PROVE  /\ dirs[e].state \in dirs[e].disk /\ dirs[e].lock <= Len(flock')
             /\ \A i \in dirs[e].disk : i <= Len(files')
  <2>1. dirs[e] \in DirRecord BY ThreadFacts
  <2>2. dirs[e].lock \in Nat /\ dirs[e].disk \subseteq Nat BY <2>1 DEF DirRecord
  <2>3. /\ dirs[e].state \in dirs[e].disk /\ dirs[e].lock <= Len(flock)
        /\ \A i \in dirs[e].disk : i <= Len(files)
    BY DEF DirectoryInv, Bounds
  <2> QED BY <1>2, <2>2, <2>3
<1>4. \A e \in DOMAIN dirs' : /\ dirs'[e].state \in dirs'[e].disk /\ dirs'[e].lock <= Len(flock')
                              /\ \A i \in dirs'[e].disk : i <= Len(files')
  BY <1>1, <1>3
<1>5. ASSUME NEW u \in Threads PROVE my'[u].fd <= Len(files') /\ my'[u].base <= Len(files')
  <2>1. CASE u = t BY <2>1
  <2>2. CASE u # t
    <3>1. my'[u] = my[u] BY <2>2 DEF OnlyMoves
    <3>2. my[u].fd \in Nat /\ my[u].base \in Nat /\ my[u].fd <= Len(files) /\ my[u].base <= Len(files)
      BY ThreadFacts DEF LocalRecord
    <3> QED BY <1>2, <3>1, <3>2
  <2> QED BY <2>1, <2>2
<1>6. \A h \in Handles : handle'[h].mode # "closed" => handle'[h].dir \in DOMAIN dirs
  BY DEF DirectoryInv, Bounds, HandlesKept
<1> QED BY <1>1, <1>4, <1>5, <1>6 DEF Bounds

\* Every temp file still belongs to a save.
LEMMA TempsKept ==
  ASSUME DirectoryInv, NEW t \in Threads, NEW new \in DirRecord, Impl(t).dir \in DOMAIN dirs,
         DirBecomes(Impl(t).dir, new), orphans' = orphans, OnlyMoves(t), HandlesKept(t),
         \A i \in new.temps :
           \/ t \in Updaters /\ i = my'[t].fd /\ pc'[t] \in InSave
           \/ i \in Dir(t).temps /\ ~(my[t].fd = i /\ pc[t] \in InSave)
  PROVE  TempInv'
<1> DEFINE d == Impl(t).dir
<1>0. HandleOf[t] \in Handles /\ Dir(t) = dirs[d] BY InUse DEF Dir, Held, Impl
<1>1. /\ DOMAIN dirs' = DOMAIN dirs /\ dirs'[d] = new
      /\ \A e \in DOMAIN dirs : e # d => dirs'[e] = dirs[e]
  BY DirFacts
<1>2. ASSUME NEW e \in DOMAIN dirs, NEW i \in dirs[e].temps \ orphans,
             ~(t \in Updaters /\ my[t].fd = i /\ pc[t] \in InSave /\ d = e)
      PROVE  \E u \in Updaters : /\ my'[u].fd = i /\ pc'[u] \in InSave
                                 /\ handle'[HandleOf[u]].dir = e
  <2>1. PICK u \in Updaters : my[u].fd = i /\ pc[u] \in InSave /\ Impl(u).dir = e
    BY <1>2 DEF DirectoryInv, TempInv
  <2>2. u # t /\ u \in Threads BY <1>2, <2>1 DEF Threads
  <2>3. HandleOf[u] \in Handles BY <2>2, InUse
  <2>4. handle'[HandleOf[u]].dir = e BY <2>1, <2>3 DEF HandlesKept, Impl
  <2>5. my'[u].fd = i /\ pc'[u] \in InSave BY <2>1, <2>2 DEF OnlyMoves
  <2> QED BY <2>4, <2>5
<1>3. ASSUME NEW e \in DOMAIN dirs, NEW i \in dirs'[e].temps \ orphans
      PROVE  \E u \in Updaters : /\ my'[u].fd = i /\ pc'[u] \in InSave
                                 /\ handle'[HandleOf[u]].dir = e
  <2>1. CASE e # d
    <3>1. i \in dirs[e].temps \ orphans BY <1>1, <1>3, <2>1
    <3> QED BY <1>2, <1>3, <2>1, <3>1
  <2>2. CASE e = d /\ t \in Updaters /\ i = my'[t].fd /\ pc'[t] \in InSave
    <3>1. handle'[HandleOf[t]].dir = e BY <1>0, <2>2 DEF HandlesKept, Impl
    <3> QED BY <2>2, <3>1
  <2>3. CASE e = d /\ i \in Dir(t).temps /\ ~(my[t].fd = i /\ pc[t] \in InSave)
    <3>1. i \in dirs[e].temps \ orphans BY <1>0, <2>3
    <3> QED BY <1>2, <1>3, <2>3, <3>1
  <2>4. e = d => i \in new.temps BY <1>1, <1>3
  <2> QED BY <2>1, <2>2, <2>3, <2>4
<1> QED BY <1>1, <1>3 DEF TempInv, Impl

\* What a power loss may bring back still comes after what was acknowledged.
LEMMA DurableKept ==
  ASSUME DirectoryInv, FilesKept, NEW d \in DOMAIN dirs, NEW new \in DirRecord,
         DirBecomes(d, new), acked' = acked,
         \A i \in new.disk : \/ i \in dirs[d].disk
                             \/ IsPrefix(acked[d], Data(i)')
  PROVE  DurableInv'
<1>1. /\ DOMAIN dirs' = DOMAIN dirs /\ dirs'[d] = new
      /\ \A e \in DOMAIN dirs : e # d => dirs'[e] = dirs[e]
  BY DirFacts
<1>2. ASSUME NEW e \in DOMAIN dirs, e \in 1..MaxDirs, NEW i \in dirs[e].disk
      PROVE  IsPrefix(acked[e], Data(i)')
  <2>1. dirs[e] \in DirRecord BY DEF DirectoryInv, FilesType
  <2>2. i \in Nat /\ i <= Len(files) BY <2>1 DEF DirRecord, DirectoryInv, Bounds
  <2>3. Data(i)' = Data(i) BY <2>2, DataKept
  <2> QED BY <1>2, <2>3 DEF DirectoryInv, DurableInv
<1>3. ASSUME NEW e \in 1..MaxDirs, e \in DOMAIN dirs, NEW i \in dirs'[e].disk
      PROVE  IsPrefix(acked[e], Data(i)')
  <2>1. CASE e = d
    <3>1. i \in new.disk BY <1>1, <1>3, <2>1
    <3>2. CASE i \in dirs[d].disk
      <4>1. i \in dirs[e].disk BY <2>1, <3>2
      <4> QED BY <1>2, <1>3, <4>1
    <3>3. CASE IsPrefix(acked[d], Data(i)') BY <2>1, <3>3
    <3> QED BY <3>1, <3>2, <3>3
  <2>2. CASE e # d
    <3>1. i \in dirs[e].disk BY <1>1, <1>3, <2>2
    <3> QED BY <1>2, <1>3, <3>1
  <2> QED BY <2>1, <2>2
<1>4. \A e \in 1..MaxDirs : e \notin DOMAIN dirs => acked[e] = <<>>
  BY DEF DirectoryInv, DurableInv
<1> QED BY <1>1, <1>3, <1>4 DEF DurableInv

\* The directory of two goroutines about to rename is not the same one.
LEMMA OneCommitter ==
  ASSUME DirectoryInv, NEW t \in Updaters, NEW u \in Updaters, pc[u] = "commit",
         pc[t] \in Owning, Dir(t).lock = my[t].lock, Impl(t).dir = Impl(u).dir
  PROVE  t = u
<1>1. t \in Threads /\ u \in Threads BY DEF Threads
<1>2. LockInv(t) /\ LockInv(u) /\ CommitInv(u) BY <1>1, ThreadFacts
<1>3. flock[my[t].lock] = t /\ flock[my[u].lock] = u BY <1>2 DEF LockInv, Owning
<1>4. Dir(u).lock = my[u].lock BY <1>2 DEF CommitInv
<1>5. Dir(t) = Dir(u) BY DEF Dir, Held, Impl
<1> QED BY <1>3, <1>4, <1>5

\* Nor have two goroutines written the same file.
LEMMA OneAuthor ==
  ASSUME DirectoryInv, NEW t \in Threads, NEW u \in Threads, my[t].fd = my[u].fd,
         pc[t] \in {"synced", "commit", "renamed", "published"},
         pc[u] \in {"synced", "commit", "renamed", "published"}
  PROVE  t = u
<1>1. /\ files[my[t].fd].data = Append(Data(my[t].base), t)
      /\ files[my[u].fd].data = Append(Data(my[u].base), u)
  BY ThreadFacts DEF CommitInv
<1>2. ASSUME NEW v \in Threads PROVE Data(my[v].base) \in Seq(Updaters)
  <2>1. my[v].base \in Nat /\ my[v].base <= Len(files) /\ files \in Seq(FileRecord)
    BY ThreadFacts DEF LocalRecord
  <2>2. my[v].base # 0 => files[my[v].base] \in FileRecord BY <2>1
  <2>3. <<>> \in Seq(Updaters) OBVIOUS
  <2> QED BY <2>2, <2>3 DEF Data, FileRecord
<1>3. Append(Data(my[t].base), t) = Append(Data(my[u].base), u) BY <1>1
<1>4. Data(my[t].base) \in Seq(Updaters) /\ Data(my[u].base) \in Seq(Updaters) BY <1>2
<1> HIDE DEF Data
<1> QED BY <1>3, <1>4, AppendLast

\* A step that changes one directory and leaves the files as they are.
LEMMA DirectoryStep ==
  ASSUME DirectoryInv, NEW t \in Threads, NEW new \in DirRecord, Impl(t).dir \in DOMAIN dirs,
         DirBecomes(Impl(t).dir, new), UNCHANGED <<path, files, acked, orphans, faults>>,
         new.state \in new.disk, new.lock <= Len(flock'),
         \A i \in new.disk : \/ i \in Dir(t).disk
                             \/ i <= Len(files) /\ IsPrefix(acked[Impl(t).dir], Data(i)),
         my' \in [Threads -> LocalRecord], my'[t].fd <= Len(files), my'[t].base <= Len(files),
         \A i \in new.temps :
           \/ t \in Updaters /\ i = my'[t].fd /\ pc'[t] \in InSave
           \/ i \in Dir(t).temps /\ ~(my[t].fd = i /\ pc[t] \in InSave),
         pc' \in [Threads -> Places], handle' \in [Handles -> HandleRecord],
         flock' \in Seq(Updaters \cup {None}), UseInv', ThreadInv(t)', OnlyMoves(t),
         HandlesKept(t), FlockKept(t), CommitsKept(t)
  PROVE  DirectoryInv'
<1> DEFINE d == Impl(t).dir
<1>1. Dir(t) = dirs[d] BY DEF Dir, Held, Impl
<1>2. dirs' \in Seq(DirRecord) /\ Len(dirs') = Len(dirs) BY DirFacts
<1>3. FilesType' BY <1>2 DEF DirectoryInv, FilesType
<1>4. ThreadsType' BY DEF ThreadsType
<1>5. Len(files) \in Nat BY ThreadFacts
<1>6. \A i \in new.disk : i <= Len(files)
  <2>1. \A i \in Dir(t).disk : i <= Len(files) BY <1>1 DEF DirectoryInv, Bounds
  <2> QED BY <2>1
<1>7. Bounds' BY <1>5, <1>6, BoundsKept
<1>8. FilesKept BY <1>5 DEF FilesKept
<1>9. \A i \in new.disk : i \in dirs[d].disk \/ IsPrefix(acked[d], Data(i)')
  BY <1>1 DEF Data
<1>10. DurableInv' BY <1>8, <1>9, DurableKept
<1>11. TempInv' BY TempsKept
<1> QED BY <1>3, <1>4, <1>7, <1>8, <1>10, <1>11, ThreadStep

\* What is known of the entry a goroutine works on.
LEMMA EntryFacts ==
  ASSUME DirectoryInv, NEW t \in Threads, Impl(t).dir \in DOMAIN dirs
  PROVE  /\ Dir(t) \in DirRecord /\ Dir(t).state \in Dir(t).disk /\ Dir(t).lock <= Len(flock)
         /\ Dir(t).lock \in Nat /\ Dir(t).disk \subseteq Nat /\ Dir(t).temps \subseteq Nat
         /\ \A i \in Dir(t).disk : i <= Len(files)
         /\ Impl(t).dir \in 1..MaxDirs
         /\ \A i \in Dir(t).disk : IsPrefix(acked[Impl(t).dir], Data(i))
<1>1. Dir(t) = dirs[Impl(t).dir] BY DEF Dir, Held, Impl
<1>2. Dir(t) \in DirRecord BY <1>1, ThreadFacts
<1>3. Impl(t).dir \in 1..MaxDirs
  <2>1. dirs \in Seq(DirRecord) /\ Len(dirs) <= MaxDirs /\ MaxDirs \in Nat
    BY StateDirectoryAssumption DEF DirectoryInv, FilesType
  <2> QED BY <2>1
<1>4. /\ Dir(t).state \in Dir(t).disk /\ Dir(t).lock <= Len(flock)
      /\ \A i \in Dir(t).disk : i <= Len(files)
  BY <1>1 DEF DirectoryInv, Bounds
<1>5. \A i \in Dir(t).disk : IsPrefix(acked[Impl(t).dir], Data(i))
  BY <1>1, <1>3 DEF DirectoryInv, DurableInv
<1> QED BY <1>2, <1>3, <1>4, <1>5 DEF DirRecord

\* The operation of an updater begins: the handle gets a reference.
LEMMA EntersFacts ==
  ASSUME DirectoryInv, NEW t \in Threads, pc[t] = "idle", Goto(t, "waiting"),
         Impl(t).mode = "open", handle' = [handle EXCEPT ![HandleOf[t]].refs = @ + 1]
  PROVE  /\ handle' \in [Handles -> HandleRecord] /\ HandlesKept(t) /\ UseInv'
         /\ pc' \in [Threads -> Places] /\ pc'[t] = "waiting"
         /\ \A u \in Threads \ {t} : pc'[u] = pc[u]
         /\ Impl(t).dir \in DOMAIN dirs
<1> DEFINE new == [Impl(t) EXCEPT !.refs = Impl(t).refs + 1]
<1>1. HandleOf[t] \in Handles /\ Impl(t) \in HandleRecord /\ UseInv /\ ThreadsType
  BY ThreadFacts DEF DirectoryInv
<1>2. /\ handle' = [handle EXCEPT ![HandleOf[t]] = new]
      /\ handle' = [handle EXCEPT ![HandleOf[t]].refs = handle[HandleOf[t]].refs + 1]
  BY DEF Impl
<1>3. /\ new \in HandleRecord /\ new.dir = Impl(t).dir /\ new.mode = Impl(t).mode
      /\ new.active = Impl(t).active /\ new.tracked = Impl(t).tracked
  BY <1>1 DEF HandleRecord
<1> HIDE DEF new
<1>4. handle' \in [Handles -> HandleRecord] /\ HandlesKept(t) BY <1>2, <1>3, HandleFacts
<1>5. /\ pc' \in [Threads -> Places] /\ pc'[t] = "waiting"
      /\ \A u \in Threads \ {t} : pc'[u] = pc[u]
  BY GotoFacts DEF Places
<1>6. UseInv' BY <1>1, <1>2, <1>5, UserEnters DEF Impl
<1>7. Impl(t).dir \in DOMAIN dirs BY <1>1 DEF DirectoryInv, Bounds, Impl
<1> QED BY <1>4, <1>5, <1>6, <1>7

\* RetainAndLock preserves the invariant: the lock file exists or is created.
LEMMA RetainAndLockStep ==
  ASSUME DirectoryInv, NEW t \in Threads, RetainAndLock(t) PROVE DirectoryInv'
<1>1. /\ pc[t] = "idle" /\ t \in Updaters /\ Impl(t).mode = "open" /\ OpenLock(t)
      /\ handle' = [handle EXCEPT ![HandleOf[t]].refs = @ + 1] /\ Goto(t, "waiting")
      /\ UNCHANGED <<path, files, acked, orphans, faults>>
  BY DEF RetainAndLock
<1>2. /\ handle' \in [Handles -> HandleRecord] /\ HandlesKept(t) /\ UseInv'
      /\ pc' \in [Threads -> Places] /\ pc'[t] = "waiting"
      /\ \A u \in Threads \ {t} : pc'[u] = pc[u]
      /\ Impl(t).dir \in DOMAIN dirs
  BY <1>1, EntersFacts
<1>3. /\ my[t] \in LocalRecord /\ my \in [Threads -> LocalRecord] /\ my[t] = Blank
      /\ my[t].fd <= Len(files) /\ my[t].base <= Len(files)
      /\ flock \in Seq(Updaters \cup {None}) /\ Len(files) \in Nat
  BY <1>1, ThreadFacts DEF LoadInv
<1>4. ASSUME NEW l \in Nat, my' = [my EXCEPT ![t].lock = l]
      PROVE  /\ my' \in [Threads -> LocalRecord] /\ OnlyMoves(t) /\ my'[t].lock = l
             /\ my'[t].fd = 0 /\ my'[t].base = 0 /\ my'[t].data = <<>>
  <2> DEFINE new == [my[t] EXCEPT !.lock = l]
  <2>1. my' = [my EXCEPT ![t] = new] BY <1>4
  <2>2. /\ new \in LocalRecord /\ new.lock = l /\ new.fd = my[t].fd /\ new.base = my[t].base
        /\ new.data = my[t].data
    BY <1>3 DEF LocalRecord
  <2>3. my[t].fd = 0 /\ my[t].base = 0 /\ my[t].data = <<>> BY <1>3 DEF Blank
  <2> HIDE DEF new
  <2> QED BY <1>2, <1>3, <2>1, <2>2, <2>3 DEF OnlyMoves
<1>5. ASSUME my'[t].data = <<>>, my'[t].lock \in DOMAIN flock' PROVE ThreadInv(t)'
  BY <1>1, <1>2, <1>5, StateDirectoryAssumption DEF ThreadInv, LockInv, LoadInv, CommitInv, Owning
<1>6. CASE Dir(t).lock # 0 /\ my' = [my EXCEPT ![t].lock = Dir(t).lock] /\ UNCHANGED <<dirs, flock>>
  <2>1. Dir(t).lock \in Nat /\ Dir(t).lock <= Len(flock) BY <1>2, EntryFacts
  <2>2. Dir(t).lock \in DOMAIN flock' BY <1>3, <1>6, <2>1
  <2>3. ThreadsType' BY <1>2, <1>4, <1>6, <2>1 DEF ThreadsType
  <2>4. flock' \in Seq(Updaters \cup {None}) /\ FlockKept(t) BY <1>6, FlockSame
  <2>5. /\ OnlyMoves(t) /\ my'[t].lock = Dir(t).lock
        /\ my'[t].fd = 0 /\ my'[t].base = 0 /\ my'[t].data = <<>>
    BY <1>4, <1>6, <2>1
  <2>6. ThreadInv(t)' BY <1>5, <2>2, <2>5
  <2> QED BY <1>1, <1>2, <1>3, <1>6, <2>3, <2>4, <2>5, <2>6, QuietStep DEF InSave
<1>7. CASE /\ Dir(t).lock = 0 /\ flock' = Append(flock, None)
           /\ dirs' = [dirs EXCEPT ![Impl(t).dir].lock = Len(flock')]
           /\ my' = [my EXCEPT ![t].lock = Len(flock')]
  <2> DEFINE new == [Dir(t) EXCEPT !.lock = Len(flock')]
             d == Impl(t).dir
  <2>0. None \in Updaters \cup {None} OBVIOUS
  <2>1. /\ flock' \in Seq(Updaters \cup {None}) /\ Len(flock') = Len(flock) + 1
        /\ \A l \in DOMAIN flock : flock'[l] = flock[l] /\ l \in DOMAIN flock'
        /\ Len(flock) \in Nat /\ Len(flock') \in Nat /\ Len(flock') \in DOMAIN flock'
    BY <1>3, <1>7, <2>0, GrowFacts
  <2>2. DirBecomes(d, new) BY <1>7 DEF DirBecomes, Dir, Held, Impl
  <2>3. /\ Dir(t) \in DirRecord /\ Dir(t).state \in Dir(t).disk
    BY <1>2, EntryFacts
  <2>4. /\ new \in DirRecord /\ new.lock = Len(flock') /\ new.state = Dir(t).state
        /\ new.disk = Dir(t).disk /\ new.temps = Dir(t).temps
    BY <2>1, <2>3 DEF DirRecord
  <2> HIDE DEF new
  <2>5. FlockKept(t) BY <2>1 DEF FlockKept
  <2>6. /\ my' \in [Threads -> LocalRecord] /\ OnlyMoves(t) /\ my'[t].lock = Len(flock')
        /\ my'[t].fd = 0 /\ my'[t].base = 0 /\ my'[t].data = <<>>
    BY <1>4, <1>7, <2>1
  <2>7. ThreadInv(t)' BY <1>5, <2>1, <2>6
  <2>8. CommitsKept(t)
    <3>1. /\ DOMAIN dirs' = DOMAIN dirs /\ dirs'[d] = new
          /\ \A e \in DOMAIN dirs : e # d => dirs'[e] = dirs[e]
      BY <1>2, <2>2, <2>4, DirFacts
    <3>2. dirs[d] = Dir(t) BY DEF Dir, Held, Impl
    <3>3. ASSUME NEW u \in Updaters, pc[u] \in {"commit", "published"}
          PROVE  /\ Impl(u).dir \in DOMAIN dirs /\ Dir(u) = dirs[Impl(u).dir]
                 /\ pc[u] = "commit" => Dir(u).lock # 0
                 /\ pc[u] = "published" /\ Dir(u).state = my[u].fd => Dir(u).disk = {my[u].fd}
      <4>1. u \in Threads BY DEF Threads
      <4>2. LockInv(u) /\ CommitInv(u) BY <4>1, ThreadFacts
      <4>3. my[u].lock \in DOMAIN flock BY <3>3, <4>2 DEF LockInv
      <4>4. my[u].lock # 0 BY <1>3, <4>3
      <4> QED BY <3>3, <4>1, <4>2, <4>4, InUse DEF CommitInv
    <3>4. \A u \in Updaters : pc[u] = "commit" => Impl(u).dir # d
      BY <1>7, <3>2, <3>3
    <3> QED BY <2>4, <3>1, <3>2, <3>3, <3>4 DEF CommitsKept
  <2>9. \A i \in new.temps : i \in Dir(t).temps /\ ~(my[t].fd = i /\ pc[t] \in InSave)
    BY <1>1, <2>4 DEF InSave
  <2>10. new.lock <= Len(flock') BY <2>1, <2>4
  <2>11. my'[t].fd <= Len(files) /\ my'[t].base <= Len(files) BY <1>3, <2>6
  <2>12. \A i \in new.disk : i \in Dir(t).disk BY <2>4
  <2>13. new.state \in new.disk BY <2>3, <2>4
  <2> QED BY <1>1, <1>2, <2>1, <2>2, <2>4, <2>5, <2>6, <2>7, <2>8, <2>9, <2>10, <2>11, <2>12, <2>13,
             DirectoryStep
<1> QED BY <1>1, <1>6, <1>7 DEF OpenLock

\* A step of a save that leaves the bookkeeping of the handles alone.
LEMMA SaveStep ==
  ASSUME DirectoryInv, NEW t \in Threads, NEW new \in DirRecord, NEW l \in Places,
         pc[t] # "idle", l # "idle", Goto(t, l),
         DirBecomes(Impl(t).dir, new), UNCHANGED <<path, files, flock, handle, acked, orphans, faults>>,
         new.state \in new.disk, new.lock = Dir(t).lock,
         \A i \in new.disk : \/ i \in Dir(t).disk
                             \/ i <= Len(files) /\ IsPrefix(acked[Impl(t).dir], Data(i)),
         my' \in [Threads -> LocalRecord], \A u \in Threads \ {t} : my'[u] = my[u],
         my'[t].fd <= Len(files), my'[t].base <= Len(files),
         \A i \in new.temps :
           \/ t \in Updaters /\ i = my'[t].fd /\ l \in InSave
           \/ i \in Dir(t).temps /\ ~(my[t].fd = i /\ pc[t] \in InSave),
         ThreadInv(t)',
         \A u \in Updaters \ {t} : Impl(u).dir = Impl(t).dir =>
           /\ pc[u] = "commit" => new.state = Dir(t).state
           /\ pc[u] = "published" /\ new.state = my[u].fd => new.disk = {my[u].fd}
  PROVE  DirectoryInv'
<1> DEFINE d == Impl(t).dir
<1>1. d \in DOMAIN dirs BY InUse
<1>2. pc' \in [Threads -> Places] /\ pc'[t] = l /\ \A u \in Threads \ {t} : pc'[u] = pc[u]
  BY GotoFacts
<1>3. handle' \in [Handles -> HandleRecord] /\ HandlesKept(t) BY HandlesSame
<1>4. flock' \in Seq(Updaters \cup {None}) /\ FlockKept(t) BY FlockSame
<1>5. OnlyMoves(t) BY <1>2 DEF OnlyMoves
<1>6. UseInv'
  <2>1. UseInv BY ThreadFacts
  <2>2. \A u \in Threads : pc'[u] = "idle" <=> pc[u] = "idle" BY <1>2
  <2> QED BY <2>1, <2>2, UsersSame
<1>7. Dir(t).lock <= Len(flock') BY <1>1, EntryFacts
<1>8. CommitsKept(t)
  <2>1. /\ DOMAIN dirs' = DOMAIN dirs /\ dirs'[d] = new
        /\ \A e \in DOMAIN dirs : e # d => dirs'[e] = dirs[e]
    BY <1>1, DirFacts
  <2>2. dirs[d] = Dir(t) BY DEF Dir, Held, Impl
  <2>3. ASSUME NEW u \in Updaters \ {t}, pc[u] \in {"commit", "published"}
        PROVE  /\ pc[u] = "commit" => dirs'[Impl(u).dir].lock = dirs[Impl(u).dir].lock
                                      /\ dirs'[Impl(u).dir].state = dirs[Impl(u).dir].state
               /\ pc[u] = "published" /\ dirs'[Impl(u).dir].state = my[u].fd =>
                    dirs'[Impl(u).dir].disk = {my[u].fd}
    <3>1. CASE Impl(u).dir = d BY <2>1, <2>2, <3>1
    <3>2. CASE Impl(u).dir # d
      <4>1. u \in Threads /\ pc[u] # "idle" BY <2>3 DEF Threads
      <4>2. Impl(u).dir \in DOMAIN dirs /\ Dir(u) = dirs[Impl(u).dir] /\ CommitInv(u)
        BY <4>1, InUse, ThreadFacts
      <4>3. dirs'[Impl(u).dir] = dirs[Impl(u).dir] BY <2>1, <3>2, <4>2
      <4> QED BY <4>2, <4>3 DEF CommitInv
    <3> QED BY <3>1, <3>2
  <2> QED BY <2>1, <2>3 DEF CommitsKept
<1> QED BY <1>1, <1>2, <1>3, <1>4, <1>5, <1>6, <1>7, <1>8, DirectoryStep

\* The state of a file that exists is one.
LEMMA DataType ==
  ASSUME DirectoryInv, NEW i \in Nat, i <= Len(files)
  PROVE  Data(i) \in Seq(Updaters)
<1>1. files \in Seq(FileRecord) BY DEF DirectoryInv, FilesType
<1>2. i # 0 => files[i] \in FileRecord BY <1>1
<1>3. <<>> \in Seq(Updaters) OBVIOUS
<1> QED BY <1>2, <1>3 DEF Data, FileRecord

\* Rename preserves the invariant: it replaces the state the new one was computed from.
LEMMA RenameStep ==
  ASSUME DirectoryInv, NEW t \in Threads, Rename(t) PROVE DirectoryInv'
<1> DEFINE fd == my[t].fd
           new == [Dir(t) EXCEPT !.state = fd, !.temps = Dir(t).temps \ {fd},
                                 !.disk = Dir(t).disk \cup {fd}]
           d == Impl(t).dir
<1>0. /\ LockInv(t) /\ LoadInv(t) /\ CommitInv(t) /\ my[t] \in LocalRecord
      /\ my \in [Threads -> LocalRecord] /\ fd <= Len(files) /\ my[t].base <= Len(files)
      /\ (t \in Updaters \/ t \in Loaders)
  BY ThreadFacts
<1>1. /\ pc[t] = "commit" /\ Goto(t, "renamed")
      /\ UNCHANGED <<path, files, flock, handle, my, acked, orphans, faults>>
  BY DEF Rename
<1>2. DirBecomes(d, new) BY DEF Rename, DirBecomes, Dir, Held, Impl
<1>3. d \in DOMAIN dirs BY <1>1, InUse
<1>4. /\ Dir(t) \in DirRecord /\ Dir(t).state \in Dir(t).disk /\ d \in 1..MaxDirs
      /\ \A i \in Dir(t).disk : IsPrefix(acked[d], Data(i))
  BY <1>3, EntryFacts
<1>5. t \in Updaters /\ fd \in Nat /\ fd # 0 /\ my[t].base \in Nat
  BY <1>0, <1>1 DEF LockInv, CommitInv, LocalRecord
<1>6. /\ new \in DirRecord /\ new.state = fd /\ new.lock = Dir(t).lock
      /\ new.disk = Dir(t).disk \cup {fd} /\ new.temps = Dir(t).temps \ {fd}
  BY <1>4, <1>5 DEF DirRecord
<1>7. IsPrefix(acked[d], Data(fd))
  <2>1. Data(fd) = Append(Data(my[t].base), t) BY <1>0, <1>1, <1>5 DEF CommitInv, Data
  <2>2. IsPrefix(acked[d], Data(my[t].base)) BY <1>0, <1>1, <1>4 DEF CommitInv
  <2>3. acked[d] \in Seq(Updaters) BY <1>4 DEF DirectoryInv, FilesType
  <2>4. Data(my[t].base) \in Seq(Updaters) BY <1>0, <1>5, DataType
  <2> HIDE DEF Data
  <2> QED BY <1>5, <2>1, <2>2, <2>3, <2>4, PrefixAppend
<1> HIDE DEF new
<1>8. ThreadInv(t)'
  <2>1. pc'[t] = "renamed" BY <1>1, ThreadFacts DEF Goto
  <2>2. LockInv(t)' BY <1>0, <1>1, <1>5, <2>1 DEF LockInv, Owning, Impl
  <2>3. fd # 0 /\ files[fd].data = Append(Data(my[t].base), t) BY <1>0, <1>1 DEF CommitInv
  <2>4. CommitInv(t)' BY <1>1, <2>1, <2>3 DEF CommitInv, Data
  <2> QED BY <2>1, <2>2, <2>4 DEF ThreadInv, LoadInv
<1>9. ASSUME NEW u \in Updaters \ {t}, Impl(u).dir = d
      PROVE  pc[u] # "commit" /\ (pc[u] = "published" => fd # my[u].fd)
  <2>1. Dir(t).lock = my[t].lock BY <1>0, <1>1 DEF CommitInv
  <2>2. pc[u] # "commit" BY <1>1, <1>5, <1>9, <2>1, OneCommitter DEF Owning
  <2>3. u \in Threads /\ u # t BY DEF Threads
  <2>4. pc[u] = "published" => fd # my[u].fd BY <1>1, <2>3, OneAuthor
  <2> QED BY <2>2, <2>4
<1>10. \A i \in new.temps : i \in Dir(t).temps /\ ~(my[t].fd = i /\ pc[t] \in InSave)
  BY <1>6
<1>11. new.state \in new.disk BY <1>6
<1>12. \A i \in new.disk : i \in Dir(t).disk \/ (i <= Len(files) /\ IsPrefix(acked[d], Data(i)))
  BY <1>0, <1>6, <1>7
<1>13. \A u \in Updaters \ {t} : Impl(u).dir = d =>
         /\ pc[u] = "commit" => new.state = Dir(t).state
         /\ pc[u] = "published" /\ new.state = my[u].fd => new.disk = {my[u].fd}
  BY <1>6, <1>9
<1>14. "renamed" \in Places BY DEF Places, Owning
<1>15. my' = my BY <1>1
<1> QED BY <1>0, <1>1, <1>2, <1>6, <1>8, <1>10, <1>11, <1>12, <1>13, <1>14, <1>15, SaveStep

\* SyncDirectory preserves the invariant: only the visible state can come back.
LEMMA SyncDirectoryStep ==
  ASSUME DirectoryInv, NEW t \in Threads, SyncDirectory(t) PROVE DirectoryInv'
<1> DEFINE new == [Dir(t) EXCEPT !.disk = {Dir(t).state}]
           d == Impl(t).dir
<1>0. /\ LockInv(t) /\ LoadInv(t) /\ CommitInv(t)
      /\ my \in [Threads -> LocalRecord] /\ my[t].fd <= Len(files) /\ my[t].base <= Len(files)
      /\ (t \in Updaters \/ t \in Loaders)
  BY ThreadFacts
<1>1. /\ pc[t] = "renamed" /\ Goto(t, "published")
      /\ UNCHANGED <<path, files, flock, handle, my, acked, orphans, faults>>
  BY DEF SyncDirectory
<1>2. DirBecomes(d, new) BY DEF SyncDirectory, DirBecomes, Dir, Held, Impl
<1>3. d \in DOMAIN dirs BY <1>1, InUse
<1>4. Dir(t) \in DirRecord /\ Dir(t).state \in Dir(t).disk BY <1>3, EntryFacts
<1>5. /\ new \in DirRecord /\ new.state = Dir(t).state /\ new.lock = Dir(t).lock
      /\ new.disk = {Dir(t).state} /\ new.temps = Dir(t).temps
  <2>1. {Dir(t).state} \in SUBSET Nat BY <1>4 DEF DirRecord
  <2> QED BY <1>4, <2>1 DEF DirRecord
<1> HIDE DEF new
<1>6. ThreadInv(t)'
  <2>1. pc'[t] = "published" /\ t \in Updaters
    BY <1>0, <1>1, ThreadFacts DEF Goto, LockInv
  <2>2. LockInv(t)' BY <1>0, <1>1, <2>1, StateDirectoryAssumption DEF LockInv, Owning, Impl
  <2>3. my[t].fd # 0 /\ files[my[t].fd].data = Append(Data(my[t].base), t)
    BY <1>0, <1>1 DEF CommitInv
  <2>4. Dir(t)' = new
    <3>1. dirs'[d] = new BY <1>2, <1>3, <1>5, DirFacts
    <3> QED BY <1>1, <3>1 DEF Dir, Held, Impl
  <2>5. Dir(t)'.state = my[t].fd => Dir(t)'.disk = {my[t].fd} BY <1>5, <2>4
  <2>6. CommitInv(t)' BY <1>1, <2>1, <2>3, <2>5 DEF CommitInv, Data
  <2> QED BY <2>1, <2>2, <2>6 DEF ThreadInv, LoadInv
<1>7. \A i \in new.temps : i \in Dir(t).temps /\ ~(my[t].fd = i /\ pc[t] \in InSave)
  BY <1>1, <1>5 DEF InSave
<1>8. \A i \in new.disk : i \in Dir(t).disk BY <1>4, <1>5
<1>9. \A u \in Updaters \ {t} : Impl(u).dir = d =>
        /\ pc[u] = "commit" => new.state = Dir(t).state
        /\ pc[u] = "published" /\ new.state = my[u].fd => new.disk = {my[u].fd}
  BY <1>5
<1>10. "published" \in Places BY DEF Places, Owning
<1>11. my' = my /\ new.state \in new.disk BY <1>1, <1>5
<1> QED BY <1>0, <1>1, <1>2, <1>5, <1>6, <1>7, <1>8, <1>9, <1>10, <1>11, SaveStep

\* RemoveTemp preserves the invariant.
LEMMA RemoveTempStep ==
  ASSUME DirectoryInv, NEW t \in Threads, RemoveTemp(t) PROVE DirectoryInv'
<1> DEFINE fd == my[t].fd
           new == [Dir(t) EXCEPT !.temps = Dir(t).temps \ {fd}, !.disk = {Dir(t).state}]
           d == Impl(t).dir
           loc == [my[t] EXCEPT !.fd = 0]
<1>0. /\ LockInv(t) /\ LoadInv(t) /\ my[t] \in LocalRecord /\ Len(files) \in Nat
      /\ my \in [Threads -> LocalRecord] /\ fd <= Len(files) /\ my[t].base <= Len(files)
      /\ (t \in Updaters \/ t \in Loaders)
  BY ThreadFacts
<1>1. /\ pc[t] = "cleanup" /\ Goto(t, "unlock") /\ my' = [my EXCEPT ![t] = loc]
      /\ UNCHANGED <<path, files, flock, handle, acked, orphans, faults>>
  BY DEF RemoveTemp
<1>2. DirBecomes(d, new)
  BY DEF RemoveTemp, DirBecomes, Dir, Held, Impl
<1>3. d \in DOMAIN dirs BY <1>1, InUse
<1>4. Dir(t) \in DirRecord /\ Dir(t).state \in Dir(t).disk BY <1>3, EntryFacts
<1>5. /\ new \in DirRecord /\ new.state = Dir(t).state /\ new.lock = Dir(t).lock
      /\ new.disk = {Dir(t).state} /\ new.temps = Dir(t).temps \ {fd}
  <2>1. {Dir(t).state} \in SUBSET Nat BY <1>4 DEF DirRecord
  <2> QED BY <1>4, <2>1 DEF DirRecord
<1>6. loc \in LocalRecord /\ loc.fd = 0 /\ loc.base = my[t].base /\ loc.lock = my[t].lock
  BY <1>0 DEF LocalRecord
<1> HIDE DEF new, loc
<1>7. my' \in [Threads -> LocalRecord] /\ my'[t] = loc /\ \A u \in Threads \ {t} : my'[u] = my[u]
  BY <1>0, <1>1, <1>6
<1>8. ThreadInv(t)'
  <2>1. pc'[t] = "unlock" /\ t \in Updaters
    BY <1>0, <1>1, ThreadFacts DEF Goto, LockInv
  <2>2. LockInv(t)' BY <1>0, <1>1, <1>6, <1>7, <2>1, StateDirectoryAssumption DEF LockInv, Owning, Impl
  <2> QED BY <2>1, <2>2 DEF ThreadInv, LoadInv, CommitInv
<1>9. \A i \in new.temps : i \in Dir(t).temps /\ ~(my[t].fd = i /\ pc[t] \in InSave)
  BY <1>5
<1>10. \A i \in new.disk : i \in Dir(t).disk BY <1>4, <1>5
<1>11. \A u \in Updaters \ {t} : Impl(u).dir = d =>
         /\ pc[u] = "commit" => new.state = Dir(t).state
         /\ pc[u] = "published" /\ new.state = my[u].fd => new.disk = {my[u].fd}
  BY <1>5
<1>12. "unlock" \in Places BY DEF Places, Owning
<1>13. new.state \in new.disk /\ my'[t].fd <= Len(files) /\ my'[t].base <= Len(files)
  BY <1>0, <1>5, <1>6, <1>7
<1> QED BY <1>0, <1>1, <1>2, <1>5, <1>7, <1>8, <1>9, <1>10, <1>11, <1>12, <1>13, SaveStep

\* WriteTemp preserves the invariant: the new state continues the one that was loaded.
LEMMA WriteTempStep ==
  ASSUME DirectoryInv, NEW t \in Threads, WriteTemp(t) PROVE DirectoryInv'
<1> DEFINE d == Impl(t).dir
           n == Len(files')
           new == [Dir(t) EXCEPT !.temps = Dir(t).temps \cup {n}]
           loc == [my[t] EXCEPT !.fd = n, !.base = Dir(t).state]
           file == [data |-> Append(my[t].data, t), synced |-> TRUE]
<1>0. /\ LockInv(t) /\ LoadInv(t) /\ my[t] \in LocalRecord /\ Impl(t) \in HandleRecord
      /\ my \in [Threads -> LocalRecord] /\ files \in Seq(FileRecord) /\ UseInv
      /\ (t \in Updaters \/ t \in Loaders)
      /\ Len(files) \in Nat /\ MaxFiles \in Nat
  BY ThreadFacts
<1>1. /\ pc[t] = "loaded" /\ Len(files) < MaxFiles
      /\ TrackAccepts(HandleOf[t], Dir(t).state) /\ handle' = Tracked(HandleOf[t], Dir(t).state)
      /\ files' = Append(files, file) /\ my' = [my EXCEPT ![t] = loc] /\ Goto(t, "synced")
      /\ UNCHANGED <<path, flock, acked, orphans, faults>>
  BY DEF WriteTemp
<1>2. DirBecomes(d, new) BY DEF WriteTemp, DirBecomes, Dir, Held, Impl
<1>3. d \in DOMAIN dirs BY <1>1, InUse
<1>4. /\ Dir(t) \in DirRecord /\ Dir(t).state \in Dir(t).disk /\ Dir(t).lock <= Len(flock)
      /\ Dir(t).state \in Nat /\ Dir(t).state <= Len(files)
      /\ \A i \in Dir(t).disk : i <= Len(files) /\ i \in Nat
  BY <1>1, <1>3, EntryFacts, StateBound
<1>5. t \in Updaters /\ Impl(t).active = t /\ t # None
  BY <1>0, <1>1, StateDirectoryAssumption DEF LockInv, Owning, Threads
<1>6. file \in FileRecord /\ file.data = Append(my[t].data, t)
  <2>1. my[t].data \in Seq(Updaters) BY <1>0 DEF LocalRecord
  <2>2. Append(my[t].data, t) \in Seq(Updaters) BY <1>5, <2>1
  <2> QED BY <2>2 DEF FileRecord
<1> HIDE DEF file
<1>7. /\ files' \in Seq(FileRecord) /\ n = Len(files) + 1 /\ files'[n] = file
      /\ \A i \in DOMAIN files : files'[i] = files[i]
  BY <1>0, <1>1, <1>6, GrowFacts
<1>8. n \in Nat /\ n # 0 /\ n <= MaxFiles /\ Len(files) <= n BY <1>0, <1>1, <1>7
<1>9. /\ new \in DirRecord /\ new.state = Dir(t).state /\ new.lock = Dir(t).lock
      /\ new.disk = Dir(t).disk /\ new.temps = Dir(t).temps \cup {n}
  <2> HIDE DEF n
  <2> QED BY <1>4, <1>8 DEF DirRecord
<1>10. loc \in LocalRecord /\ loc.fd = n /\ loc.base = Dir(t).state /\ loc.lock = my[t].lock
  <2> HIDE DEF n
  <2> QED BY <1>0, <1>4, <1>8 DEF LocalRecord
<1> HIDE DEF new, loc
<1>11. /\ handle' \in [Handles -> HandleRecord] /\ HandlesKept(t)
       /\ \A h \in Handles : handle'[h].refs = handle[h].refs
       /\ handle'[HandleOf[t]].active = t
  BY <1>1, <1>4, <1>5, TrackedFacts
<1>12. /\ pc' \in [Threads -> Places] /\ pc'[t] = "synced"
       /\ \A u \in Threads \ {t} : pc'[u] = pc[u]
  BY <1>1, GotoFacts DEF Places, Owning
<1>13. my' \in [Threads -> LocalRecord] /\ my'[t] = loc /\ OnlyMoves(t)
  BY <1>0, <1>1, <1>10, <1>12 DEF OnlyMoves
<1>14. flock' \in Seq(Updaters \cup {None}) /\ FlockKept(t) BY <1>1, FlockSame
<1>15. FilesKept BY <1>7, <1>8 DEF FilesKept
<1>16. FilesType'
  <2>1. dirs' \in Seq(DirRecord) /\ Len(dirs') = Len(dirs) BY <1>2, <1>3, <1>9, DirFacts
  <2> QED BY <1>1, <1>7, <1>8, <1>14, <2>1 DEF DirectoryInv, FilesType
<1>17. ThreadsType' BY <1>11, <1>12, <1>13 DEF ThreadsType
<1>18. Bounds'
  <2>1. \A i \in new.disk : i <= n BY <1>0, <1>4, <1>7, <1>9
  <2>2. loc.fd <= n /\ loc.base <= n BY <1>0, <1>4, <1>7, <1>8, <1>10
  <2>3. new.state \in new.disk /\ new.lock <= Len(flock') BY <1>1, <1>4, <1>9
  <2> QED BY <1>2, <1>3, <1>8, <1>9, <1>11, <1>13, <1>14, <2>1, <2>2, <2>3, BoundsKept
<1>19. UseInv' BY <1>0, <1>1, <1>11, <1>12, UsersSame DEF HandlesKept
<1>20. DurableInv'
  <2>1. Dir(t) = dirs[d] BY DEF Dir, Held, Impl
  <2> QED BY <1>1, <1>2, <1>3, <1>9, <1>15, <2>1, DurableKept
<1>21. TempInv'
  <2>1. \A i \in new.temps :
          \/ t \in Updaters /\ i = my'[t].fd /\ pc'[t] \in InSave
          \/ i \in Dir(t).temps /\ ~(my[t].fd = i /\ pc[t] \in InSave)
    BY <1>1, <1>5, <1>9, <1>10, <1>12, <1>13 DEF InSave
  <2> QED BY <1>1, <1>2, <1>3, <1>9, <1>11, <1>13, <2>1, TempsKept
<1>22. ThreadInv(t)'
  <2>1. my[t].data = Data(Dir(t).state)
    <3>1. Impl(t).tracked <= Len(files) /\ my[t].data = Data(Impl(t).tracked)
      BY <1>0, <1>1 DEF LoadInv
    <3>2. Impl(t).tracked \in {Untracked, Dir(t).state} BY <1>1, <1>5 DEF TrackAccepts, Impl
    <3>3. ~(Untracked <= Len(files)) BY <1>0, <1>1 DEF Untracked
    <3> QED BY <3>1, <3>2, <3>3
  <2>2. Data(Dir(t).state)' = Data(Dir(t).state)' OBVIOUS
  <2>3. Data(my[t].base)' = my[t].data
    <3> DEFINE i == Dir(t).state
    <3>1. i \in Nat /\ i <= Len(files) /\ my'[t].base = i /\ my[t].data = Data(i)
      BY <1>4, <1>10, <1>13, <2>1
    <3>2. i # 0 => i \in DOMAIN files BY <1>0, <3>1
    <3> HIDE DEF i
    <3> QED BY <1>7, <3>1, <3>2 DEF Data
  <2>4. my'[t].fd # 0 /\ files'[my'[t].fd].data = Append(my[t].data, t)
    BY <1>6, <1>7, <1>8, <1>10, <1>13
  <2>5. CommitInv(t)' BY <1>12, <2>3, <2>4 DEF CommitInv
  <2>6. LockInv(t)'
    BY <1>0, <1>1, <1>5, <1>10, <1>11, <1>12, <1>13, StateDirectoryAssumption
       DEF LockInv, Owning, Impl
  <2> QED BY <1>12, <2>5, <2>6 DEF ThreadInv, LoadInv
<1>23. CommitsKept(t)
  <2>1. /\ DOMAIN dirs' = DOMAIN dirs /\ dirs'[d] = new
        /\ \A e \in DOMAIN dirs : e # d => dirs'[e] = dirs[e]
    BY <1>2, <1>3, <1>9, DirFacts
  <2>2. dirs[d] = Dir(t) BY DEF Dir, Held, Impl
  <2>3. ASSUME NEW u \in Updaters, pc[u] \in {"commit", "published"}
        PROVE  /\ Impl(u).dir \in DOMAIN dirs /\ Dir(u) = dirs[Impl(u).dir] /\ CommitInv(u)
    BY <2>3, InUse, ThreadFacts DEF Threads
  <2>4. \A e \in DOMAIN dirs : /\ dirs'[e].lock = dirs[e].lock /\ dirs'[e].state = dirs[e].state
                               /\ dirs'[e].disk = dirs[e].disk
    BY <1>9, <2>1, <2>2
  <2> QED BY <2>1, <2>3, <2>4 DEF CommitsKept, CommitInv
<1> QED BY <1>11, <1>13, <1>14, <1>15, <1>16, <1>17, <1>18, <1>19, <1>20, <1>21, <1>22, <1>23,
           ThreadStep

\* Acknowledge preserves the invariant: what is acknowledged is durable.
LEMMA AcknowledgeStep ==
  ASSUME DirectoryInv, NEW t \in Threads, Acknowledge(t) PROVE DirectoryInv'
<1> DEFINE d == Impl(t).dir
           fd == my[t].fd
           data == files[fd].data
           new == [Impl(t) EXCEPT !.tracked = fd]
           loc == [my[t] EXCEPT !.data = data, !.fd = 0, !.base = 0]
<1>0. /\ LockInv(t) /\ CommitInv(t) /\ my[t] \in LocalRecord /\ Impl(t) \in HandleRecord
      /\ my \in [Threads -> LocalRecord] /\ files \in Seq(FileRecord) /\ UseInv
      /\ handle \in [Handles -> HandleRecord] /\ HandleOf[t] \in Handles
      /\ (t \in Updaters \/ t \in Loaders) /\ fd <= Len(files) /\ Len(files) \in Nat
  BY ThreadFacts
<1>1. /\ pc[t] = "published" /\ Dir(t).state = fd
      /\ handle' = Tracked(HandleOf[t], fd) /\ acked' = [acked EXCEPT ![d] = data]
      /\ my' = [my EXCEPT ![t] = loc]
      /\ UNCHANGED <<path, dirs, files, flock, orphans, faults>>
  BY DEF Acknowledge, StillPublished, fs
<1>2. PICK l \in {"loaded", "unlock"} : Goto(t, l) BY DEF Acknowledge
<1>3. t \in Updaters /\ Impl(t).active = t /\ t # None
  BY <1>0, <1>1, StateDirectoryAssumption DEF LockInv, Owning, Threads
<1>4. fd \in Nat /\ fd # 0 /\ fd \in DOMAIN files
  BY <1>0, <1>1 DEF CommitInv, LocalRecord
<1>5. data \in Seq(Updaters) /\ data = Data(fd)
  <2>1. files[fd] \in FileRecord BY <1>0, <1>4
  <2> QED BY <1>4, <2>1 DEF FileRecord, Data
<1>6. /\ new \in HandleRecord /\ new.dir = Impl(t).dir /\ new.mode = Impl(t).mode
      /\ new.refs = Impl(t).refs /\ new.active = t /\ new.tracked = fd
  BY <1>0, <1>3, <1>4 DEF HandleRecord
<1>7. handle' = [handle EXCEPT ![HandleOf[t]] = new] BY <1>1, <1>3 DEF Tracked, Impl
<1>8. loc \in LocalRecord /\ loc.fd = 0 /\ loc.base = 0 /\ loc.lock = my[t].lock /\ loc.data = data
  <2> HIDE DEF data
  <2> QED BY <1>0, <1>5 DEF LocalRecord
<1> HIDE DEF new, loc, data
<1>9. handle' \in [Handles -> HandleRecord] /\ HandlesKept(t) /\ handle'[HandleOf[t]] = new
  BY <1>3, <1>6, <1>7, HandleFacts
<1>10. \A h \in Handles : handle'[h].refs = handle[h].refs BY <1>0, <1>6, <1>7 DEF Impl
<1>11. pc' \in [Threads -> Places] /\ pc'[t] = l /\ \A u \in Threads \ {t} : pc'[u] = pc[u]
  BY <1>2, GotoFacts DEF Places, Owning
<1>12. my' \in [Threads -> LocalRecord] /\ my'[t] = loc /\ OnlyMoves(t)
  BY <1>0, <1>1, <1>8, <1>11 DEF OnlyMoves
<1>13. flock' \in Seq(Updaters \cup {None}) /\ FlockKept(t) BY <1>1, FlockSame
<1>14. d \in DOMAIN dirs /\ d \in 1..MaxDirs /\ Dir(t) = dirs[d] BY <1>1, InUse
<1>15. FilesType'
  <2>1. acked' \in [1..MaxDirs -> Seq(Updaters)]
    BY <1>1, <1>5, <1>14 DEF DirectoryInv, FilesType
  <2> QED BY <1>1, <2>1 DEF DirectoryInv, FilesType
<1>16. ThreadsType' BY <1>9, <1>11, <1>12 DEF ThreadsType
<1>17. Bounds'
  <2>1. \A e \in DOMAIN dirs : /\ dirs[e].state \in dirs[e].disk /\ dirs[e].lock <= Len(flock)
                               /\ \A i \in dirs[e].disk : i <= Len(files)
    BY DEF DirectoryInv, Bounds
  <2>2. \A u \in Threads : my'[u].fd <= Len(files) /\ my'[u].base <= Len(files)
    BY <1>0, <1>8, <1>12 DEF DirectoryInv, Bounds, OnlyMoves
  <2>3. \A h \in Handles : handle'[h].mode # "closed" => handle'[h].dir \in DOMAIN dirs
    BY <1>9 DEF DirectoryInv, Bounds, HandlesKept
  <2> QED BY <1>1, <2>1, <2>2, <2>3 DEF Bounds
<1>18. UseInv'
  <2>1. \A u \in Threads : pc'[u] = "idle" <=> pc[u] = "idle" BY <1>1, <1>11
  <2> QED BY <1>0, <1>9, <1>10, <2>1, UsersSame DEF HandlesKept
<1>19. DurableInv'
  <2>1. dirs[d].disk = {fd} BY <1>0, <1>1, <1>14 DEF CommitInv
  <2>2. IsPrefix(data, data) BY <1>5, PrefixSelf
  <2>3. acked'[d] = data /\ \A e \in 1..MaxDirs : e # d => acked'[e] = acked[e]
    BY <1>1, <1>14 DEF DirectoryInv, FilesType
  <2>4. \A i \in dirs[d].disk : IsPrefix(acked'[d], Data(i)) BY <1>5, <2>1, <2>2, <2>3
  <2>5. \A e \in 1..MaxDirs : e # d =>
          IF e \in DOMAIN dirs THEN \A i \in dirs[e].disk : IsPrefix(acked'[e], Data(i))
                               ELSE acked'[e] = <<>>
    BY <2>3 DEF DirectoryInv, DurableInv
  <2>6. \A i : Data(i)' = Data(i) BY <1>1 DEF Data
  <2> QED BY <1>1, <1>14, <2>4, <2>5, <2>6 DEF DurableInv
<1>20. TempInv'
  <2> SUFFICES ASSUME NEW e \in DOMAIN dirs, NEW i \in dirs[e].temps \ orphans
               PROVE  \E u \in Updaters :
                        my'[u].fd = i /\ pc'[u] \in InSave /\ handle'[HandleOf[u]].dir = e
    BY <1>1 DEF TempInv, Impl
  <2>1. PICK u \in Updaters : my[u].fd = i /\ pc[u] \in InSave /\ Impl(u).dir = e
    BY DEF DirectoryInv, TempInv
  <2>2. u # t /\ u \in Threads BY <1>1, <2>1 DEF InSave, Threads
  <2>3. HandleOf[u] \in Handles BY <2>2, InUse
  <2> QED BY <1>9, <1>12, <2>1, <2>2, <2>3 DEF HandlesKept, OnlyMoves, Impl
<1>21. ThreadInv(t)'
  <2>1. LockInv(t)'
    BY <1>0, <1>1, <1>2, <1>3, <1>6, <1>8, <1>9, <1>11, <1>12, StateDirectoryAssumption
       DEF LockInv, Owning, Impl
  <2>2. Data(Impl(t).tracked)' = data
    BY <1>1, <1>5, <1>6, <1>9 DEF Data, Impl
  <2>3. handle'[HandleOf[t]].tracked <= Len(files') BY <1>0, <1>1, <1>6, <1>9
  <2>4. LoadInv(t)' BY <1>2, <1>8, <1>11, <1>12, <2>2, <2>3 DEF LoadInv, Impl
  <2> QED BY <1>2, <1>11, <2>1, <2>4 DEF ThreadInv, CommitInv
<1>22. FilesKept /\ CommitsKept(t)
  <2>1. ASSUME NEW u \in Updaters, pc[u] = "published", dirs[Impl(u).dir].state = my[u].fd
        PROVE  dirs[Impl(u).dir].disk = {my[u].fd}
    BY <2>1 DEF DirectoryInv, ThreadInv, CommitInv, Dir, Held, Impl, Threads
  <2> QED BY <1>0, <1>1, <2>1 DEF FilesKept, CommitsKept
<1> QED BY <1>9, <1>12, <1>13, <1>15, <1>16, <1>17, <1>18, <1>19, <1>20, <1>21, <1>22, ThreadStep

-----------------------------------------------------------------------------
(***************************************************************************)
(* Handles that are opened and closed, and the world around the processes. *)
(***************************************************************************)

\* A goroutine that is left alone in its directory.
LEMMA ThreadKept ==
  ASSUME DirectoryInv, NEW t \in Threads, UNCHANGED files, pc'[t] = pc[t], my'[t] = my[t],
         DOMAIN flock \subseteq DOMAIN flock',
         \A l \in DOMAIN flock : flock[l] = t => flock'[l] = t,
         pc[t] # "idle" =>
           /\ handle'[HandleOf[t]].dir = Impl(t).dir
           /\ handle'[HandleOf[t]].active = Impl(t).active
           /\ handle'[HandleOf[t]].tracked = Impl(t).tracked
           /\ dirs'[Impl(t).dir].state = Dir(t).state
           /\ dirs'[Impl(t).dir].disk = Dir(t).disk
           /\ pc[t] = "commit" => dirs'[Impl(t).dir].lock = Dir(t).lock
  PROVE  ThreadInv(t)'
<1>1. LockInv(t) /\ LoadInv(t) /\ CommitInv(t) BY ThreadFacts
<1>2. LockInv(t)' BY <1>1 DEF LockInv, Owning, Impl
<1>3. \A i : Data(i)' = Data(i) BY DEF Data
<1>4. LoadInv(t)'
  <2>1. (pc[t] = "idle" => my[t] = Blank) /\ (pc[t] = "tracked" => my[t].fd # 0)
        /\ (t \in Updaters /\ pc[t] \in {"waiting", "checking", "reading", "opened", "tracked"} =>
              my[t].data = <<>>)
    BY <1>1 DEF LoadInv
  <2>2. t \in Updaters /\ pc[t] = "tracked" => handle'[HandleOf[t]].tracked = my[t].fd
    BY <1>1 DEF LoadInv
  <2>3. pc[t] = "loaded" => /\ handle'[HandleOf[t]].tracked <= Len(files)
                            /\ my[t].data = Data(handle'[HandleOf[t]].tracked)
    BY <1>1 DEF LoadInv
  <2>4. pc[t] = "loaded" => my[t].data = Data(Impl(t).tracked)'
    BY <2>3 DEF Data, Impl
  <2> QED BY <2>1, <2>2, <2>3, <2>4 DEF LoadInv, Impl
<1>5. CommitInv(t)'
  <2>1. pc[t] \in {"synced", "commit", "renamed", "published"} =>
          my[t].fd # 0 /\ files[my[t].fd].data = Append(Data(my[t].base), t)
    BY <1>1 DEF CommitInv
  <2>2. Data(my[t].base)' = Data(my[t].base) BY <1>3
  <2>3. pc[t] \in {"synced", "commit", "renamed", "published"} =>
          my'[t].fd # 0 /\ files'[my'[t].fd].data = Append(Data(my[t].base)', t)
    BY <2>1, <2>2
  <2>4. pc[t] # "idle" => /\ Dir(t)'.state = Dir(t).state /\ Dir(t)'.disk = Dir(t).disk
                          /\ pc[t] = "commit" => Dir(t)'.lock = Dir(t).lock
    BY DEF Dir, Held, Impl
  <2> QED BY <1>1, <2>3, <2>4 DEF CommitInv
<1> QED BY <1>2, <1>4, <1>5 DEF ThreadInv

\* Types of the constant records.
LEMMA ConstantRecords ==
  /\ EmptyDir \in DirRecord /\ Blank \in LocalRecord /\ Closed \in HandleRecord
  /\ \A d \in Nat : Pinned(d) \in HandleRecord
<1>1. <<>> \in Seq(Updaters) OBVIOUS
<1>2. Untracked \in Nat BY StateDirectoryAssumption DEF Untracked
<1>3. EmptyDir \in DirRecord BY DEF EmptyDir, DirRecord
<1>4. Blank \in LocalRecord BY <1>1 DEF Blank, LocalRecord
<1>5. Closed \in HandleRecord BY <1>2 DEF Closed, HandleRecord
<1>6. ASSUME NEW d \in Nat PROVE Pinned(d) \in HandleRecord
  <2>1. 1 \in Int OBVIOUS
  <2> QED BY <1>5, <2>1 DEF Pinned, HandleRecord
<1> QED BY <1>3, <1>4, <1>5, <1>6

\* A step of the world that leaves every operation its handle and its directory,
\* but may remove a lock file that no rename relies on, and may add directories.
LEMMA WorldStep ==
  ASSUME DirectoryInv, UNCHANGED <<files, flock, pc, my, acked, orphans>>,
         FilesType', handle' \in [Handles -> HandleRecord], UseInv',
         faults' = faults \/ faults' = faults + 1,
         \A t \in Threads : pc[t] # "idle" =>
           /\ handle'[HandleOf[t]].dir = Impl(t).dir
           /\ handle'[HandleOf[t]].active = Impl(t).active
           /\ handle'[HandleOf[t]].tracked = Impl(t).tracked,
         \A h \in Handles : handle'[h].mode # "closed" => handle'[h].dir \in DOMAIN dirs',
         \A d \in DOMAIN dirs :
           /\ d \in DOMAIN dirs' /\ dirs'[d].state = dirs[d].state /\ dirs'[d].disk = dirs[d].disk
           /\ dirs'[d].temps = dirs[d].temps
           /\ \/ dirs'[d].lock = dirs[d].lock
              \/ dirs'[d].lock = 0 /\ \A t \in Updaters : pc[t] = "commit" => Impl(t).dir # d,
         \A d \in DOMAIN dirs' : d \in DOMAIN dirs \/ dirs'[d] = EmptyDir
  PROVE  DirectoryInv'
<1>1. ThreadsType' BY DEF DirectoryInv, ThreadsType
<1>2. Bounds'
  <2>1. Len(flock) \in Nat /\ Len(files) \in Nat BY LenProperties DEF DirectoryInv, FilesType
  <2>2. ASSUME NEW d \in DOMAIN dirs'
        PROVE  /\ dirs'[d].state \in dirs'[d].disk /\ dirs'[d].lock <= Len(flock)
               /\ \A i \in dirs'[d].disk : i <= Len(files)
    <3>1. CASE d \in DOMAIN dirs BY <2>1, <3>1 DEF DirectoryInv, Bounds
    <3>2. CASE dirs'[d] = EmptyDir BY <2>1, <3>2 DEF EmptyDir
    <3> QED BY <3>1, <3>2
  <2>3. \A t \in Threads : my[t].fd <= Len(files) /\ my[t].base <= Len(files)
    BY DEF DirectoryInv, Bounds
  <2> QED BY <2>2, <2>3 DEF Bounds
<1>3. DurableInv'
  <2>1. \A i : Data(i)' = Data(i) BY DEF Data
  <2>2. ASSUME NEW d \in 1..MaxDirs, d \in DOMAIN dirs', NEW i \in dirs'[d].disk
        PROVE  IsPrefix(acked[d], Data(i))
    <3>1. CASE d \in DOMAIN dirs BY <2>2, <3>1 DEF DirectoryInv, DurableInv
    <3>2. CASE d \notin DOMAIN dirs
      <4>1. acked[d] = <<>> BY <3>2 DEF DirectoryInv, DurableInv
      <4>2. Data(i) = <<>> BY <2>2, <3>2 DEF EmptyDir, Data
      <4>3. <<>> \in Seq(Updaters) OBVIOUS
      <4> QED BY <4>1, <4>2, <4>3, PrefixSelf
    <3> QED BY <3>1, <3>2
  <2>3. \A d \in 1..MaxDirs : d \notin DOMAIN dirs' => acked[d] = <<>>
    BY DEF DirectoryInv, DurableInv
  <2> QED BY <2>1, <2>2, <2>3 DEF DurableInv
<1>4. TempInv'
  <2> SUFFICES ASSUME NEW d \in DOMAIN dirs', NEW i \in dirs'[d].temps \ orphans
               PROVE  \E u \in Updaters :
                        my[u].fd = i /\ pc[u] \in InSave /\ handle'[HandleOf[u]].dir = d
    BY DEF TempInv, Impl
  <2>2. d \in DOMAIN dirs /\ i \in dirs[d].temps \ orphans BY DEF EmptyDir
  <2>3. PICK u \in Updaters : my[u].fd = i /\ pc[u] \in InSave /\ Impl(u).dir = d
    BY <2>2 DEF DirectoryInv, TempInv
  <2> QED BY <2>3 DEF InSave, Threads
<1>5. ASSUME NEW t \in Threads PROVE ThreadInv(t)'
  <2>1. pc[t] # "idle" => Impl(t).dir \in DOMAIN dirs /\ Dir(t) = dirs[Impl(t).dir] BY InUse
  <2>2. pc[t] = "commit" => t \in Updaters
    <3>1. LockInv(t) /\ (t \in Updaters \/ t \in Loaders) BY ThreadFacts
    <3> QED BY <3>1 DEF LockInv
  <2> QED BY <2>1, <2>2, ThreadKept
<1> QED BY <1>1, <1>2, <1>3, <1>4, <1>5 DEF DirectoryInv

\* A directory is created: its entry is empty, the others stay.
LEMMA NewDirectory ==
  ASSUME DirectoryInv, Len(dirs) < MaxDirs, dirs' = Append(dirs, EmptyDir),
         UNCHANGED <<files, flock, acked>>, path' \in Nat, path' <= Len(dirs'), faults' \in Nat
  PROVE  /\ FilesType' /\ Len(dirs') = Len(dirs) + 1 /\ Len(dirs') \in DOMAIN dirs'
         /\ \A d \in DOMAIN dirs : d \in DOMAIN dirs' /\ dirs'[d] = dirs[d]
         /\ \A d \in DOMAIN dirs' : d \in DOMAIN dirs \/ dirs'[d] = EmptyDir
<1>1. dirs \in Seq(DirRecord) /\ EmptyDir \in DirRecord
  BY ConstantRecords DEF DirectoryInv, FilesType
<1>2. /\ dirs' \in Seq(DirRecord) /\ Len(dirs') = Len(dirs) + 1 /\ Len(dirs) \in Nat
      /\ dirs'[Len(dirs) + 1] = EmptyDir
      /\ \A d \in DOMAIN dirs : d \in DOMAIN dirs' /\ dirs'[d] = dirs[d]
      /\ \A d \in DOMAIN dirs' : d \in DOMAIN dirs \/ d = Len(dirs) + 1
  BY <1>1, GrowFacts
<1>3. MaxDirs \in Nat BY StateDirectoryAssumption
<1>4. FilesType' BY <1>2, <1>3 DEF DirectoryInv, FilesType
<1>5. Len(dirs') \in DOMAIN dirs' BY <1>2
<1> QED BY <1>2, <1>4, <1>5

\* Nobody uses a closed handle.
LEMMA ClosedUnused ==
  ASSUME DirectoryInv, NEW h \in Handles,
         handle[h].mode = "closed" \/ (handle[h].mode = "closing" /\ handle[h].refs = 0)
  PROVE  /\ \A t \in Threads : HandleOf[t] = h => pc[t] = "idle"
         /\ Cardinality(UsersOf(h)) = 0
<1>1. Cardinality(UsersOf(h)) \in Nat
      /\ (Cardinality(UsersOf(h)) = 0 <=> \A t \in Threads : HandleOf[t] = h => pc[t] = "idle")
  BY UsersCount
<1>2. handle[h].refs = Cardinality(UsersOf(h)) + (IF handle[h].mode = "open" THEN 1 ELSE 0)
      /\ handle[h].refs = 0
  BY DEF DirectoryInv, UseInv, CloseIsExact, UsersOf
<1>3. Cardinality(UsersOf(h)) = 0 BY <1>1, <1>2
<1> QED BY <1>1, <1>3

\* One handle is opened or closed; its references are still those of its users.
LEMMA HandleChanges ==
  ASSUME DirectoryInv, NEW h \in Handles, NEW new \in HandleRecord, UNCHANGED pc,
         handle' = [handle EXCEPT ![h] = new],
         new.refs = Cardinality(UsersOf(h)) + (IF new.mode = "open" THEN 1 ELSE 0),
         new.mode = "closed" => new.refs = 0
  PROVE  /\ handle' \in [Handles -> HandleRecord] /\ UseInv' /\ handle'[h] = new
         /\ \A g \in Handles \ {h} : handle'[g] = handle[g]
<1>1. handle \in [Handles -> HandleRecord] BY DEF DirectoryInv, ThreadsType
<1>2. /\ handle' \in [Handles -> HandleRecord] /\ handle'[h] = new
      /\ \A g \in Handles \ {h} : handle'[g] = handle[g]
  BY <1>1
<1>3. \A g \in Handles : UsersOf(g)' = UsersOf(g) BY DEF UsersOf
<1>4. \A g \in Handles : handle[g].refs = Cardinality(UsersOf(g)) + (IF handle[g].mode = "open" THEN 1 ELSE 0)
  BY DEF DirectoryInv, UseInv, CloseIsExact, UsersOf
<1>5. \A g \in Handles : handle'[g].refs = Cardinality(UsersOf(g)') + (IF handle'[g].mode = "open" THEN 1 ELSE 0)
  BY <1>2, <1>3, <1>4
<1>6. CloseIsExact' BY <1>5 DEF CloseIsExact, UsersOf
<1> QED BY <1>2, <1>6 DEF DirectoryInv, UseInv

\* Open preserves the invariant.
LEMMA OpenStep ==
  ASSUME DirectoryInv, NEW h \in Handles, Open(h) PROVE DirectoryInv'
<1> DEFINE new == Pinned(path')
<1>1. /\ handle[h].mode = "closed" /\ handle' = [handle EXCEPT ![h] = new]
      /\ UNCHANGED <<files, flock, pc, my, acked, orphans, faults>>
  BY DEF Open, OpenExisting, OpenMissing
<1>2. path \in Nat /\ path <= Len(dirs) /\ Len(dirs) \in Nat /\ faults \in Nat
  BY LenProperties DEF DirectoryInv, FilesType
<1>3. /\ FilesType' /\ path' \in DOMAIN dirs' /\ path' \in Nat
      /\ \A d \in DOMAIN dirs : d \in DOMAIN dirs' /\ dirs'[d] = dirs[d]
      /\ \A d \in DOMAIN dirs' : d \in DOMAIN dirs \/ dirs'[d] = EmptyDir
  <2>1. CASE path # 0 /\ UNCHANGED <<path, dirs>>
    <3>1. dirs \in Seq(DirRecord) BY DEF DirectoryInv, FilesType
    <3>2. path \in DOMAIN dirs BY <1>2, <2>1, <3>1
    <3> QED BY <1>1, <1>2, <2>1, <3>2 DEF DirectoryInv, FilesType
  <2>2. CASE Len(dirs) < MaxDirs /\ dirs' = Append(dirs, EmptyDir) /\ path' = Len(dirs')
    <3>1. Len(dirs') = Len(dirs) + 1 BY <2>2 DEF DirectoryInv, FilesType
    <3>2. path' \in Nat /\ path' <= Len(dirs') /\ faults' \in Nat BY <1>1, <1>2, <2>2, <3>1
    <3> QED BY <1>1, <2>2, <3>2, NewDirectory
  <2> QED BY <2>1, <2>2 DEF Open, OpenExisting, OpenMissing
<1>4. new \in HandleRecord /\ new.refs = 1 /\ new.mode = "open" /\ new.dir = path'
  BY <1>3, ConstantRecords DEF Pinned, Closed
<1>5. (\A t \in Threads : HandleOf[t] = h => pc[t] = "idle") /\ Cardinality(UsersOf(h)) = 0
  BY <1>1, ClosedUnused
<1> HIDE DEF new
<1>6. /\ handle' \in [Handles -> HandleRecord] /\ UseInv' /\ handle'[h] = new
      /\ \A g \in Handles \ {h} : handle'[g] = handle[g]
  <2>1. new.refs = Cardinality(UsersOf(h)) + (IF new.mode = "open" THEN 1 ELSE 0) BY <1>4, <1>5
  <2> QED BY <1>1, <1>4, <2>1, HandleChanges
<1>7. ASSUME NEW t \in Threads, pc[t] # "idle" PROVE handle'[HandleOf[t]] = Impl(t)
  <2>1. HandleOf[t] \in Handles /\ HandleOf[t] # h BY <1>5, <1>7, StateDirectoryAssumption
  <2> QED BY <1>6, <2>1 DEF Impl
<1>8. \A g \in Handles : handle'[g].mode # "closed" => handle'[g].dir \in DOMAIN dirs'
  BY <1>3, <1>4, <1>6 DEF DirectoryInv, Bounds
<1> QED BY <1>1, <1>3, <1>6, <1>7, <1>8, WorldStep

\* CloseBegins preserves the invariant: the owner's reference is dropped.
LEMMA CloseBeginsStep ==
  ASSUME DirectoryInv, NEW h \in Handles, CloseBegins(h) PROVE DirectoryInv'
<1> DEFINE old == handle[h]
           new == [old EXCEPT !.mode = "closing", !.refs = old.refs - 1]
<1>1. /\ handle[h].mode = "open" /\ handle' = [handle EXCEPT ![h] = new]
      /\ UNCHANGED <<path, dirs, files, flock, pc, my, acked, orphans, faults>>
  BY DEF CloseBegins, fs
<1>2. old \in HandleRecord BY DEF DirectoryInv, ThreadsType
<1>3. /\ new \in HandleRecord /\ new.mode = "closing" /\ new.refs = old.refs - 1
      /\ new.dir = old.dir /\ new.active = old.active /\ new.tracked = old.tracked
  <2> DEFINE r == old.refs - 1
  <2>1. r \in Int BY <1>2 DEF HandleRecord
  <2> HIDE DEF old, r
  <2>2. new = [old EXCEPT !.mode = "closing", !.refs = r] BY DEF r
  <2> HIDE DEF new
  <2>3. /\ new \in HandleRecord /\ new.mode = "closing" /\ new.refs = r
        /\ new.dir = old.dir /\ new.active = old.active /\ new.tracked = old.tracked
    BY <1>2, <2>1, <2>2 DEF HandleRecord
  <2> QED BY <2>3 DEF r
<1> HIDE DEF new
<1>4. Cardinality(UsersOf(h)) \in Nat BY UsersCount
<1>5. handle[h].refs = Cardinality(UsersOf(h)) + 1
  BY <1>1 DEF DirectoryInv, UseInv, CloseIsExact, UsersOf
<1>6. new.refs = Cardinality(UsersOf(h)) BY <1>3, <1>4, <1>5
<1>7. /\ handle' \in [Handles -> HandleRecord] /\ UseInv' /\ handle'[h] = new
      /\ \A g \in Handles \ {h} : handle'[g] = handle[g]
  <2>1. new.refs = Cardinality(UsersOf(h)) + (IF new.mode = "open" THEN 1 ELSE 0)
    BY <1>3, <1>4, <1>6
  <2> QED BY <1>1, <1>3, <2>1, HandleChanges
<1>8. ASSUME NEW t \in Threads
      PROVE  /\ handle'[HandleOf[t]].dir = Impl(t).dir
             /\ handle'[HandleOf[t]].active = Impl(t).active
             /\ handle'[HandleOf[t]].tracked = Impl(t).tracked
  <2>1. HandleOf[t] \in Handles BY StateDirectoryAssumption
  <2> QED BY <1>3, <1>7, <2>1 DEF Impl
<1>9. \A g \in Handles : handle'[g].mode # "closed" => handle'[g].dir \in DOMAIN dirs'
  BY <1>1, <1>3, <1>7 DEF DirectoryInv, Bounds
<1>10. FilesType' BY <1>1 DEF DirectoryInv, FilesType
<1> QED BY <1>1, <1>7, <1>8, <1>9, <1>10, WorldStep

\* CloseEnds preserves the invariant: nobody uses the handle any more.
LEMMA CloseEndsStep ==
  ASSUME DirectoryInv, NEW h \in Handles, CloseEnds(h) PROVE DirectoryInv'
<1>1. /\ handle[h].mode = "closing" /\ handle[h].refs = 0 /\ handle' = [handle EXCEPT ![h] = Closed]
      /\ UNCHANGED <<path, dirs, files, flock, pc, my, acked, orphans, faults>>
  BY DEF CloseEnds, fs
<1>2. (\A t \in Threads : HandleOf[t] = h => pc[t] = "idle") /\ Cardinality(UsersOf(h)) = 0
  BY <1>1, ClosedUnused
<1>3. Closed \in HandleRecord /\ Closed.refs = 0 /\ Closed.mode = "closed"
  BY ConstantRecords DEF Closed
<1>4. /\ handle' \in [Handles -> HandleRecord] /\ UseInv' /\ handle'[h] = Closed
      /\ \A g \in Handles \ {h} : handle'[g] = handle[g]
  <2>1. Closed.refs = Cardinality(UsersOf(h)) + (IF Closed.mode = "open" THEN 1 ELSE 0)
    BY <1>2, <1>3
  <2> QED BY <1>1, <1>3, <2>1, HandleChanges
<1>5. ASSUME NEW t \in Threads, pc[t] # "idle" PROVE handle'[HandleOf[t]] = Impl(t)
  <2>1. HandleOf[t] \in Handles /\ HandleOf[t] # h BY <1>2, <1>5, StateDirectoryAssumption
  <2> QED BY <1>4, <2>1 DEF Impl
<1>6. \A g \in Handles : handle'[g].mode # "closed" => handle'[g].dir \in DOMAIN dirs'
  BY <1>1, <1>3, <1>4 DEF DirectoryInv, Bounds
<1>7. FilesType' BY <1>1 DEF DirectoryInv, FilesType
<1> QED BY <1>1, <1>4, <1>5, <1>6, <1>7, WorldStep

\* A step of the world that touches no handle.
LEMMA HandlesUntouched ==
  ASSUME DirectoryInv, UNCHANGED <<handle, pc>>
  PROVE  /\ handle' \in [Handles -> HandleRecord] /\ UseInv'
         /\ \A t \in Threads : /\ handle'[HandleOf[t]].dir = Impl(t).dir
                               /\ handle'[HandleOf[t]].active = Impl(t).active
                               /\ handle'[HandleOf[t]].tracked = Impl(t).tracked
         /\ \A h \in Handles : handle'[h].mode # "closed" => handle'[h].dir \in DOMAIN dirs
BY DEF DirectoryInv, ThreadsType, Bounds, UseInv, CloseIsExact, Impl

\* ReplaceDirectory preserves the invariant.
LEMMA ReplaceDirectoryStep == ASSUME DirectoryInv, ReplaceDirectory PROVE DirectoryInv'
<1>1. faults' = faults + 1 /\ UNCHANGED <<files, flock, handle, pc, my, acked, orphans>>
  BY DEF ReplaceDirectory, Fault
<1>2. path \in Nat /\ Len(dirs) \in Nat /\ faults \in Nat
  BY LenProperties DEF DirectoryInv, FilesType
<1>3. /\ FilesType' /\ \A d \in DOMAIN dirs : d \in DOMAIN dirs' /\ dirs'[d] = dirs[d]
      /\ \A d \in DOMAIN dirs' : d \in DOMAIN dirs \/ dirs'[d] = EmptyDir
  <2>1. CASE path' = 0 /\ UNCHANGED dirs
    BY <1>1, <1>2, <2>1 DEF DirectoryInv, FilesType
  <2>2. CASE Len(dirs) < MaxDirs /\ dirs' = Append(dirs, EmptyDir) /\ path' = Len(dirs')
    <3>1. Len(dirs') = Len(dirs) + 1 BY <2>2 DEF DirectoryInv, FilesType
    <3>2. path' \in Nat /\ path' <= Len(dirs') /\ faults' \in Nat BY <1>1, <1>2, <2>2, <3>1
    <3> QED BY <1>1, <2>2, <3>2, NewDirectory
  <2> QED BY <2>1, <2>2 DEF ReplaceDirectory
<1>4. /\ handle' \in [Handles -> HandleRecord] /\ UseInv'
      /\ \A t \in Threads : /\ handle'[HandleOf[t]].dir = Impl(t).dir
                            /\ handle'[HandleOf[t]].active = Impl(t).active
                            /\ handle'[HandleOf[t]].tracked = Impl(t).tracked
      /\ \A h \in Handles : handle'[h].mode # "closed" => handle'[h].dir \in DOMAIN dirs
  BY <1>1, HandlesUntouched
<1>5. \A h \in Handles : handle'[h].mode # "closed" => handle'[h].dir \in DOMAIN dirs'
  BY <1>3, <1>4
<1> QED BY <1>1, <1>3, <1>4, <1>5, WorldStep

\* RestoreDirectory preserves the invariant.
LEMMA RestoreDirectoryStep == ASSUME DirectoryInv, RestoreDirectory PROVE DirectoryInv'
<1>1. path' \in DOMAIN dirs /\ UNCHANGED <<dirs, files, flock, handle, pc, my, acked, orphans, faults>>
  BY DEF RestoreDirectory
<1>2. FilesType'
  <2>1. dirs \in Seq(DirRecord) BY DEF DirectoryInv, FilesType
  <2>2. path' \in Nat /\ path' <= Len(dirs) BY <1>1, <2>1
  <2> QED BY <1>1, <2>2 DEF DirectoryInv, FilesType
<1>3. /\ handle' \in [Handles -> HandleRecord] /\ UseInv'
      /\ \A t \in Threads : /\ handle'[HandleOf[t]].dir = Impl(t).dir
                            /\ handle'[HandleOf[t]].active = Impl(t).active
                            /\ handle'[HandleOf[t]].tracked = Impl(t).tracked
      /\ \A h \in Handles : handle'[h].mode # "closed" => handle'[h].dir \in DOMAIN dirs
  BY <1>1, HandlesUntouched
<1> QED BY <1>1, <1>2, <1>3, WorldStep

\* RemoveLockFile preserves the invariant: no rename relies on that lock.
LEMMA RemoveLockFileStep ==
  ASSUME DirectoryInv, NEW d \in DOMAIN dirs, RemoveLockFile(d) PROVE DirectoryInv'
<1> DEFINE new == [dirs[d] EXCEPT !.lock = 0]
<1>1. /\ faults' = faults + 1 /\ DirBecomes(d, new)
      /\ \A t \in Updaters : pc[t] = "commit" => Impl(t).dir # d
      /\ UNCHANGED <<path, files, flock, handle, pc, my, acked, orphans>>
  BY DEF RemoveLockFile, Fault, DirBecomes
<1>2. dirs \in Seq(DirRecord) /\ faults \in Nat BY DEF DirectoryInv, FilesType
<1>3. /\ new \in DirRecord /\ new.lock = 0 /\ new.state = dirs[d].state
      /\ new.disk = dirs[d].disk /\ new.temps = dirs[d].temps
  <2>1. dirs[d] \in DirRecord BY <1>2
  <2> QED BY <2>1 DEF DirRecord
<1> HIDE DEF new
<1>4. /\ dirs' \in Seq(DirRecord) /\ Len(dirs') = Len(dirs) /\ DOMAIN dirs' = DOMAIN dirs
      /\ dirs'[d] = new /\ \A e \in DOMAIN dirs : e # d => dirs'[e] = dirs[e]
  BY <1>1, <1>3, DirFacts
<1>5. FilesType' BY <1>1, <1>2, <1>4 DEF DirectoryInv, FilesType
<1>6. /\ handle' \in [Handles -> HandleRecord] /\ UseInv'
      /\ \A t \in Threads : /\ handle'[HandleOf[t]].dir = Impl(t).dir
                            /\ handle'[HandleOf[t]].active = Impl(t).active
                            /\ handle'[HandleOf[t]].tracked = Impl(t).tracked
      /\ \A h \in Handles : handle'[h].mode # "closed" => handle'[h].dir \in DOMAIN dirs
  BY <1>1, HandlesUntouched
<1>7. \A e \in DOMAIN dirs :
        /\ dirs'[e].state = dirs[e].state /\ dirs'[e].disk = dirs[e].disk
        /\ dirs'[e].temps = dirs[e].temps
        /\ \/ dirs'[e].lock = dirs[e].lock
           \/ dirs'[e].lock = 0 /\ \A t \in Updaters : pc[t] = "commit" => Impl(t).dir # e
  BY <1>1, <1>3, <1>4
<1> QED BY <1>1, <1>4, <1>5, <1>6, <1>7, WorldStep

\* Processes die: their goroutines are back at the start, their locks are dropped.
LEMMA DieFacts ==
  ASSUME DirectoryInv, NEW hs \in SUBSET Handles, Die(hs)
  PROVE  /\ ThreadsType' /\ UseInv'
         /\ flock' \in Seq(Updaters \cup {None}) /\ Len(flock') = Len(flock)
         /\ DOMAIN flock' = DOMAIN flock
         /\ \A t \in Threads : HandleOf[t] \in hs => pc'[t] = "idle" /\ my'[t] = Blank
         /\ \A t \in Threads : HandleOf[t] \notin hs =>
              /\ pc'[t] = pc[t] /\ my'[t] = my[t] /\ handle'[HandleOf[t]] = Impl(t)
              /\ \A l \in DOMAIN flock : flock[l] = t => flock'[l] = t
         /\ \A h \in Handles : handle'[h].mode # "closed" => handle'[h] = handle[h]
<1>1. /\ handle \in [Handles -> HandleRecord] /\ pc \in [Threads -> Places]
      /\ my \in [Threads -> LocalRecord] /\ flock \in Seq(Updaters \cup {None})
      /\ Closed \in HandleRecord /\ Blank \in LocalRecord
  BY ConstantRecords DEF DirectoryInv, ThreadsType, FilesType
<1>2. /\ \A h \in Handles : handle'[h] = IF h \in hs THEN Closed ELSE handle[h]
      /\ \A t \in Threads : pc'[t] = IF HandleOf[t] \in hs THEN "idle" ELSE pc[t]
      /\ \A t \in Threads : my'[t] = IF HandleOf[t] \in hs THEN Blank ELSE my[t]
      /\ \A l \in DOMAIN flock :
           flock'[l] = IF flock[l] # None /\ HandleOf[flock[l]] \in hs THEN None ELSE flock[l]
  BY DEF Die
<1>3. ThreadsType'
  <2>1. handle' \in [Handles -> HandleRecord] BY <1>1 DEF Die
  <2>2. pc' \in [Threads -> Places] BY <1>1 DEF Die, Places
  <2>3. my' \in [Threads -> LocalRecord] BY <1>1 DEF Die
  <2> QED BY <2>1, <2>2, <2>3 DEF ThreadsType
<1>4. flock' \in Seq(Updaters \cup {None}) /\ Len(flock') = Len(flock) /\ DOMAIN flock' = DOMAIN flock
  <2>1. flock' = [l \in 1..Len(flock) |->
                    IF flock[l] # None /\ HandleOf[flock[l]] \in hs THEN None ELSE flock[l]]
    BY <1>1 DEF Die
  <2>2. \A l \in 1..Len(flock) : flock[l] \in Updaters \cup {None} BY <1>1
  <2>3. flock' \in [1..Len(flock) -> Updaters \cup {None}] BY <2>1, <2>2
  <2>4. Len(flock) \in Nat BY <1>1, LenProperties
  <2> QED BY <1>1, <2>3, <2>4
<1>5. \A h \in Handles : handle'[h].mode # "closed" => handle'[h] = handle[h]
  BY <1>2 DEF Closed
<1>6. UseInv'
  <2>1. ASSUME NEW h \in Handles
        PROVE  handle'[h].refs = Cardinality(UsersOf(h)') + (IF handle'[h].mode = "open" THEN 1 ELSE 0)
    <3>1. CASE h \in hs
      <4>1. UsersOf(h)' = {} BY <1>2, <3>1 DEF UsersOf
      <4>2. Cardinality(UsersOf(h)') = 0 BY <4>1, FS_EmptySet
      <4>3. handle'[h] = Closed BY <1>2, <3>1
      <4>4. Closed.refs = 0 /\ Closed.mode = "closed" BY DEF Closed
      <4> QED BY <4>2, <4>3, <4>4
    <3>2. CASE h \notin hs
      <4>1. UsersOf(h)' = UsersOf(h) BY <1>2, <3>2 DEF UsersOf
      <4>2. handle'[h] = handle[h] BY <1>2, <3>2
      <4>3. handle[h].refs = Cardinality(UsersOf(h)) + (IF handle[h].mode = "open" THEN 1 ELSE 0)
        BY DEF DirectoryInv, UseInv, CloseIsExact, UsersOf
      <4> QED BY <4>1, <4>2, <4>3
    <3> QED BY <3>1, <3>2
  <2>2. CloseIsExact' BY <2>1 DEF CloseIsExact, UsersOf
  <2>3. \A h \in Handles : handle'[h].mode = "closed" => handle'[h].refs = 0
    BY <1>2 DEF DirectoryInv, UseInv, Closed
  <2> QED BY <2>2, <2>3 DEF UseInv
<1>7. ASSUME NEW t \in Threads, HandleOf[t] \notin hs
      PROVE  /\ pc'[t] = pc[t] /\ my'[t] = my[t] /\ handle'[HandleOf[t]] = Impl(t)
             /\ \A l \in DOMAIN flock : flock[l] = t => flock'[l] = t
  <2>1. HandleOf[t] \in Handles BY StateDirectoryAssumption
  <2> QED BY <1>2, <1>7, <2>1 DEF Impl
<1> QED BY <1>2, <1>3, <1>4, <1>5, <1>6, <1>7

\* A goroutine that is gone has nothing to keep.
LEMMA DeadThread ==
  ASSUME NEW t \in Threads, pc'[t] = "idle", my'[t] = Blank PROVE ThreadInv(t)'
BY DEF ThreadInv, LockInv, LoadInv, CommitInv, Owning

\* What a dead save left behind is an orphan; the other temp files keep their save.
LEMMA TempsAfterDeath ==
  ASSUME DirectoryInv, NEW hs \in SUBSET Handles, Die(hs), DOMAIN dirs' = DOMAIN dirs,
         \A d \in DOMAIN dirs : dirs'[d].temps = dirs[d].temps
  PROVE  TempInv'
<1>1. \A t \in Threads : HandleOf[t] \notin hs =>
        pc'[t] = pc[t] /\ my'[t] = my[t] /\ handle'[HandleOf[t]] = Impl(t)
  BY DieFacts
<1> SUFFICES ASSUME NEW d \in DOMAIN dirs, NEW i \in dirs[d].temps, i \notin orphans'
             PROVE  \E t \in Updaters : my'[t].fd = i /\ pc'[t] \in InSave /\ Impl(t)'.dir = d
  BY DEF TempInv
<1>2. i \notin orphans BY DEF Die
<1>3. PICK t \in Updaters : my[t].fd = i /\ pc[t] \in InSave /\ Impl(t).dir = d
  BY <1>2 DEF DirectoryInv, TempInv
<1>4. HandleOf[t] \notin hs BY <1>3 DEF Die
<1>5. t \in Threads BY DEF Threads
<1> QED BY <1>1, <1>3, <1>4, <1>5 DEF Impl

\* ProcessDies preserves the invariant.
LEMMA ProcessDiesStep ==
  ASSUME DirectoryInv, NEW h \in Handles, ProcessDies(h) PROVE DirectoryInv'
<1>1. Die({h}) /\ faults' = faults + 1 /\ UNCHANGED <<path, dirs, files, acked>>
  BY DEF ProcessDies, Fault
<1>2. /\ ThreadsType' /\ UseInv'
      /\ flock' \in Seq(Updaters \cup {None}) /\ Len(flock') = Len(flock)
      /\ DOMAIN flock' = DOMAIN flock
      /\ \A t \in Threads : HandleOf[t] = h => pc'[t] = "idle" /\ my'[t] = Blank
      /\ \A t \in Threads : HandleOf[t] # h =>
           /\ pc'[t] = pc[t] /\ my'[t] = my[t] /\ handle'[HandleOf[t]] = Impl(t)
           /\ \A l \in DOMAIN flock : flock[l] = t => flock'[l] = t
      /\ \A g \in Handles : handle'[g].mode # "closed" => handle'[g] = handle[g]
  <2>1. {h} \in SUBSET Handles OBVIOUS
  <2> QED BY <1>1, <2>1, DieFacts
<1>3. faults \in Nat /\ Len(files) \in Nat BY LenProperties DEF DirectoryInv, FilesType
<1>4. FilesType' BY <1>1, <1>2, <1>3 DEF DirectoryInv, FilesType
<1>5. Bounds'
  <2>1. Blank.fd = 0 /\ Blank.base = 0 BY DEF Blank
  <2>2. \A t \in Threads : my'[t].fd <= Len(files) /\ my'[t].base <= Len(files)
    BY <1>2, <1>3, <2>1 DEF DirectoryInv, Bounds
  <2>3. \A d \in DOMAIN dirs : /\ dirs[d].state \in dirs[d].disk /\ dirs[d].lock <= Len(flock)
                               /\ \A i \in dirs[d].disk : i <= Len(files)
    BY DEF DirectoryInv, Bounds
  <2>4. \A g \in Handles : handle'[g].mode # "closed" => handle'[g].dir \in DOMAIN dirs
    BY <1>2 DEF DirectoryInv, Bounds
  <2> QED BY <1>1, <1>2, <2>2, <2>3, <2>4 DEF Bounds
<1>6. DurableInv' BY <1>1 DEF DirectoryInv, DurableInv, Data
<1>7. TempInv'
  <2>1. {h} \in SUBSET Handles OBVIOUS
  <2> QED BY <1>1, <2>1, TempsAfterDeath
<1>8. ASSUME NEW t \in Threads PROVE ThreadInv(t)'
  <2>1. CASE HandleOf[t] = h BY <1>2, <2>1, DeadThread
  <2>2. CASE HandleOf[t] # h
    <3>1. pc[t] # "idle" => Dir(t) = dirs[Impl(t).dir] BY InUse
    <3> QED BY <1>1, <1>2, <2>2, <3>1, ThreadKept
  <2> QED BY <2>1, <2>2
<1> QED BY <1>2, <1>4, <1>5, <1>6, <1>7, <1>8 DEF DirectoryInv

\* PowerLoss preserves the invariant: what comes back was possible.
LEMMA PowerLossStep == ASSUME DirectoryInv, PowerLoss PROVE DirectoryInv'
<1>1. Die(Handles) /\ faults' = faults + 1 /\ UNCHANGED <<path, acked>> BY DEF PowerLoss, Fault
<1>2. /\ ThreadsType' /\ UseInv'
      /\ flock' \in Seq(Updaters \cup {None}) /\ Len(flock') = Len(flock)
      /\ \A t \in Threads : pc'[t] = "idle" /\ my'[t] = Blank
      /\ \A g \in Handles : handle'[g].mode # "closed" => handle'[g] = handle[g]
  <2>1. \A t \in Threads : HandleOf[t] \in Handles BY StateDirectoryAssumption
  <2> QED BY <1>1, <2>1, DieFacts
<1>3. faults \in Nat /\ Len(files) \in Nat /\ files \in Seq(FileRecord) /\ dirs \in Seq(DirRecord)
  BY LenProperties DEF DirectoryInv, FilesType
<1>4. files' = files
  <2>1. \A i \in DOMAIN files : files[i].synced
    <3>1. \A i \in DOMAIN files : files[i] \in FileRecord BY <1>3
    <3> QED BY <3>1 DEF FileRecord
  <2>2. files' = [i \in DOMAIN files |-> files[i]] BY <2>1 DEF PowerLoss
  <2> QED BY <1>3, <2>2
<1>5. PICK back \in [DOMAIN dirs -> 0..MaxFiles] :
        /\ \A d \in DOMAIN dirs : back[d] \in dirs[d].disk
        /\ dirs' = [d \in DOMAIN dirs |-> [dirs[d] EXCEPT !.state = back[d], !.disk = {back[d]}]]
  BY DEF PowerLoss
<1> DEFINE Back(d) == [dirs[d] EXCEPT !.state = back[d], !.disk = {back[d]}]
<1>51. \A d \in DOMAIN dirs : back[d] \in dirs[d].disk /\ back[d] \in 0..MaxFiles BY <1>5
<1>52. dirs' = [d \in DOMAIN dirs |-> Back(d)] BY <1>5
<1> HIDE DEF Back
<1>53. /\ DOMAIN dirs' = DOMAIN dirs /\ dirs' = [d \in DOMAIN dirs |-> dirs'[d]]
       /\ \A d \in DOMAIN dirs : dirs'[d] = Back(d)
  BY <1>52
<1>6. ASSUME NEW d \in DOMAIN dirs
      PROVE  /\ dirs'[d] \in DirRecord /\ dirs'[d].state = back[d] /\ dirs'[d].disk = {back[d]}
             /\ dirs'[d].lock = dirs[d].lock
  <2> DEFINE b == back[d]
             new == [dirs[d] EXCEPT !.state = b, !.disk = {b}]
  <2>1. dirs'[d] = new BY <1>53 DEF Back
  <2>2. b \in Nat /\ dirs[d] \in DirRecord
    <3>1. 0..MaxFiles \subseteq Nat BY StateDirectoryAssumption
    <3> QED BY <1>3, <1>51, <3>1
  <2> HIDE DEF b
  <2>3. {b} \in SUBSET Nat BY <2>2
  <2>4. new \in DirRecord /\ new.state = b /\ new.disk = {b} /\ new.lock = dirs[d].lock
    BY <2>2, <2>3 DEF DirRecord
  <2> QED BY <2>1, <2>4 DEF b
<1>7. dirs' \in Seq(DirRecord) /\ Len(dirs') = Len(dirs) /\ DOMAIN dirs' = DOMAIN dirs
  <2>1. DOMAIN dirs' = 1..Len(dirs) /\ DOMAIN dirs' = DOMAIN dirs /\ Len(dirs) \in Nat
    BY <1>3, <1>53, LenProperties
  <2>2. dirs' = [d \in 1..Len(dirs) |-> dirs'[d]] BY <1>53, <2>1
  <2>3. \A d \in 1..Len(dirs) : dirs'[d] \in DirRecord BY <1>6, <2>1
  <2>4. dirs' \in [1..Len(dirs) -> DirRecord] BY <2>2, <2>3
  <2> QED BY <2>1, <2>4
<1>8. FilesType' BY <1>1, <1>2, <1>3, <1>4, <1>7 DEF DirectoryInv, FilesType
<1>9. Bounds'
  <2>1. Blank.fd = 0 /\ Blank.base = 0 BY DEF Blank
  <2>2. \A t \in Threads : my'[t].fd <= Len(files) /\ my'[t].base <= Len(files)
    BY <1>2, <1>3, <2>1
  <2>3. \A d \in DOMAIN dirs : /\ dirs'[d].state \in dirs'[d].disk /\ dirs'[d].lock <= Len(flock)
                               /\ \A i \in dirs'[d].disk : i <= Len(files)
    BY <1>51, <1>6 DEF DirectoryInv, Bounds
  <2>4. \A g \in Handles : handle'[g].mode # "closed" => handle'[g].dir \in DOMAIN dirs
    BY <1>2 DEF DirectoryInv, Bounds
  <2> QED BY <1>2, <1>4, <1>7, <2>2, <2>3, <2>4 DEF Bounds
<1>10. DurableInv'
  <2>1. \A i : Data(i)' = Data(i) BY <1>4 DEF Data
  <2>2. ASSUME NEW d \in 1..MaxDirs, d \in DOMAIN dirs, NEW i \in dirs'[d].disk
        PROVE  IsPrefix(acked[d], Data(i))
    <3>1. i \in dirs[d].disk BY <1>51, <1>6, <2>2
    <3> QED BY <2>2, <3>1 DEF DirectoryInv, DurableInv
  <2>3. \A d \in 1..MaxDirs : d \notin DOMAIN dirs => acked[d] = <<>>
    BY DEF DirectoryInv, DurableInv
  <2> QED BY <1>1, <1>7, <2>1, <2>2, <2>3 DEF DurableInv
<1>11. TempInv'
  <2>1. \A d \in DOMAIN dirs : dirs'[d].temps = dirs[d].temps
    <3>1. \A d \in DOMAIN dirs : dirs[d] \in DirRecord BY <1>3
    <3>2. \A d \in DOMAIN dirs : Back(d).temps = dirs[d].temps BY <3>1 DEF Back, DirRecord
    <3> QED BY <1>53, <3>2
  <2> QED BY <1>1, <1>7, <2>1, TempsAfterDeath
<1>12. \A t \in Threads : ThreadInv(t)' BY <1>2, DeadThread
<1> QED BY <1>2, <1>8, <1>9, <1>10, <1>11, <1>12 DEF DirectoryInv

-----------------------------------------------------------------------------
(***************************************************************************)
(* The theorems.                                                           *)
(***************************************************************************)

\* The invariant holds initially.
LEMMA InitDirectory == ASSUME Init PROVE DirectoryInv
<1>0. /\ <<>> \in Seq(Updaters) /\ <<>> \in Seq(DirRecord)
      /\ <<>> \in Seq(FileRecord) /\ <<>> \in Seq(Updaters \cup {None})
      /\ MaxDirs \in Nat /\ MaxFiles \in Nat
  BY StateDirectoryAssumption
<1>1. FilesType BY <1>0 DEF Init, FilesType
<1>2. ThreadsType BY ConstantRecords DEF Init, ThreadsType, Places
<1>3. Bounds BY DEF Init, Bounds, Blank, Closed
<1>4. UseInv
  <2>1. ASSUME NEW h \in Handles PROVE Cardinality({t \in Threads : HandleOf[t] = h /\ pc[t] # "idle"}) = 0
    <3>1. {t \in Threads : HandleOf[t] = h /\ pc[t] # "idle"} = {} BY DEF Init
    <3> QED BY <3>1, FS_EmptySet
  <2>2. \A h \in Handles : handle[h].refs = 0 /\ handle[h].mode = "closed" BY DEF Init, Closed
  <2> QED BY <2>1, <2>2 DEF UseInv, CloseIsExact
<1>5. DurableInv BY DEF Init, DurableInv
<1>6. TempInv BY DEF Init, TempInv
<1>7. \A t \in Threads : ThreadInv(t)
  BY DEF Init, ThreadInv, LockInv, LoadInv, CommitInv, Owning
<1> QED BY <1>1, <1>2, <1>3, <1>4, <1>5, <1>6, <1>7 DEF DirectoryInv

\* Nothing changes.
LEMMA DirectoryStutters == ASSUME DirectoryInv, UNCHANGED vars PROVE DirectoryInv'
<1>1. /\ path' = path /\ dirs' = dirs /\ files' = files /\ flock' = flock /\ handle' = handle
      /\ pc' = pc /\ my' = my /\ acked' = acked /\ orphans' = orphans /\ faults' = faults
  BY DEF vars
<1>2. FilesType' /\ ThreadsType' /\ Bounds' /\ UseInv'
  BY <1>1 DEF DirectoryInv, FilesType, ThreadsType, Bounds, UseInv, CloseIsExact
<1>3. DurableInv' /\ TempInv'
  BY <1>1 DEF DirectoryInv, DurableInv, TempInv, Data, Impl
<1>4. ASSUME NEW t \in Threads PROVE ThreadInv(t)'
  <2>1. pc[t] # "idle" => Dir(t) = dirs[Impl(t).dir] BY InUse
  <2> QED BY <1>1, <2>1, ThreadKept DEF Impl
<1> QED BY <1>2, <1>3, <1>4 DEF DirectoryInv

\* Every step preserves the invariant.
LEMMA NextDirectory == ASSUME DirectoryInv, [Next]_vars PROVE DirectoryInv'
<1>1. CASE UNCHANGED vars BY <1>1, DirectoryStutters
<1>2. ASSUME NEW h \in Handles, Open(h) \/ CloseBegins(h) \/ CloseEnds(h) \/ ProcessDies(h)
      PROVE  DirectoryInv'
  BY <1>2, OpenStep, CloseBeginsStep, CloseEndsStep, ProcessDiesStep
<1>3. ASSUME NEW t \in Threads, RetainAndLoad(t) \/ RetainAndLock(t) \/ StopWaiting(t) \/ Step(t)
      PROVE  DirectoryInv'
  <2>1. CASE RetainAndLoad(t) \/ RetainAndLock(t) \/ StopWaiting(t)
    BY <2>1, RetainAndLoadStep, RetainAndLockStep, StopWaitingStep
  <2>2. CASE Locking(t) BY <2>2, TakeFlockStep, CheckLockStep DEF Locking
  <2>3. CASE Reading(t)
    BY <2>3, OpenStateStep, TrackStateStep, ReadStateStep, ReadFailsStep DEF Reading
  <2>4. CASE Saving(t)
    BY <2>4, WriteTempStep, PrepareCommitStep, RenameStep, SyncDirectoryStep, AcknowledgeStep,
       SaveFailsStep, RemoveTempStep DEF Saving
  <2>5. CASE Ending(t) BY <2>5, DeactivateStep, CloseLockStep, ReleaseStep DEF Ending
  <2> QED BY <1>3, <2>1, <2>2, <2>3, <2>4, <2>5 DEF Step
<1>4. CASE PowerLoss \/ ReplaceDirectory \/ RestoreDirectory
  BY <1>4, PowerLossStep, ReplaceDirectoryStep, RestoreDirectoryStep
<1>5. ASSUME NEW d \in DOMAIN dirs, RemoveLockFile(d) PROVE DirectoryInv'
  BY <1>5, RemoveLockFileStep
<1> QED BY <1>1, <1>2, <1>3, <1>4, <1>5 DEF Next

\* The inductive invariant of the pinned state directory.
THEOREM DirectoryInvariant == Spec => []DirectoryInv
<1>1. Init => DirectoryInv BY InitDirectory
<1>2. DirectoryInv /\ [Next]_vars => DirectoryInv' BY NextDirectory
<1> QED BY <1>1, <1>2, PTL DEF Spec

\* Close neither closes the descriptor under an operation nor waits for one that
\* has ended: retain, release and Close of pinnedStateDir count exactly.
THEOREM ReferencesAreExact == Spec => []CloseIsExact
<1>1. DirectoryInv => CloseIsExact BY DEF DirectoryInv, UseInv
<1> QED BY <1>1, DirectoryInvariant, PTL

\* A temp file, which holds the whole credential, exists only while writeFileAtomic
\* runs for it, unless the process of that very save died: however often directory
\* or lock file are replaced in between.
THEOREM NoTempLeftBehind == Spec => []TempsAreRemoved
<1>1. DirectoryInv => TempsAreRemoved BY DEF DirectoryInv, TempInv, TempsAreRemoved
<1> QED BY <1>1, DirectoryInvariant, PTL

\* Only Acknowledge changes what was acknowledged.
LEMMA OnlyAcknowledge ==
  ASSUME [Next]_vars PROVE UNCHANGED acked \/ \E t \in Threads : Acknowledge(t)
<1>1. CASE UNCHANGED vars BY <1>1 DEF vars
<1>2. ASSUME NEW h \in Handles, Open(h) \/ CloseBegins(h) \/ CloseEnds(h) \/ ProcessDies(h)
      PROVE  UNCHANGED acked
  BY <1>2 DEF Open, CloseBegins, CloseEnds, ProcessDies
<1>3. ASSUME NEW t \in Threads, RetainAndLoad(t) \/ RetainAndLock(t) \/ StopWaiting(t) \/ Step(t),
             ~Acknowledge(t)
      PROVE  UNCHANGED acked
  <2>1. CASE RetainAndLoad(t) \/ RetainAndLock(t) \/ StopWaiting(t)
    BY <2>1 DEF RetainAndLoad, RetainAndLock, StopWaiting
  <2>2. CASE Locking(t) BY <2>2 DEF Locking, TakeFlock, CheckLock
  <2>3. CASE Reading(t) BY <2>3 DEF Reading, OpenState, TrackState, ReadState, ReadFails
  <2>4. CASE Saving(t)
    BY <1>3, <2>4 DEF Saving, WriteTemp, PrepareCommit, Rename, SyncDirectory, SaveFails, RemoveTemp
  <2>5. CASE Ending(t) BY <2>5 DEF Ending, Deactivate, CloseLock, Release
  <2> QED BY <1>3, <2>1, <2>2, <2>3, <2>4, <2>5 DEF Step
<1>4. CASE PowerLoss \/ ReplaceDirectory \/ RestoreDirectory
  BY <1>4 DEF PowerLoss, ReplaceDirectory, RestoreDirectory
<1>5. ASSUME NEW d \in DOMAIN dirs, RemoveLockFile(d) PROVE UNCHANGED acked
  BY <1>5 DEF RemoveLockFile
<1> QED BY <1>1, <1>2, <1>3, <1>4, <1>5 DEF Next

\* What a goroutine acknowledges.
LEMMA AcknowledgeFacts ==
  ASSUME DirectoryInv, NEW t \in Threads, Acknowledge(t)
  PROVE  /\ Impl(t).dir \in Directories
         /\ acked' = [acked EXCEPT ![Impl(t).dir] = Visible[Impl(t).dir]]
         /\ UNCHANGED <<dirs, files>>
<1> DEFINE d == Impl(t).dir
<1>1. /\ pc[t] = "published" /\ Dir(t).state = my[t].fd
      /\ acked' = [acked EXCEPT ![d] = files[my[t].fd].data] /\ UNCHANGED <<dirs, files>>
  BY DEF Acknowledge, StillPublished, fs
<1>2. d \in DOMAIN dirs /\ d \in 1..MaxDirs /\ Dir(t) = dirs[d] BY <1>1, InUse
<1>3. my[t].fd # 0 BY <1>1, ThreadFacts DEF CommitInv
<1>4. Visible[d] = files[my[t].fd].data BY <1>1, <1>2, <1>3 DEF Visible, Directories
<1> QED BY <1>1, <1>2, <1>4 DEF Directories

\* What a reader finds comes after what was acknowledged.
ReadersServed ==
  /\ Visible \in [Directories -> Seq(Updaters)]
  /\ \A d \in Directories : IsPrefix(acked[d], Visible[d])

\* It does: the state of a directory is one of those on its disk.
LEMMA VisibleFacts == ASSUME DirectoryInv PROVE ReadersServed
<1>1. ASSUME NEW d \in Directories
      PROVE  Visible[d] \in Seq(Updaters) /\ IsPrefix(acked[d], Visible[d])
  <2>0. <<>> \in Seq(Updaters) /\ d \in 1..MaxDirs BY DEF Directories
  <2>1. CASE d \in DOMAIN dirs
    <3>1. Visible[d] = Data(dirs[d].state) BY <2>1 DEF Visible, Data
    <3>2. dirs[d] \in DirRecord /\ dirs[d].state \in dirs[d].disk /\ \A i \in dirs[d].disk : i <= Len(files)
      BY <2>1 DEF DirectoryInv, FilesType, Bounds
    <3>3. dirs[d].state \in Nat /\ dirs[d].state <= Len(files) BY <3>2 DEF DirRecord
    <3>4. Data(dirs[d].state) \in Seq(Updaters) BY <3>3, DataType
    <3>5. IsPrefix(acked[d], Data(dirs[d].state))
      BY <2>0, <2>1, <3>2 DEF DirectoryInv, DurableInv
    <3> QED BY <3>1, <3>4, <3>5
  <2>2. CASE d \notin DOMAIN dirs
    <3>1. Visible[d] = <<>> BY <2>2 DEF Visible
    <3>2. acked[d] = <<>> BY <2>0, <2>2 DEF DirectoryInv, DurableInv
    <3> QED BY <2>0, <3>1, <3>2, PrefixSelf
  <2> QED BY <2>1, <2>2
<1>2. Visible = [d \in Directories |-> Visible[d]] BY DEF Visible
<1> QED BY <1>1, <1>2 DEF ReadersServed

\* The state directory implements the register: the visible state is always that
\* of whole saves and never goes back before one whose success was reported,
\* whatever fails, competes or is cut off.
THEOREM DirectoryIsARegister == Spec => ImplementsRegister
<1>1. Init => Register!Init
  BY DEF Init, Register!Init, Visible, Directories
<1>2. DirectoryInv => ReadersServed BY VisibleFacts
<1>3. DirectoryInv' => ReadersServed' BY <1>2, PTL
<1>4. DirectoryInv /\ DirectoryInv' /\ [Next]_vars => [Register!Next]_<<Visible, acked>>
  <2> SUFFICES ASSUME DirectoryInv, DirectoryInv', [Next]_vars PROVE Register!Next OBVIOUS
  <2>1. CASE UNCHANGED acked
    <3>1. /\ Visible' \in [Directories -> Seq(Updaters)]
          /\ \A d \in Directories : IsPrefix(acked'[d], Visible'[d])
      BY <1>3 DEF ReadersServed, Directories
    <3>2. Register!Move BY <2>1, <3>1 DEF Register!Move, Register!IsPrefix, IsPrefix
    <3> QED BY <3>2 DEF Register!Next
  <2>2. CASE \E t \in Threads : Acknowledge(t)
    <3>1. PICK t \in Threads : Acknowledge(t) BY <2>2
    <3>2. /\ Impl(t).dir \in Directories
          /\ acked' = [acked EXCEPT ![Impl(t).dir] = Visible[Impl(t).dir]]
          /\ UNCHANGED <<dirs, files>>
      BY <3>1, AcknowledgeFacts
    <3>3. UNCHANGED Visible BY <3>2 DEF Visible
    <3>4. Register!Acknowledge(Impl(t).dir) BY <3>2, <3>3 DEF Register!Acknowledge
    <3> QED BY <3>2, <3>4 DEF Register!Next
  <2> QED BY <2>1, <2>2, OnlyAcknowledge
<1> QED BY <1>1, <1>4, DirectoryInvariant, PTL DEF Spec, ImplementsRegister, Register!Spec

=============================================================================
