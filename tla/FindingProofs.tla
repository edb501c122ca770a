---------------------------- MODULE FindingProofs ----------------------------
(***************************************************************************)
(* What is proved of findings, for any number of processes, sessions,      *)
(* calls and files.  FindingsSession: the types, and that the lock a       *)
(* session takes at its first attempt keeps every sweep away from its      *)
(* findings.  Notebook: whatever is published, restated, cleared or        *)
(* switched off while a finding is written, the findings databases keep    *)
(* saying of every entry what was true of the content the model was shown. *)
(***************************************************************************)
EXTENDS FindingsSession, Notebook, TLAPS, FiniteSetTheorems

(***************************************************************************)
(* FindingsSession.                                                        *)
(***************************************************************************)

Reaps(q) == pc[q] \in {"reap_db", "reap_file"}

\* An id belongs to one process, and was drawn.
Owned ==
  /\ \A p, q \in Procs : id[p] # None /\ id[p] = id[q] => p = q
  /\ \A p \in Procs : id[p] # None => id[p] \in spent

\* What the place in the code says about the attempts made and the lock held.
Phases ==
  \A p \in Procs :
    /\ id[p] = None => pc[p] \in {"idle", "off"} /\ attempt[p] = 0 /\ held[p] = 0
    /\ pc[p] = "off" => id[p] = None
    /\ pc[p] = "open" => attempt[p] < LockAttempts /\ held[p] = 0
    /\ pc[p] = "lock" => attempt[p] > 0 /\ held[p] = 0
    /\ id[p] # None /\ pc[p] \notin {"open", "lock"} => attempt[p] > 0 /\ held[p] = attempt[p]
    /\ pc[p] = "reap_lock" => handle[p] # 0

\* Session i has not made a file yet.
Fresh(i) == i \notin spent \/ \E p \in Procs : id[p] = i /\ attempt[p] = 0

\* Such a session has no file, and no sweep can know of it.
Unseen ==
  \A i \in Ids : Fresh(i) =>
    /\ lockfile[i] = 0 /\ ~db[i]
    /\ \A q \in Procs : target[q] # i /\ \A f \in todo[q] : f[2] # i

\* No version of a session's lock file is newer than its owner's last attempt.
Versions ==
  \A p \in Procs : id[p] # None =>
    /\ lockfile[id[p]] <= attempt[p]
    /\ \A q \in Procs : target[q] = id[p] => handle[q] <= attempt[p]

\* No off is under way beside a session it would disturb.
Undisturbed == \A p, q \in Procs : calm[p] => pc[q] # "off"

\* A session that got past its check at the first attempt has its lock file.
Marked ==
  \A p \in Procs :
    id[p] # None /\ calm[p] /\ attempt[p] = 1 /\ pc[p] \notin {"open", "lock", "check"} =>
      lockfile[id[p]] = 1

\* A sweep that is removing a session whose first lock file is still there
\* holds that file's lock, and its owner does not.
Guarded ==
  \A p, q \in Procs :
    /\ id[p] # None /\ calm[p] /\ attempt[p] = 1 /\ lockfile[id[p]] # 0
    /\ target[q] = id[p] /\ Reaps(q)
    => handle[q] = 1 /\ held[p] = 0

SessionInv == /\ TypeOK /\ Owned /\ Phases /\ Unseen /\ Versions
              /\ Undisturbed /\ Marked /\ Guarded

USE SessionAssumption DEF disk, sweeping, vars

LEMMA NoneIsVersion == 0 \in 0..LockAttempts /\ 0 \in 0..MaxQuits /\ 0 \in 0..MaxOffs
  OBVIOUS

LEMMA BeginKeeps ==
  ASSUME SessionInv, NEW p \in Procs, NEW i \in Ids, Begin(p, i), dir' \in BOOLEAN
  PROVE  SessionInv'
<1>1. TypeOK'
  BY DEF SessionInv, Begin, Goto, TypeOK, Pcs, Starting, Files, Phases
<1>2. Owned'
  BY DEF SessionInv, Begin, Goto, TypeOK, Owned
<1>3. Phases'
  BY DEF SessionInv, Begin, Goto, TypeOK, Phases, Pcs, Starting
<1>4. Unseen'
  BY DEF SessionInv, Begin, Goto, TypeOK, Owned, Phases, Unseen, Fresh
<1>5. Versions'
  BY DEF SessionInv, Begin, Goto, TypeOK, Owned, Phases, Unseen, Fresh, Versions
<1>6. Undisturbed'
  BY DEF SessionInv, Begin, Goto, TypeOK, Undisturbed
<1>7. Marked'
  BY DEF SessionInv, Begin, Goto, TypeOK, Owned, Phases, Versions, Undisturbed, Marked, Guarded, Reaps
<1>8. Guarded'
  BY DEF SessionInv, Begin, Goto, TypeOK, Owned, Phases, Unseen, Fresh, Versions, Guarded, Reaps
<1> QED
  BY <1>1, <1>2, <1>3, <1>4, <1>5, <1>6, <1>7, <1>8 DEF SessionInv

LEMMA OpenOwnKeeps ==
  ASSUME SessionInv, NEW p \in Procs, OpenOwn(p)
  PROVE  SessionInv'
<1>1. TypeOK'
  BY DEF SessionInv, OpenOwn, Drop, Goto, TypeOK, Pcs, Starting, Files, Phases
<1>2. Owned'
  BY DEF SessionInv, OpenOwn, Drop, Goto, TypeOK, Owned
<1>3. Phases'
  BY DEF SessionInv, OpenOwn, Drop, Goto, TypeOK, Phases, Pcs, Starting
<1>4. Unseen'
  BY DEF SessionInv, OpenOwn, Drop, Goto, TypeOK, Owned, Phases, Unseen, Fresh
<1>5. Versions'
  BY DEF SessionInv, OpenOwn, Drop, Goto, TypeOK, Owned, Phases, Unseen, Fresh, Versions
<1>6. Undisturbed'
  BY DEF SessionInv, OpenOwn, Drop, Goto, TypeOK, Undisturbed
<1>7. Marked'
  BY DEF SessionInv, OpenOwn, Drop, Goto, TypeOK, Owned, Phases, Versions, Undisturbed, Marked, Guarded, Reaps
<1>8. Guarded'
  BY DEF SessionInv, OpenOwn, Drop, Goto, TypeOK, Owned, Phases, Unseen, Fresh, Versions, Guarded, Reaps
<1> QED
  BY <1>1, <1>2, <1>3, <1>4, <1>5, <1>6, <1>7, <1>8 DEF SessionInv

LEMMA LockOwnKeeps ==
  ASSUME SessionInv, NEW p \in Procs, LockOwn(p)
  PROVE  SessionInv'
<1>1. TypeOK'
  BY DEF SessionInv, LockOwn, Locked, Goto, TypeOK, Pcs, Starting, Files, Phases
<1>2. Owned'
  BY DEF SessionInv, LockOwn, Locked, Goto, TypeOK, Owned
<1>3. Phases'
  BY DEF SessionInv, LockOwn, Locked, Goto, TypeOK, Phases, Pcs, Starting
<1>4. Unseen'
  BY DEF SessionInv, LockOwn, Locked, Goto, TypeOK, Owned, Phases, Unseen, Fresh
<1>5. Versions'
  BY DEF SessionInv, LockOwn, Locked, Goto, TypeOK, Owned, Phases, Unseen, Fresh, Versions
<1>6. Undisturbed'
  BY DEF SessionInv, LockOwn, Locked, Goto, TypeOK, Undisturbed
<1>7. Marked'
  BY DEF SessionInv, LockOwn, Locked, Goto, TypeOK, Owned, Phases, Versions, Undisturbed, Marked, Guarded, Reaps
<1>8. Guarded'
  BY DEF SessionInv, LockOwn, Locked, Goto, TypeOK, Owned, Phases, Unseen, Fresh, Versions, Guarded, Reaps
<1> QED
  BY <1>1, <1>2, <1>3, <1>4, <1>5, <1>6, <1>7, <1>8 DEF SessionInv

LEMMA CheckOwnKeeps ==
  ASSUME SessionInv, NEW p \in Procs, CheckOwn(p)
  PROVE  SessionInv'
<1>1. TypeOK'
  BY DEF SessionInv, CheckOwn, IsMarked, MayRetry, Drop, Goto, TypeOK, Pcs, Starting, Files, Phases
<1>2. Owned'
  BY DEF SessionInv, CheckOwn, IsMarked, MayRetry, Drop, Goto, TypeOK, Owned
<1>3. Phases'
  BY DEF SessionInv, CheckOwn, IsMarked, MayRetry, Drop, Goto, TypeOK, Phases, Pcs, Starting
<1>4. Unseen'
  BY DEF SessionInv, CheckOwn, IsMarked, MayRetry, Drop, Goto, TypeOK, Owned, Phases, Unseen, Fresh
<1>5. Versions'
  BY DEF SessionInv, CheckOwn, IsMarked, MayRetry, Drop, Goto, TypeOK, Owned, Phases, Unseen, Fresh, Versions
<1>6. Undisturbed'
  BY DEF SessionInv, CheckOwn, IsMarked, MayRetry, Drop, Goto, TypeOK, Undisturbed
<1>7. Marked'
  BY DEF SessionInv, CheckOwn, IsMarked, MayRetry, Drop, Goto, TypeOK, Owned, Phases, Versions, Undisturbed, Marked, Guarded, Reaps
<1>8. Guarded'
  BY DEF SessionInv, CheckOwn, IsMarked, MayRetry, Drop, Goto, TypeOK, Owned, Phases, Unseen, Fresh, Versions, Guarded, Reaps
<1> QED
  BY <1>1, <1>2, <1>3, <1>4, <1>5, <1>6, <1>7, <1>8 DEF SessionInv

LEMMA ListKeeps ==
  ASSUME SessionInv, NEW p \in Procs, List(p)
  PROVE  SessionInv'
<1>1. TypeOK'
  BY DEF SessionInv, List, Entries, Drop, Goto, TypeOK, Pcs, Starting, Files, Phases
<1>2. Owned'
  BY DEF SessionInv, List, Entries, Drop, Goto, TypeOK, Owned
<1>3. Phases'
  BY DEF SessionInv, List, Entries, Drop, Goto, TypeOK, Phases, Pcs, Starting
<1>4. Unseen'
  BY DEF SessionInv, List, Entries, Drop, Goto, TypeOK, Owned, Phases, Unseen, Fresh
<1>5. Versions'
  BY DEF SessionInv, List, Entries, Drop, Goto, TypeOK, Owned, Phases, Unseen, Fresh, Versions
<1>6. Undisturbed'
  BY DEF SessionInv, List, Entries, Drop, Goto, TypeOK, Undisturbed
<1>7. Marked'
  BY DEF SessionInv, List, Entries, Drop, Goto, TypeOK, Owned, Phases, Versions, Undisturbed, Marked, Guarded, Reaps
<1>8. Guarded'
  BY DEF SessionInv, List, Entries, Drop, Goto, TypeOK, Owned, Phases, Unseen, Fresh, Versions, Guarded, Reaps
<1> QED
  BY <1>1, <1>2, <1>3, <1>4, <1>5, <1>6, <1>7, <1>8 DEF SessionInv

LEMMA ReapOpenKeeps ==
  ASSUME SessionInv, NEW p \in Procs, ReapOpen(p)
  PROVE  SessionInv'
<1>1. TypeOK'
  BY DEF SessionInv, ReapOpen, Goto, TypeOK, Pcs, Starting, Files, Phases
<1>2. Owned'
  BY DEF SessionInv, ReapOpen, Goto, TypeOK, Owned
<1>3. Phases'
  BY DEF SessionInv, ReapOpen, Goto, TypeOK, Phases, Pcs, Starting
<1>4. Unseen'
  BY DEF SessionInv, ReapOpen, Goto, TypeOK, Owned, Phases, Unseen, Fresh
<1>5. Versions'
  BY DEF SessionInv, ReapOpen, Goto, TypeOK, Owned, Phases, Unseen, Fresh, Versions
<1>6. Undisturbed'
  BY DEF SessionInv, ReapOpen, Goto, TypeOK, Undisturbed
<1>7. Marked'
  BY DEF SessionInv, ReapOpen, Goto, TypeOK, Owned, Phases, Versions, Undisturbed, Marked, Guarded, Reaps
<1>8. Guarded'
  BY DEF SessionInv, ReapOpen, Goto, TypeOK, Owned, Phases, Unseen, Fresh, Versions, Guarded, Reaps
<1> QED
  BY <1>1, <1>2, <1>3, <1>4, <1>5, <1>6, <1>7, <1>8 DEF SessionInv

LEMMA ReapLockKeeps ==
  ASSUME SessionInv, NEW p \in Procs, ReapLock(p)
  PROVE  SessionInv'
<1>1. TypeOK'
  BY DEF SessionInv, ReapLock, WouldBlock, Locked, Goto, TypeOK, Pcs, Starting, Files, Phases
<1>2. Owned'
  BY DEF SessionInv, ReapLock, WouldBlock, Locked, Goto, TypeOK, Owned
<1>3. Phases'
  BY DEF SessionInv, ReapLock, WouldBlock, Locked, Goto, TypeOK, Phases, Pcs, Starting
<1>4. Unseen'
  BY DEF SessionInv, ReapLock, WouldBlock, Locked, Goto, TypeOK, Owned, Phases, Unseen, Fresh
<1>5. Versions'
  BY DEF SessionInv, ReapLock, WouldBlock, Locked, Goto, TypeOK, Owned, Phases, Unseen, Fresh, Versions
<1>6. Undisturbed'
  BY DEF SessionInv, ReapLock, WouldBlock, Locked, Goto, TypeOK, Undisturbed
<1>7. Marked'
  BY DEF SessionInv, ReapLock, WouldBlock, Locked, Goto, TypeOK, Owned, Phases, Versions, Undisturbed, Marked, Guarded, Reaps
<1>8. Guarded'
  <2>1. CASE Locked(target[p], handle[p])
    BY <2>1 DEF SessionInv, ReapLock, WouldBlock, Goto, TypeOK, Guarded, Reaps
  <2>2. CASE ~Locked(target[p], handle[p])
    <3> SUFFICES ASSUME NEW o \in Procs, id[o] # None, calm[o], attempt[o] = 1,
                        lockfile[id[o]] # 0, target[p] = id[o]
                 PROVE  handle[p] = 1 /\ held[o] = 0
      BY <2>2 DEF SessionInv, ReapLock, Goto, TypeOK, Guarded, Reaps
    <3>1. handle[p] = 1
      BY DEF SessionInv, ReapLock, TypeOK, Phases, Versions
    <3>2. held[o] # 1
      BY <2>2, <3>1 DEF Locked
    <3>3. held[o] \in {0, 1}
      BY DEF SessionInv, TypeOK, Phases, Pcs, Starting
    <3> QED
      BY <3>1, <3>2, <3>3
  <2> QED
    BY <2>1, <2>2
<1> QED
  BY <1>1, <1>2, <1>3, <1>4, <1>5, <1>6, <1>7, <1>8 DEF SessionInv

LEMMA ReapDbKeeps ==
  ASSUME SessionInv, NEW p \in Procs, ReapDb(p)
  PROVE  SessionInv'
<1>1. TypeOK'
  BY DEF SessionInv, ReapDb, Goto, TypeOK, Pcs, Starting, Files, Phases
<1>2. Owned'
  BY DEF SessionInv, ReapDb, Goto, TypeOK, Owned
<1>3. Phases'
  BY DEF SessionInv, ReapDb, Goto, TypeOK, Phases, Pcs, Starting
<1>4. Unseen'
  BY DEF SessionInv, ReapDb, Goto, TypeOK, Owned, Phases, Unseen, Fresh
<1>5. Versions'
  BY DEF SessionInv, ReapDb, Goto, TypeOK, Owned, Phases, Unseen, Fresh, Versions
<1>6. Undisturbed'
  BY DEF SessionInv, ReapDb, Goto, TypeOK, Undisturbed
<1>7. Marked'
  BY DEF SessionInv, ReapDb, Goto, TypeOK, Owned, Phases, Versions, Undisturbed, Marked, Guarded, Reaps
<1>8. Guarded'
  BY DEF SessionInv, ReapDb, Goto, TypeOK, Owned, Phases, Unseen, Fresh, Versions, Guarded, Reaps
<1> QED
  BY <1>1, <1>2, <1>3, <1>4, <1>5, <1>6, <1>7, <1>8 DEF SessionInv

LEMMA ReapFileKeeps ==
  ASSUME SessionInv, NEW p \in Procs, ReapFile(p)
  PROVE  SessionInv'
<1>1. TypeOK'
  <2>1. lockfile' \in [Ids -> 0..LockAttempts] /\ handle' \in [Procs -> 0..LockAttempts]
    BY NoneIsVersion DEF SessionInv, ReapFile, TypeOK
  <2>2. target' \in [Procs -> Ids \cup {None}] /\ pc' \in [Procs -> Pcs]
    BY DEF SessionInv, ReapFile, Goto, TypeOK, Pcs, Starting
  <2> QED
    BY <2>1, <2>2 DEF SessionInv, ReapFile, TypeOK
<1>2. Owned'
  BY DEF SessionInv, ReapFile, Goto, TypeOK, Owned
<1>3. Phases'
  BY DEF SessionInv, ReapFile, Goto, TypeOK, Phases, Pcs, Starting
<1>4. Unseen'
  BY DEF SessionInv, ReapFile, Goto, TypeOK, Owned, Phases, Unseen, Fresh
<1>5. Versions'
  BY DEF SessionInv, ReapFile, Goto, TypeOK, Owned, Phases, Unseen, Fresh, Versions
<1>6. Undisturbed'
  BY DEF SessionInv, ReapFile, Goto, TypeOK, Undisturbed
<1>7. Marked'
  BY DEF SessionInv, ReapFile, Goto, TypeOK, Owned, Phases, Versions, Undisturbed, Marked, Guarded, Reaps
<1>8. Guarded'
  BY DEF SessionInv, ReapFile, Goto, TypeOK, Owned, Phases, Unseen, Fresh, Versions, Guarded, Reaps
<1> QED
  BY <1>1, <1>2, <1>3, <1>4, <1>5, <1>6, <1>7, <1>8 DEF SessionInv

LEMMA FinishKeeps ==
  ASSUME SessionInv, NEW p \in Procs, Finish(p)
  PROVE  SessionInv'
<1>1. TypeOK'
  BY DEF SessionInv, Finish, Goto, TypeOK, Pcs, Starting, Files, Phases
<1>2. Owned'
  BY DEF SessionInv, Finish, Goto, TypeOK, Owned
<1>3. Phases'
  BY DEF SessionInv, Finish, Goto, TypeOK, Phases, Pcs, Starting
<1>4. Unseen'
  BY DEF SessionInv, Finish, Goto, TypeOK, Owned, Phases, Unseen, Fresh
<1>5. Versions'
  BY DEF SessionInv, Finish, Goto, TypeOK, Owned, Phases, Unseen, Fresh, Versions
<1>6. Undisturbed'
  BY DEF SessionInv, Finish, Goto, TypeOK, Undisturbed
<1>7. Marked'
  BY DEF SessionInv, Finish, Goto, TypeOK, Owned, Phases, Versions, Undisturbed, Marked, Guarded, Reaps
<1>8. Guarded'
  BY DEF SessionInv, Finish, Goto, TypeOK, Owned, Phases, Unseen, Fresh, Versions, Guarded, Reaps
<1> QED
  BY <1>1, <1>2, <1>3, <1>4, <1>5, <1>6, <1>7, <1>8 DEF SessionInv

LEMMA WriteFindingKeeps ==
  ASSUME SessionInv, NEW p \in Procs, WriteFinding(p)
  PROVE  SessionInv'
<1>1. TypeOK'
  BY DEF SessionInv, WriteFinding, SessionOf, TypeOK, Pcs, Starting, Files, Phases
<1>2. Owned'
  BY DEF SessionInv, WriteFinding, SessionOf, TypeOK, Owned
<1>3. Phases'
  BY DEF SessionInv, WriteFinding, SessionOf, TypeOK, Phases, Pcs, Starting
<1>4. Unseen'
  BY DEF SessionInv, WriteFinding, SessionOf, TypeOK, Owned, Phases, Unseen, Fresh
<1>5. Versions'
  BY DEF SessionInv, WriteFinding, SessionOf, TypeOK, Owned, Phases, Unseen, Fresh, Versions
<1>6. Undisturbed'
  BY DEF SessionInv, WriteFinding, SessionOf, TypeOK, Undisturbed
<1>7. Marked'
  BY DEF SessionInv, WriteFinding, SessionOf, TypeOK, Owned, Phases, Versions, Undisturbed, Marked, Guarded, Reaps
<1>8. Guarded'
  BY DEF SessionInv, WriteFinding, SessionOf, TypeOK, Owned, Phases, Unseen, Fresh, Versions, Guarded, Reaps
<1> QED
  BY <1>1, <1>2, <1>3, <1>4, <1>5, <1>6, <1>7, <1>8 DEF SessionInv

LEMMA OffKeeps ==
  ASSUME SessionInv, NEW p \in Procs, Off(p)
  PROVE  SessionInv'
<1>1. TypeOK'
  BY DEF SessionInv, Off, Entries, Goto, TypeOK, Pcs, Starting, Files, Phases
<1>2. Owned'
  BY DEF SessionInv, Off, Entries, Goto, TypeOK, Owned
<1>3. Phases'
  BY DEF SessionInv, Off, Entries, Goto, TypeOK, Phases, Pcs, Starting
<1>4. Unseen'
  BY DEF SessionInv, Off, Entries, Goto, TypeOK, Owned, Phases, Unseen, Fresh
<1>5. Versions'
  BY DEF SessionInv, Off, Entries, Goto, TypeOK, Owned, Phases, Unseen, Fresh, Versions
<1>6. Undisturbed'
  BY DEF SessionInv, Off, Entries, Goto, TypeOK, Undisturbed
<1>7. Marked'
  BY DEF SessionInv, Off, Entries, Goto, TypeOK, Owned, Phases, Versions, Undisturbed, Marked, Guarded, Reaps
<1>8. Guarded'
  BY DEF SessionInv, Off, Entries, Goto, TypeOK, Owned, Phases, Unseen, Fresh, Versions, Guarded, Reaps
<1> QED
  BY <1>1, <1>2, <1>3, <1>4, <1>5, <1>6, <1>7, <1>8 DEF SessionInv

LEMMA OffUnlinkKeeps ==
  ASSUME SessionInv, NEW p \in Procs, OffUnlink(p)
  PROVE  SessionInv'
<1>1. TypeOK'
  <2>1. PICK f \in todo[p] : OffUnlink(p)!2!(f)
    BY DEF OffUnlink
  <2>2. f[2] \in Ids
    BY DEF SessionInv, TypeOK, Files
  <2>3. lockfile' \in [Ids -> 0..LockAttempts]
    BY <2>1, <2>2, NoneIsVersion DEF SessionInv, TypeOK
  <2>5. db' \in [Ids -> BOOLEAN]
    BY <2>1, <2>2 DEF SessionInv, TypeOK
  <2>4. todo' \in [Procs -> SUBSET Files]
    BY <2>1 DEF SessionInv, TypeOK
  <2> QED
    BY <2>1, <2>3, <2>4, <2>5 DEF SessionInv, OffUnlink, TypeOK
<1>2. Owned'
  BY DEF SessionInv, OffUnlink, TypeOK, Owned
<1>3. Phases'
  BY DEF SessionInv, OffUnlink, TypeOK, Phases, Pcs, Starting
<1>4. Unseen'
  BY DEF SessionInv, OffUnlink, TypeOK, Owned, Phases, Unseen, Fresh
<1>5. Versions'
  BY DEF SessionInv, OffUnlink, TypeOK, Owned, Phases, Unseen, Fresh, Versions
<1>6. Undisturbed'
  BY DEF SessionInv, OffUnlink, TypeOK, Undisturbed
<1>7. Marked'
  BY DEF SessionInv, OffUnlink, TypeOK, Owned, Phases, Versions, Undisturbed, Marked, Guarded, Reaps
<1>8. Guarded'
  BY DEF SessionInv, OffUnlink, TypeOK, Owned, Phases, Unseen, Fresh, Versions, Guarded, Reaps
<1> QED
  BY <1>1, <1>2, <1>3, <1>4, <1>5, <1>6, <1>7, <1>8 DEF SessionInv

LEMMA OffRmdirKeeps ==
  ASSUME SessionInv, NEW p \in Procs, OffRmdir(p)
  PROVE  SessionInv'
<1>1. TypeOK'
  BY DEF SessionInv, OffRmdir, Entries, Goto, TypeOK, Pcs, Starting, Files, Phases
<1>2. Owned'
  BY DEF SessionInv, OffRmdir, Entries, Goto, TypeOK, Owned
<1>3. Phases'
  BY DEF SessionInv, OffRmdir, Entries, Goto, TypeOK, Phases, Pcs, Starting
<1>4. Unseen'
  BY DEF SessionInv, OffRmdir, Entries, Goto, TypeOK, Owned, Phases, Unseen, Fresh
<1>5. Versions'
  BY DEF SessionInv, OffRmdir, Entries, Goto, TypeOK, Owned, Phases, Unseen, Fresh, Versions
<1>6. Undisturbed'
  BY DEF SessionInv, OffRmdir, Entries, Goto, TypeOK, Undisturbed
<1>7. Marked'
  BY DEF SessionInv, OffRmdir, Entries, Goto, TypeOK, Owned, Phases, Versions, Undisturbed, Marked, Guarded, Reaps
<1>8. Guarded'
  BY DEF SessionInv, OffRmdir, Entries, Goto, TypeOK, Owned, Phases, Unseen, Fresh, Versions, Guarded, Reaps
<1> QED
  BY <1>1, <1>2, <1>3, <1>4, <1>5, <1>6, <1>7, <1>8 DEF SessionInv

LEMMA QuitKeeps ==
  ASSUME SessionInv, NEW p \in Procs, Quit(p) \/ GiveUpLock(p)
  PROVE  SessionInv'
<1>1. TypeOK'
  BY DEF SessionInv, Quit, GiveUpLock, Drop, TypeOK, Pcs, Starting, Files, Phases
<1>2. Owned'
  BY DEF SessionInv, Quit, GiveUpLock, Drop, TypeOK, Owned
<1>3. Phases'
  BY DEF SessionInv, Quit, GiveUpLock, Drop, TypeOK, Phases, Pcs, Starting
<1>4. Unseen'
  BY DEF SessionInv, Quit, GiveUpLock, Drop, TypeOK, Owned, Phases, Unseen, Fresh
<1>5. Versions'
  BY DEF SessionInv, Quit, GiveUpLock, Drop, TypeOK, Owned, Phases, Unseen, Fresh, Versions
<1>6. Undisturbed'
  BY DEF SessionInv, Quit, GiveUpLock, Drop, TypeOK, Undisturbed
<1>7. Marked'
  BY DEF SessionInv, Quit, GiveUpLock, Drop, TypeOK, Owned, Phases, Versions, Undisturbed, Marked, Guarded, Reaps
<1>8. Guarded'
  BY DEF SessionInv, Quit, GiveUpLock, Drop, TypeOK, Owned, Phases, Unseen, Fresh, Versions, Guarded, Reaps
<1> QED
  BY <1>1, <1>2, <1>3, <1>4, <1>5, <1>6, <1>7, <1>8 DEF SessionInv

LEMMA SessionInvInit == Init => SessionInv
<1>1. Init => TypeOK
  BY NoneIsVersion DEF Init, TypeOK, Pcs
<1> QED
  BY <1>1 DEF Init, SessionInv, Pcs, Owned, Phases, Fresh, Unseen, Versions,
         Undisturbed, Marked, Guarded, Reaps

LEMMA SessionInvNext == SessionInv /\ [Next]_vars => SessionInv'
<1> SUFFICES ASSUME SessionInv, [Next]_vars PROVE SessionInv'
  OBVIOUS
<1>1. ASSUME NEW p \in Procs, NEW i \in Ids, Touch(p, i) PROVE SessionInv'
  BY <1>1, BeginKeeps DEF Touch, SessionInv, TypeOK
<1>2. ASSUME NEW p \in Procs, On(p) PROVE SessionInv'
  <2>1. CASE \E i \in Ids : Begin(p, i)
    BY <1>2, <2>1, BeginKeeps DEF On
  <2>2. CASE UNCHANGED <<lockfile, db, spent, pc, id, attempt, held, sweeping, quits, offs, calm>>
    BY <1>2, <2>2 DEF On, SessionInv, TypeOK, Owned, Phases, Fresh, Unseen, Versions,
                      Undisturbed, Marked, Guarded, Reaps
  <2> QED
    BY <1>2, <2>1, <2>2 DEF On
<1>3. ASSUME NEW p \in Procs, WriteFinding(p) \/ Off(p) \/ Quit(p) PROVE SessionInv'
  BY <1>3, WriteFindingKeeps, OffKeeps, QuitKeeps
<1>4. ASSUME NEW p \in Procs, Step(p) PROVE SessionInv'
  <2>1. CASE OpenOwn(p) \/ LockOwn(p) \/ GiveUpLock(p) \/ CheckOwn(p)
    BY <2>1, OpenOwnKeeps, LockOwnKeeps, QuitKeeps, CheckOwnKeeps
  <2>2. CASE List(p) \/ Finish(p) \/ OffUnlink(p) \/ OffRmdir(p)
    BY <2>2, ListKeeps, FinishKeeps, OffUnlinkKeeps, OffRmdirKeeps
  <2>3. CASE ReapOpen(p) \/ ReapLock(p) \/ ReapDb(p) \/ ReapFile(p)
    BY <2>3, ReapOpenKeeps, ReapLockKeeps, ReapDbKeeps, ReapFileKeeps
  <2> QED
    BY <1>4, <2>1, <2>2, <2>3 DEF Step
<1>5. CASE UNCHANGED vars
  BY <1>5 DEF SessionInv, TypeOK, Owned, Phases, Fresh, Unseen, Versions,
              Undisturbed, Marked, Guarded, Reaps
<1> QED
  BY <1>1, <1>2, <1>3, <1>4, <1>5 DEF Next

\* The inductive invariant: an id has one owner, a file is only ever made by
\* its owner's attempts, and while the first version of a lock file has its
\* name, its lock decides between the owner and the sweeps.
THEOREM SessionInvHolds == Spec => []SessionInv
  BY SessionInvInit, SessionInvNext, PTL DEF Spec

\* Whatever dies and whoever sweeps, no start of a session makes more than
\* LOCK_ATTEMPTS lock files, and the state keeps its shape.
THEOREM SessionTypeCorrect == Spec => []TypeOK
<1>1. SessionInv => TypeOK
  BY DEF SessionInv
<1> QED
  BY <1>1, SessionInvHolds, PTL

\* With the project left on, a session that locked its file at the first
\* attempt is never taken for dead by a sweep (reap_if_dead).
THEOREM FirstLockHolds == Spec => []FirstLockProtects
<1>1. SessionInv => FirstLockProtects
  <2> SUFFICES ASSUME SessionInv, NEW p \in Procs, NEW q \in Procs,
                      SessionOf(p) # None, calm[p], attempt[p] = 1,
                      Reaps(q), target[q] = id[p]
               PROVE  FALSE
    BY DEF FirstLockProtects, Reaps
  <2>1. id[p] # None /\ pc[p] = "idle"
    BY DEF SessionOf
  <2>2. lockfile[id[p]] = 1
    BY <2>1 DEF SessionInv, Marked
  <2>3. held[p] = 1
    BY <2>1 DEF SessionInv, Phases
  <2> QED
    BY <2>1, <2>2, <2>3 DEF SessionInv, Guarded
<1> QED
  BY <1>1, SessionInvHolds, PTL

(***************************************************************************)
(* Notebook.                                                               *)
(***************************************************************************)

-----------------------------------------------------------------------------
(* The clock of an entry, and the entries of one findings database.         *)

\* at_least_timestamp is no earlier than the host's clock and than every entry:
\* times that go up have a greatest, the last.
LEMMA NotBeforeIsLate ==
  ASSUME NEW es \in Seq(Entry), hostClock \in Nat,
         \A i, j \in DOMAIN es : i < j => es[i].created <= es[j].created
  PROVE  /\ NotBefore(es) \in Nat
         /\ \A i \in DOMAIN es : es[i].created <= NotBefore(es)
<1> DEFINE times == {hostClock} \cup {es[i].created : i \in DOMAIN es}
           Late(t) == t >= hostClock /\ \A i \in DOMAIN es : t >= es[i].created
<1>1. \A i \in DOMAIN es : es[i].created \in Nat
  <2> \A i \in DOMAIN es : es[i] \in Entry
    OBVIOUS
  <2> QED
    BY DEF Entry
<1>2. \E t \in times : Late(t)
  <2>1. CASE \A i \in DOMAIN es : hostClock >= es[i].created
    BY <2>1
  <2>2. CASE \E i \in DOMAIN es : ~ (hostClock >= es[i].created)
    <3>1. PICK i \in DOMAIN es : ~ (hostClock >= es[i].created)
      BY <2>2
    <3>2. /\ DOMAIN es = 1..Len(es) /\ Len(es) \in Nat
      OBVIOUS
    <3>3. Len(es) \in DOMAIN es
      BY <3>1, <3>2
    <3>4. \A j \in DOMAIN es : es[Len(es)].created >= es[j].created
      <4> TAKE j \in DOMAIN es
      <4>1. CASE j = Len(es)
        BY <4>1, <1>1, <3>3
      <4>2. CASE j < Len(es)
        BY <4>2, <1>1, <3>3
      <4> QED
        BY <4>1, <4>2, <3>2
    <3>5. es[Len(es)].created >= hostClock
      BY <3>1, <3>3, <3>4, <1>1
    <3> QED
      BY <3>3, <3>4, <3>5
  <2> QED
    BY <2>1, <2>2
<1>3. NotBefore(es) = CHOOSE t \in times : Late(t)
  BY DEF NotBefore
<1>4. NotBefore(es) \in times /\ Late(NotBefore(es))
  BY <1>2, <1>3
<1>5. \A t \in times : t \in Nat
  BY <1>1
<1> QED
  BY <1>1, <1>4, <1>5

\* A revision that is published takes nothing from the entries.
LEMMA EntriesOutlive ==
  ASSUME NEW tables \in Seq(FileTables), NEW files \in FileTables, NEW e \in Entry,
         EntryHolds(e, tables)
  PROVE  EntryHolds(e, Append(tables, files))
BY DEF EntryHolds, Entry

LEMMA BooksOutlive ==
  ASSUME NEW tables \in Seq(FileTables), NEW files \in FileTables, NEW book \in Book,
         BookHolds(book, tables)
  PROVE  BookHolds(book, Append(tables, files))
<1>1. book.entries \in Seq(Entry)
  BY DEF Book
<1>2. \A i \in DOMAIN book.entries : EntryHolds(book.entries[i], Append(tables, files))
  BY <1>1, EntriesOutlive DEF BookHolds
<1> QED
  BY <1>2 DEF BookHolds

LEMMA NotesOutlive ==
  ASSUME NEW tables \in Seq(FileTables), NEW files \in FileTables, NEW note \in NoteStates,
         NoteHolds(note, tables)
  PROVE  NoteHolds(note, Append(tables, files))
<1> DEFINE grown == Append(tables, files)
<1>1. /\ Len(grown) = Len(tables) + 1 /\ Len(tables) \in Nat
      /\ \A r \in 1..Len(tables) : grown[r] = tables[r]
  OBVIOUS
<1>2. \A r \in 1..Len(tables) : r \in 1..Len(grown)
  BY <1>1
<1> HIDE DEF grown
<1>3. NoteHolds(note, grown)
  BY <1>1, <1>2 DEF NoteHolds
<1> QED
  BY <1>3 DEF grown

\* A database without entries holds, whatever it has given ids to.
LEMMA EmptyBookHolds ==
  ASSUME NEW tables, NEW last \in Nat, last <= MaxEntries, NEW made \in BOOLEAN
  PROVE  /\ [made |-> made, entries |-> <<>>, last |-> last] \in Book
         /\ BookHolds([made |-> made, entries |-> <<>>, last |-> last], tables)
<1>1. <<>> \in Seq(Entry) /\ Len(<<>>) = 0 /\ DOMAIN <<>> = {}
  OBVIOUS
<1> QED
  BY <1>1, NotebookAssumption DEF Book, BookHolds

LEMMA NoBookHolds ==
  ASSUME NEW tables
  PROVE  NoBook \in Book /\ BookHolds(NoBook, tables)
<1>1. 0 \in Nat /\ 0 <= MaxEntries /\ FALSE \in BOOLEAN
  BY NotebookAssumption
<1>2. NoBook = [made |-> FALSE, entries |-> <<>>, last |-> 0]
  BY DEF NoBook
<1>3. /\ [made |-> FALSE, entries |-> <<>>, last |-> 0] \in Book
      /\ BookHolds([made |-> FALSE, entries |-> <<>>, last |-> 0], tables)
  BY <1>1, EmptyBookHolds
<1> QED
  BY <1>2, <1>3

\* insert_new keeps a database: the new id is the greatest, its time no
\* earlier, and no entry says the same.
LEMMA InsertedBookHolds ==
  ASSUME NEW tables, NEW book \in Book, BookHolds(book, tables), NEW e \in Entry,
         EntryHolds(e, tables), e.id = book.last + 1, book.last < MaxEntries,
         \A i \in DOMAIN book.entries :
            Identity(book.entries[i]) # Identity(e) /\ book.entries[i].created <= e.created
  PROVE  LET inserted == [made |-> TRUE, entries |-> Append(book.entries, e), last |-> e.id] IN
         inserted \in Book /\ BookHolds(inserted, tables)
<1> DEFINE es == book.entries
           added == Append(es, e)
           inserted == [made |-> TRUE, entries |-> added, last |-> e.id]
<1>1. es \in Seq(Entry) /\ book.last \in Nat /\ MaxEntries \in Nat
  BY NotebookAssumption DEF Book
<1>2. /\ added \in Seq(Entry) /\ Len(added) = Len(es) + 1 /\ Len(es) \in Nat
      /\ DOMAIN es = 1..Len(es) /\ DOMAIN added = 1..(Len(es) + 1)
      /\ added[Len(es) + 1] = e /\ \A i \in 1..Len(es) : added[i] = es[i]
  BY <1>1
<1>3. /\ Len(es) <= book.last
      /\ \A i \in DOMAIN es : es[i].id <= book.last /\ EntryHolds(es[i], tables)
      /\ \A i, j \in DOMAIN es : i < j => InOrder(es[i], es[j])
  BY DEF BookHolds
<1>4. \A i \in DOMAIN es : es[i].id \in Nat
  <2> \A i \in DOMAIN es : es[i] \in Entry
    BY <1>1
  <2> QED
    BY DEF Entry
<1> HIDE DEF es, added
<1>5. \A i \in DOMAIN added : added[i].id <= e.id /\ EntryHolds(added[i], tables)
  <2> TAKE i \in DOMAIN added
  <2>1. CASE i = Len(es) + 1
    BY <2>1, <1>1, <1>2
  <2>2. CASE i \in 1..Len(es)
    BY <2>2, <1>1, <1>2, <1>3, <1>4
  <2> QED
    BY <2>1, <2>2, <1>2
<1>6. \A i, j \in DOMAIN added : i < j => InOrder(added[i], added[j])
  <2> SUFFICES ASSUME NEW i \in DOMAIN added, NEW j \in DOMAIN added, i < j
               PROVE  InOrder(added[i], added[j])
    OBVIOUS
  <2>1. i \in 1..Len(es) /\ added[i] = es[i]
    BY <1>2
  <2>2. CASE j \in 1..Len(es)
    BY <2>1, <2>2, <1>2, <1>3
  <2>3. CASE j = Len(es) + 1
    <3>1. es[i].id < e.id
      BY <2>1, <1>1, <1>2, <1>3, <1>4
    <3>2. Identity(es[i]) # Identity(e) /\ es[i].created <= e.created
      BY <2>1, <1>2 DEF es
    <3> QED
      BY <2>1, <2>3, <1>2, <3>1, <3>2 DEF InOrder
  <2> QED
    BY <2>2, <2>3, <1>2
<1>7. inserted \in Book
  BY <1>1, <1>2 DEF Book
<1>8. BookHolds(inserted, tables)
  BY <1>1, <1>2, <1>3, <1>5, <1>6 DEF BookHolds
<1> QED
  BY <1>7, <1>8 DEF es, added

\* refresh_restated keeps a database: what the two findings share is what
\* makes them the same, and the revision is one that has that hash.
LEMMA RefreshedBookHolds ==
  ASSUME NEW tables, NEW book \in Book, BookHolds(book, tables), NEW k \in DOMAIN book.entries,
         NEW e \in Entry, EntryHolds(e, tables), Identity(e) = Identity(book.entries[k]),
         e.id = book.entries[k].id, e.created = book.entries[k].created
  PROVE  LET refreshed == [book EXCEPT !.entries = [book.entries EXCEPT ![k] = e]] IN
         refreshed \in Book /\ BookHolds(refreshed, tables)
<1> DEFINE es == book.entries
           changed == [es EXCEPT ![k] = e]
           refreshed == [book EXCEPT !.entries = changed]
<1>1. es \in Seq(Entry) /\ book.last \in Nat /\ book.made \in BOOLEAN
  BY DEF Book
<1>2. /\ changed \in Seq(Entry) /\ Len(changed) = Len(es) /\ DOMAIN changed = DOMAIN es
      /\ changed[k] = e /\ \A i \in DOMAIN es : i # k => changed[i] = es[i]
  BY <1>1
<1>3. /\ refreshed \in Book /\ refreshed.entries = changed /\ refreshed.last = book.last
  BY <1>1, <1>2 DEF Book
<1>4. /\ Len(es) <= book.last /\ book.last <= MaxEntries
      /\ \A i \in DOMAIN es : es[i].id <= book.last /\ EntryHolds(es[i], tables)
      /\ \A i, j \in DOMAIN es : i < j => InOrder(es[i], es[j])
  BY DEF BookHolds
<1>5. Identity(e) = Identity(es[k]) /\ e.id = es[k].id /\ e.created = es[k].created
  OBVIOUS
<1>6. k \in DOMAIN es
  OBVIOUS
<1> HIDE DEF es, changed, refreshed
<1>7. \A i \in DOMAIN es :
        /\ changed[i].id = es[i].id /\ changed[i].created = es[i].created
        /\ Identity(changed[i]) = Identity(es[i]) /\ EntryHolds(changed[i], tables)
  BY <1>2, <1>4, <1>5, <1>6
<1>8. \A i, j \in DOMAIN es : i < j => InOrder(changed[i], changed[j])
  BY <1>4, <1>7 DEF InOrder
<1>9. BookHolds(refreshed, tables)
  BY <1>2, <1>3, <1>4, <1>7, <1>8 DEF BookHolds
<1> QED
  BY <1>3, <1>9 DEF refreshed, changed, es

-----------------------------------------------------------------------------
(* The shapes of what a call holds.                                         *)

\* What each state of a call carries.
LEMMA NoteFields ==
  ASSUME NEW note \in NoteStates
  PROVE  /\ note.at \in {"free", "fetch", "locate", "write", "clear", "verify", "collect"}
         /\ note.at \in {"fetch", "locate", "write", "verify", "collect"} => note.revision \in Nat
         /\ note.at \in {"fetch", "locate", "write"} => note.request \in Requests
         /\ note.at \in {"locate", "write"} => note.hash \in Contents
         /\ note.at = "write" => note.session \in 1..MaxSessions
BY DEF NoteStates

\* A call that ends is free: nothing is asked of it.
LEMMA CallsEnd ==
  ASSUME NotebookInv, NEW c \in Notes, EndsCall(c), history' = history
  PROVE  /\ notes' \in [Notes -> NoteStates]
         /\ \A d \in Notes : NoteHolds(notes'[d], history)
<1>1. Free \in NoteStates /\ NoteHolds(Free, history)
  BY DEF Free, NoteStates, NoteHolds
<1> QED
  BY <1>1 DEF NotebookInv, NotebookShape, EndsCall

\* A call that goes on with what holds of the index of now.
LEMMA CallsGoOn ==
  ASSUME NotebookInv, NEW c \in Notes, NEW note \in NoteStates, NoteHolds(note, history),
         notes' = [notes EXCEPT ![c] = note]
  PROVE  /\ notes' \in [Notes -> NoteStates]
         /\ \A d \in Notes : NoteHolds(notes'[d], history)
BY DEF NotebookInv, NotebookShape

\* The answer is dropped: the empty one says nothing wrong.
LEMMA NothingReadHolds ==
  ASSUME NothingRead, NEW tables
  PROVE  ReadingHolds(readings', tables)
<1>1. readings' = NoReading /\ NoReading.listed = <<>> /\ NoReading.open = 0
  BY DEF NothingRead, NoReading
<1>2. DOMAIN <<>> = {}
  OBVIOUS
<1>3. {i \in DOMAIN readings'.listed : readings'.listed[i].status = "current"} = {}
  BY <1>1, <1>2
<1>4. readings'.open = Cardinality({i \in DOMAIN readings'.listed : readings'.listed[i].status = "current"})
  BY <1>1, <1>3, FS_EmptySet
<1> QED
  BY <1>1, <1>2, <1>4 DEF ReadingHolds

\* Only the calls change: the databases and the index stay.
LEMMA CallStep ==
  ASSUME NotebookInv, UnchangedIndex, UNCHANGED books, NothingRead,
         notes' \in [Notes -> NoteStates], \A d \in Notes : NoteHolds(notes'[d], history)
  PROVE  NotebookInv'
<1>1. ReadingHolds(readings', history')
  BY NothingReadHolds
<1> QED
  BY <1>1 DEF NotebookInv, NotebookShape, UnchangedIndex

\* A revision is in the range of the index, which is never empty.
LEMMA IndexShape ==
  ASSUME NotebookInv
  PROVE  /\ history \in Seq(FileTables) /\ Len(history) \in Nat /\ Len(history) \in 1..Len(history)
         /\ \A r \in 1..Len(history) : history[r] \in FileTables
BY DEF NotebookInv, NotebookShape

-----------------------------------------------------------------------------
(* One lemma for each step of a call.                                       *)

LEMMA StartFindingKeeps ==
  ASSUME NotebookInv, NEW c \in Notes, NEW request \in Requests,
         StartFinding(c, request)
  PROVE  NotebookInv'
<1> DEFINE note == [at |-> "fetch", request |-> request, revision |-> Current]
<1>1. Current \in 1..Len(history)
  BY IndexShape DEF Current
<1>2. note \in NoteStates /\ NoteHolds(note, history)
  BY <1>1 DEF NoteStates, NoteHolds
<1>3. notes' = [notes EXCEPT ![c] = note]
  BY DEF StartFinding
<1> HIDE DEF note
<1>4. /\ notes' \in [Notes -> NoteStates]
      /\ \A d \in Notes : NoteHolds(notes'[d], history)
  BY <1>2, <1>3, CallsGoOn
<1> QED
  BY <1>4, CallStep DEF StartFinding

LEMMA StartReadKeeps ==
  ASSUME NotebookInv, NEW c \in Notes, StartRead(c)
  PROVE  NotebookInv'
<1> DEFINE note == [at |-> "verify", revision |-> Current]
<1>1. Current \in 1..Len(history)
  BY IndexShape DEF Current
<1>2. note \in NoteStates /\ NoteHolds(note, history)
  BY <1>1 DEF NoteStates, NoteHolds
<1>3. notes' = [notes EXCEPT ![c] = note]
  BY DEF StartRead
<1> HIDE DEF note
<1>4. /\ notes' \in [Notes -> NoteStates]
      /\ \A d \in Notes : NoteHolds(notes'[d], history)
  BY <1>2, <1>3, CallsGoOn
<1> QED
  BY <1>4, CallStep DEF StartRead

LEMMA StartClearKeeps ==
  ASSUME NotebookInv, NEW c \in Notes, StartClear(c)
  PROVE  NotebookInv'
<1>1. [at |-> "clear"] \in NoteStates /\ NoteHolds([at |-> "clear"], history)
  BY DEF NoteStates, NoteHolds
<1>2. /\ notes' \in [Notes -> NoteStates]
      /\ \A d \in Notes : NoteHolds(notes'[d], history)
  BY <1>1, CallsGoOn DEF StartClear
<1> QED
  BY <1>2, CallStep DEF StartClear

\* fetch_file takes the hash of the current revision, and the revision is that
\* of the sync: the lines were checked against the same content.
LEMMA FetchFileKeeps ==
  ASSUME NotebookInv, NEW c \in Notes, FetchFile(c)
  PROVE  NotebookInv'
<1> DEFINE hash == history[Current][notes[c].request.path]
           note == [at |-> "locate", request |-> notes[c].request,
                    revision |-> notes[c].revision, hash |-> hash]
<1>1. notes[c] \in NoteStates /\ notes[c].at = "fetch" /\ NoteHolds(notes[c], history)
  BY DEF NotebookInv, NotebookShape, FetchFile, NoteAt
<1>2. CASE EndsCall(c)
  <2>1. /\ notes' \in [Notes -> NoteStates]
        /\ \A d \in Notes : NoteHolds(notes'[d], history)
    BY <1>2, CallsEnd DEF FetchFile, UnchangedIndex
  <2> QED
    BY <2>1, CallStep DEF FetchFile
<1>3. CASE /\ RevisionHolds(c) /\ hash # NotIndexed
           /\ LinesOf[hash] >= notes[c].request.range[2]
           /\ notes' = [notes EXCEPT ![c] = note]
  <2>1. /\ notes[c].revision \in 1..Len(history) /\ notes[c].request \in Requests
        /\ notes[c].revision = Current
    BY <1>1, <1>3, NoteFields DEF NoteHolds, RevisionHolds
  <2>2. notes[c].request.path \in NotedFiles /\ notes[c].request.range \in Int \X Int
    BY <2>1, NotebookAssumption DEF Requests
  <2>3. history[Current] \in FileTables
    BY <2>1, IndexShape
  <2>4. hash \in Contents
    BY <1>3, <2>2, <2>3 DEF FileTables
  <2>5. LinesOf[hash] \in Int /\ notes[c].request.range[2] \in Int
    BY <2>2, <2>4, NotebookAssumption DEF Contents
  <2>6. notes[c].request.range[2] <= LinesOf[hash]
    BY <1>3, <2>5
  <2>7. note \in NoteStates
    BY <2>1, <2>4 DEF NoteStates
  <2>8. NoteHolds(note, history)
    BY <2>1, <2>6 DEF NoteHolds
  <2> HIDE DEF note
  <2>9. /\ notes' \in [Notes -> NoteStates]
        /\ \A d \in Notes : NoteHolds(notes'[d], history)
    BY <1>3, <2>7, <2>8, CallsGoOn
  <2> QED
    BY <2>9, CallStep DEF FetchFile
<1> QED
  BY <1>2, <1>3 DEF FetchFile

LEMMA LocateBookKeeps ==
  ASSUME NotebookInv, NEW c \in Notes, LocateBook(c)
  PROVE  NotebookInv'
<1> DEFINE note == [at |-> "write", request |-> notes[c].request,
                    revision |-> notes[c].revision, hash |-> notes[c].hash, session |-> on]
<1>1. notes[c] \in NoteStates /\ notes[c].at = "locate" /\ NoteHolds(notes[c], history)
  BY DEF NotebookInv, NotebookShape, LocateBook, NoteAt
<1>2. CASE EndsCall(c)
  <2>1. /\ notes' \in [Notes -> NoteStates]
        /\ \A d \in Notes : NoteHolds(notes'[d], history)
    BY <1>2, CallsEnd DEF LocateBook, UnchangedIndex
  <2> QED
    BY <2>1, CallStep DEF LocateBook
<1>3. CASE on # 0 /\ notes' = [notes EXCEPT ![c] = note]
  <2>1. /\ notes[c].revision \in 1..Len(history) /\ notes[c].revision \in Nat
        /\ notes[c].request \in Requests /\ notes[c].hash \in Contents
    BY <1>1, NoteFields DEF NoteHolds
  <2>2. on \in 1..MaxSessions
    BY <1>3, NotebookAssumption DEF NotebookInv, NotebookShape
  <2>3. note \in NoteStates
    BY <2>1, <2>2 DEF NoteStates
  <2>4. NoteHolds(note, history)
    BY <1>1, <2>1 DEF NoteHolds
  <2> HIDE DEF note
  <2>5. /\ notes' \in [Notes -> NoteStates]
        /\ \A d \in Notes : NoteHolds(notes'[d], history)
    BY <1>3, <2>3, <2>4, CallsGoOn
  <2> QED
    BY <2>5, CallStep DEF LocateBook
<1> QED
  BY <1>2, <1>3 DEF LocateBook

LEMMA VerifyReadKeeps ==
  ASSUME NotebookInv, NEW c \in Notes, VerifyRead(c)
  PROVE  NotebookInv'
<1> DEFINE note == [notes[c] EXCEPT !.at = "collect"]
<1>1. notes[c] \in NoteStates /\ notes[c].at = "verify" /\ NoteHolds(notes[c], history)
  BY DEF NotebookInv, NotebookShape, VerifyRead, NoteAt
<1>2. CASE EndsCall(c)
  <2>1. /\ notes' \in [Notes -> NoteStates]
        /\ \A d \in Notes : NoteHolds(notes'[d], history)
    BY <1>2, CallsEnd DEF VerifyRead, UnchangedIndex
  <2> QED
    BY <2>1, CallStep DEF VerifyRead
<1>3. CASE notes' = [notes EXCEPT ![c].at = "collect"]
  <2>1. notes[c] \in [at : {"verify", "collect"}, revision : Nat]
    BY <1>1 DEF NoteStates
  <2>2. note \in NoteStates /\ note.at = "collect" /\ note.revision = notes[c].revision
    BY <2>1 DEF NoteStates
  <2>3. NoteHolds(note, history)
    BY <1>1, <2>2 DEF NoteHolds
  <2>4. notes' = [notes EXCEPT ![c] = note]
    BY <1>3
  <2> HIDE DEF note
  <2>5. /\ notes' \in [Notes -> NoteStates]
        /\ \A d \in Notes : NoteHolds(notes'[d], history)
    BY <2>2, <2>3, <2>4, CallsGoOn
  <2> QED
    BY <2>5, CallStep DEF VerifyRead
<1> QED
  BY <1>2, <1>3 DEF VerifyRead

\* What finding_read answers is of one database and one revision.
LEMMA CollectFindingsKeeps ==
  ASSUME NotebookInv, NEW c \in Notes, CollectFindings(c)
  PROVE  NotebookInv'
<1> DEFINE revision == notes[c].revision
           entries == books[on].entries
           listed == [i \in DOMAIN entries |->
             [id |-> entries[i].id, path |-> entries[i].path, hash |-> entries[i].hash,
              status |-> IF IsCurrent(entries[i], revision) THEN "current" ELSE "stale"]]
<1>1. /\ notes' \in [Notes -> NoteStates]
      /\ \A d \in Notes : NoteHolds(notes'[d], history)
  BY CallsEnd DEF CollectFindings, UnchangedIndex
<1>2. CASE on = 0
  <2>1. UnchangedIndex /\ UNCHANGED books /\ NothingRead
    BY <1>2 DEF CollectFindings
  <2> QED
    BY <1>1, <2>1, CallStep
<1>3. CASE on # 0
  <2>1. readings' = [revision |-> revision, listed |-> listed,
                     open |-> Cardinality({i \in DOMAIN entries : IsCurrent(entries[i], revision)})]
    BY <1>3 DEF CollectFindings
  <2>2. DOMAIN listed = DOMAIN entries
    OBVIOUS
  <2>3. \A i \in DOMAIN listed :
          /\ listed[i].path = entries[i].path /\ listed[i].hash = entries[i].hash
          /\ (listed[i].status = "current") <=> IsCurrent(entries[i], revision)
    OBVIOUS
  <2> HIDE DEF listed, entries, revision
  <2>4. {i \in DOMAIN listed : listed[i].status = "current"}
          = {i \in DOMAIN entries : IsCurrent(entries[i], revision)}
    BY <2>2, <2>3
  <2>5. ReadingHolds(readings', history)
    BY <2>1, <2>2, <2>3, <2>4 DEF ReadingHolds, IsCurrent
  <2> QED
    BY <1>1, <2>5 DEF CollectFindings, UnchangedIndex, NotebookInv, NotebookShape
<1> QED
  BY <1>2, <1>3

\* persist_finding: the row restated or the row added is about the content the
\* call was shown, whatever was published since; the databases of the other
\* sessions stay.
LEMMA InsertFindingKeeps ==
  ASSUME NotebookInv, NEW c \in Notes, InsertFinding(c)
  PROVE  NotebookInv'
<1> DEFINE note == notes[c]
           s == note.session
           book == books[s]
           restated == {i \in DOMAIN book.entries : Restates(book.entries[i], note.request, note.hash)}
           entry == NewEntry(book, note)
<1>1. notes[c] \in NoteStates /\ notes[c].at = "write" /\ NoteHolds(notes[c], history)
  BY DEF NotebookInv, NotebookShape, InsertFinding, NoteAt
<1>2. /\ note.revision \in 1..Len(history) /\ note.revision \in Nat /\ note.request \in Requests
      /\ note.hash \in Contents /\ s \in 1..MaxSessions
      /\ history[note.revision][note.request.path] = note.hash
      /\ note.request.range[2] <= LinesOf[note.hash]
  BY <1>1, NoteFields DEF NoteHolds
<1>3. /\ note.request.path \in NotedFiles /\ note.request.title \in Titles
      /\ note.request.body \in Bodies /\ note.request.range \in Ranges
  BY <1>2 DEF Requests
<1>4. book \in Book /\ BookHolds(book, history) /\ hostClock \in Nat
  BY <1>2 DEF NotebookInv, NotebookShape
<1>5. book.entries \in Seq(Entry) /\ book.last \in Nat
  BY <1>4 DEF Book
<1>6. /\ notes' \in [Notes -> NoteStates]
      /\ \A d \in Notes : NoteHolds(notes'[d], history)
  BY CallsEnd DEF InsertFinding, UnchangedIndex
<1>7. ReadingHolds(readings', history')
  BY NothingReadHolds DEF InsertFinding
<1>8. SUFFICES /\ books' \in [1..MaxSessions -> Book]
               /\ \A t \in 1..MaxSessions : BookHolds(books'[t], history)
  BY <1>6, <1>7 DEF NotebookInv, NotebookShape, InsertFinding, UnchangedIndex
<1>9. ASSUME NEW new \in Book, BookHolds(new, history), books' = [books EXCEPT ![s] = new]
      PROVE  /\ books' \in [1..MaxSessions -> Book]
             /\ \A t \in 1..MaxSessions : BookHolds(books'[t], history)
  BY <1>2, <1>9 DEF NotebookInv, NotebookShape
<1>10. CASE UNCHANGED books
  BY <1>10 DEF NotebookInv, NotebookShape
<1>11. CASE /\ restated # {}
            /\ LET i == CHOOSE i \in restated : \A j \in restated : i <= j IN
               books' = [books EXCEPT ![s].entries[i] = Refreshed(@, note)]
  <2>1. DOMAIN book.entries = 1..Len(book.entries) /\ Len(book.entries) \in Nat
    BY <1>5
  <2>2. \A i, j \in restated : i = j
    <3> SUFFICES ASSUME NEW i \in restated, NEW j \in restated, i < j
                 PROVE  FALSE
      BY <2>1
    <3>1. Identity(book.entries[i]) # Identity(book.entries[j])
      BY <1>4 DEF BookHolds, InOrder
    <3> QED
      BY <3>1 DEF Restates, Identity
  <2>3. PICK k \in restated : k = CHOOSE i \in restated : \A j \in restated : i <= j
    <3>1. PICK k \in restated : TRUE
      BY <1>11
    <3>2. k \in Nat
      BY <2>1
    <3>3. \A j \in restated : k <= j
      BY <2>2, <3>2
    <3> QED
      BY <3>3
  <2>4. k \in DOMAIN book.entries /\ Restates(book.entries[k], note.request, note.hash)
    OBVIOUS
  <2> DEFINE e == Refreshed(book.entries[k], note)
  <2>5. book.entries[k] \in Entry /\ EntryHolds(book.entries[k], history)
    BY <1>4, <1>5, <2>4 DEF BookHolds
  <2>6. /\ e \in Entry /\ e.id = book.entries[k].id /\ e.created = book.entries[k].created
        /\ e.path = book.entries[k].path /\ e.hash = book.entries[k].hash
        /\ e.range = book.entries[k].range /\ e.title = book.entries[k].title
        /\ e.revision = note.revision
    BY <1>2, <1>3, <2>5 DEF Refreshed, Entry
  <2>7. books' = [books EXCEPT ![s] =
                    [book EXCEPT !.entries = [book.entries EXCEPT ![k] = e]]]
    BY <1>11, <2>3
  <2> HIDE DEF e
  <2>8. EntryHolds(e, history)
    BY <1>2, <2>4, <2>5, <2>6 DEF EntryHolds, Restates
  <2>9. Identity(e) = Identity(book.entries[k])
    BY <2>6 DEF Identity
  <2> HIDE DEF book, restated
  <2> DEFINE new == [book EXCEPT !.entries = [book.entries EXCEPT ![k] = e]]
  <2>10. new \in Book /\ BookHolds(new, history)
    BY <1>4, <2>4, <2>6, <2>8, <2>9, RefreshedBookHolds
  <2> HIDE DEF new
  <2> QED
    BY <1>9, <2>7, <2>10 DEF new
<1>12. CASE /\ restated = {} /\ book.last < MaxEntries
            /\ books' = [books EXCEPT ![s] =
                 [made |-> TRUE, entries |-> Append(@.entries, entry), last |-> entry.id]]
  <2>1. \A i, j \in DOMAIN book.entries : i < j =>
          book.entries[i].created <= book.entries[j].created
    BY <1>4 DEF BookHolds, InOrder
  <2>2. /\ NotBefore(book.entries) \in Nat
        /\ \A i \in DOMAIN book.entries : book.entries[i].created <= NotBefore(book.entries)
    BY <1>4, <1>5, <2>1, NotBeforeIsLate
  <2>3. /\ entry \in Entry /\ entry.id = book.last + 1 /\ entry.path = note.request.path
        /\ entry.hash = note.hash /\ entry.range = note.request.range
        /\ entry.title = note.request.title /\ entry.created = NotBefore(book.entries)
        /\ entry.revision = note.revision
    <3>1. entry = [id |-> book.last + 1, path |-> note.request.path, hash |-> note.hash,
                   range |-> note.request.range, title |-> note.request.title,
                   body |-> note.request.body, created |-> NotBefore(book.entries),
                   revision |-> note.revision]
      BY DEF NewEntry
    <3>2. book.last + 1 \in Nat
      BY <1>5
    <3> HIDE DEF entry, book, note
    <3> QED
      BY <1>2, <1>3, <2>2, <3>1, <3>2 DEF Entry
  <2> HIDE DEF entry
  <2>4. EntryHolds(entry, history)
    BY <1>2, <2>3 DEF EntryHolds
  <2>5. \A i \in DOMAIN book.entries :
          /\ Identity(book.entries[i]) # Identity(entry)
          /\ book.entries[i].created <= entry.created
    BY <1>12, <2>2, <2>3 DEF Identity, Restates
  <2> DEFINE new == [made |-> TRUE, entries |-> Append(book.entries, entry), last |-> entry.id]
  <2>6. books' = [books EXCEPT ![s] = new]
    BY <1>12
  <2> HIDE DEF book
  <2>7. new \in Book /\ BookHolds(new, history)
    BY <1>4, <1>12, <2>3, <2>4, <2>5, InsertedBookHolds
  <2> HIDE DEF new
  <2> QED
    BY <1>9, <2>6, <2>7
<1> QED
  BY <1>10, <1>11, <1>12 DEF InsertFinding

LEMMA ClearFindingsKeeps ==
  ASSUME NotebookInv, NEW c \in Notes, ClearFindings(c)
  PROVE  NotebookInv'
<1>1. /\ notes' \in [Notes -> NoteStates]
      /\ \A d \in Notes : NoteHolds(notes'[d], history)
  BY CallsEnd DEF ClearFindings, UnchangedIndex
<1>2. CASE on = 0
  BY <1>1, <1>2, CallStep DEF ClearFindings
<1>3. CASE on # 0
  <2> DEFINE new == [made |-> TRUE, entries |-> <<>>, last |-> books[on].last]
  <2>1. on \in 1..MaxSessions
    BY <1>3, NotebookAssumption DEF NotebookInv, NotebookShape
  <2>2. books[on] \in Book /\ BookHolds(books[on], history)
    BY <2>1 DEF NotebookInv, NotebookShape
  <2>3. books[on].last \in Nat /\ books[on].last <= MaxEntries
    BY <2>2 DEF Book, BookHolds
  <2>4. new \in Book /\ BookHolds(new, history)
    BY <2>3, EmptyBookHolds
  <2>5. books' = [books EXCEPT ![on] = new]
    BY <1>3, <2>1 DEF ClearFindings, NotebookInv, NotebookShape
  <2> HIDE DEF new
  <2>6. /\ books' \in [1..MaxSessions -> Book]
        /\ \A t \in 1..MaxSessions : BookHolds(books'[t], history)
    BY <2>1, <2>4, <2>5 DEF NotebookInv, NotebookShape
  <2>7. ReadingHolds(readings', history')
    BY NothingReadHolds DEF ClearFindings
  <2> QED
    BY <1>1, <2>6, <2>7 DEF ClearFindings, UnchangedIndex, NotebookInv, NotebookShape
<1> QED
  BY <1>2, <1>3

-----------------------------------------------------------------------------
(* What other calls do.                                                     *)

LEMMA PublishFileKeeps ==
  ASSUME NotebookInv, NEW path \in NotedFiles, NEW content \in {NotIndexed} \cup Contents,
         PublishFile(path, content)
  PROVE  NotebookInv'
<1> DEFINE files == [history[Current] EXCEPT ![path] = content]
<1>1. files \in FileTables
  BY IndexShape DEF Current, FileTables
<1>2. history' = Append(history, files)
  BY DEF PublishFile
<1> HIDE DEF files
<1>3. \A s \in 1..MaxSessions : BookHolds(books[s], history')
  BY <1>1, <1>2, BooksOutlive DEF NotebookInv, NotebookShape
<1>4. \A c \in Notes : NoteHolds(notes[c], history')
  BY <1>1, <1>2, NotesOutlive DEF NotebookInv, NotebookShape
<1>5. history' \in Seq(FileTables) /\ history' # <<>>
  BY <1>1, <1>2, IndexShape
<1>6. ReadingHolds(readings', history')
  BY NothingReadHolds DEF PublishFile
<1> QED
  BY <1>3, <1>4, <1>5, <1>6 DEF PublishFile, NotebookInv, NotebookShape

LEMMA SwitchesKeep ==
  ASSUME NotebookInv, SwitchOff \/ SwitchOn \/ \E t \in 1..MaxTime : SetClock(t)
  PROVE  NotebookInv'
<1>1. ReadingHolds(readings', history')
  BY NothingReadHolds DEF SwitchOff, SwitchOn, SetClock
<1>2. CASE SwitchOff
  <2>1. NoBook \in Book /\ BookHolds(NoBook, history)
    BY NoBookHolds
  <2>2. books' = [s \in 1..MaxSessions |-> NoBook]
    BY <1>2 DEF SwitchOff, NotebookInv, NotebookShape
  <2> QED
    BY <1>1, <1>2, <2>1, <2>2 DEF SwitchOff, NotebookInv, NotebookShape
<1>3. CASE SwitchOn
  <2>1. on' \in 0..sessionsBegun' /\ sessionsBegun' \in 1..MaxSessions
    BY <1>3, NotebookAssumption DEF SwitchOn, NotebookInv, NotebookShape
  <2> QED
    BY <1>1, <1>3, <2>1 DEF SwitchOn, NotebookInv, NotebookShape
<1>4. CASE \E t \in 1..MaxTime : SetClock(t)
  BY <1>1, <1>4 DEF SetClock, NotebookInv, NotebookShape
<1> QED
  BY <1>2, <1>3, <1>4

LEMMA NotebookStarts ==
  ASSUME NotebookInit
  PROVE  NotebookInv
<1>1. history \in Seq(FileTables) /\ history # <<>>
  <2>1. PICK files \in FileTables : history = <<files>>
    BY DEF NotebookInit, FileTables
  <2> QED
    BY <2>1
<1>2. NoBook \in Book /\ BookHolds(NoBook, history)
  BY NoBookHolds
<1>3. Free \in NoteStates /\ NoteHolds(Free, history)
  BY DEF Free, NoteStates, NoteHolds
<1>4. ReadingHolds(NoReading, history)
  <2>1. DOMAIN NoReading.listed = {}
    BY DEF NoReading
  <2>2. {i \in DOMAIN NoReading.listed : NoReading.listed[i].status = "current"} = {}
    BY <2>1
  <2>3. NoReading.open = Cardinality({i \in DOMAIN NoReading.listed : NoReading.listed[i].status = "current"})
    BY <2>2, FS_EmptySet DEF NoReading
  <2> QED
    BY <2>1, <2>3 DEF ReadingHolds
<1> QED
  BY <1>1, <1>2, <1>3, <1>4, NotebookAssumption DEF NotebookInit, NotebookInv, NotebookShape

LEMMA NotebookKept ==
  ASSUME NotebookInv, [NotebookNext]_notebookVars
  PROVE  NotebookInv'
<1>1. CASE UNCHANGED notebookVars
  BY <1>1 DEF notebookVars, NotebookInv, NotebookShape
<1>2. CASE \E c \in Notes :
       \/ \E request \in Requests : StartFinding(c, request)
       \/ FetchFile(c) \/ LocateBook(c) \/ InsertFinding(c)
       \/ StartClear(c) \/ ClearFindings(c)
       \/ StartRead(c) \/ VerifyRead(c) \/ CollectFindings(c)
  BY <1>2, StartFindingKeeps, FetchFileKeeps, LocateBookKeeps, InsertFindingKeeps,
     StartClearKeeps, ClearFindingsKeeps, StartReadKeeps, VerifyReadKeeps, CollectFindingsKeeps
<1>3. CASE \E path \in NotedFiles, content \in {NotIndexed} \cup Contents : PublishFile(path, content)
  BY <1>3, PublishFileKeeps
<1>4. CASE SwitchOff \/ SwitchOn \/ \E t \in 1..MaxTime : SetClock(t)
  BY <1>4, SwitchesKeep
<1> QED
  BY <1>1, <1>2, <1>3, <1>4 DEF NotebookNext

-----------------------------------------------------------------------------
\* The invariant holds of every number of calls, files, sessions and entries.
THEOREM NotebookHolds == NotebookSpec => []NotebookInv
<1> QED
  BY NotebookStarts, NotebookKept, PTL DEF NotebookSpec

LEMMA SoundFromInv ==
  ASSUME NotebookInv
  PROVE  FindingsAreSound
<1>1. NotebookTypeOK
  <2>1. \A c \in Notes : notes[c] \in NoteStates
    BY DEF NotebookInv, NotebookShape
  <2>2. \A c \in Notes :
          notes[c].at \in {"free", "fetch", "locate", "write", "clear", "verify", "collect"}
    BY <2>1, NoteFields
  <2> QED
    BY <2>2 DEF NotebookTypeOK, NotebookInv, NotebookShape, BookHolds
<1>2. \A s \in DOMAIN books : BookHolds(books[s], history)
  BY DEF NotebookInv, NotebookShape
<1> QED
  BY <1>1, <1>2
  DEF FindingsAreSound, NotebookInv, ReadingHolds, BookHolds, EntryHolds, InOrder, IsCurrent

\* What the model concluded stays tied to the content it was shown: every entry
\* names a revision in which its file had its hash and lines of that content,
\* nothing is said twice of one content, entries are in the order of their
\* times, and finding_read calls current exactly what is (finding.rs,
\* finding_insert.rs, finding_read_rows.rs).
THEOREM FindingsHold == NotebookSpec => []FindingsAreSound
<1> QED
  BY NotebookHolds, SoundFromInv, PTL
=============================================================================
