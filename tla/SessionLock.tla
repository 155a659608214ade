---------------------------- MODULE SessionLock ----------------------------
(***************************************************************************)
(* Session locks (the variable session_locks): several copies of the       *)
(* program that share a configuration directory, one account, and the      *)
(* system calls of "/session --lock" and "/session --unlock"               *)
(* (ekg/sessions.c).  The copies are processes: between two calls of one   *)
(* any call of another may come.  A lock file is an inode the path leads   *)
(* to; an inode outlives its name as long as a copy has it open.           *)
(***************************************************************************)

CONSTANTS
  Copies,      \* running copies of the program
  Inodes,      \* what open() can create; a bound, but an inode is free again
               \* once it has no name and nobody has it open
  Modes,       \* the settings of session_locks considered, see mode
  None         \* "no copy", "no file"

ASSUME CopiesAssumption == None \notin Copies
ASSUME InodesAssumption == None \notin Inodes
ASSUME ModesAssumption == Modes \subseteq {"flock", "file"}

VARIABLES
  mode,     \* session_locks: 1, "flock": flock() on the file;
            \* 2, "file": the existence of the file is the lock
  path,     \* the inode <uid>-lock leads to, or None
  holder,   \* per inode: the copy that holds its flock, or None
  fd,       \* per copy: the inode it has open for the lock (s->lock_fd)
  pc,       \* per copy: where it is in its use of the session
  bare,     \* history: the copies that use it without having locked it
  trespass  \* history: one of those has unlinked the lock file

lockVars == <<mode, path, holder, fd, pc, bare, trespass>>

(***************************************************************************)
(* "idle"; "opened", between open() and flock(); "using", connecting or    *)
(* connected; "released", between flock(LOCK_UN), close() and unlink().    *)
(***************************************************************************)
LockTypeOK ==
  /\ mode \in Modes
  /\ path \in Inodes \cup {None}
  /\ holder \in [Inodes -> Copies \cup {None}]
  /\ fd \in [Copies -> Inodes \cup {None}]
  /\ pc \in [Copies -> {"idle", "opened", "using", "released"}]
  /\ bare \subseteq Copies /\ trespass \in BOOLEAN

-----------------------------------------------------------------------------
\* no name leads to the inode and no copy has it open
Free(ino) == path # ino /\ \A c \in Copies : fd[c] # ino

\* open() with O_CREAT: the file there is, or a new one
Opened(ino) == IF path = None THEN Free(ino) ELSE path = ino

\* session_locks = 1: open() without O_EXCL, the lock is still to be taken
OpenForFlock(c, ino) ==
  /\ mode = "flock" /\ pc[c] = "idle"
  /\ Opened(ino)
  /\ path' = ino
  /\ fd' = [fd EXCEPT ![c] = ino]
  /\ pc' = [pc EXCEPT ![c] = "opened"]
  /\ UNCHANGED <<mode, holder, bare, trespass>>

\* flock(LOCK_EX | LOCK_NB); if another copy holds it the file is closed
Flock(c) ==
  /\ pc[c] = "opened"
  /\ IF holder[fd[c]] = None
     THEN /\ holder' = [holder EXCEPT ![fd[c]] = c]
          /\ pc' = [pc EXCEPT ![c] = "using"]
          /\ UNCHANGED fd
     ELSE /\ fd' = [fd EXCEPT ![c] = None]
          /\ pc' = [pc EXCEPT ![c] = "idle"]
          /\ UNCHANGED holder
  /\ UNCHANGED <<mode, path, bare, trespass>>

OpenWithoutExcl(c, ino) ==        \* mutant: O_EXCL forgotten
  /\ mode = "file" /\ pc[c] = "idle"
  /\ Opened(ino)
  /\ path' = ino
  /\ pc' = [pc EXCEPT ![c] = "using"]
  /\ UNCHANGED <<mode, holder, fd, bare, trespass>>
\* session_locks = 2: open() with O_EXCL succeeds only if there is no file,
\* and the descriptor is closed at once
OpenExclusive(c, ino) ==
  /\ mode = "file" /\ pc[c] = "idle"
  /\ path = None /\ Opened(ino)
  /\ path' = ino
  /\ pc' = [pc EXCEPT ![c] = "using"]
  /\ UNCHANGED <<mode, holder, fd, bare, trespass>>

(***************************************************************************)
(* "/session --lock" fails open: without a path, or when open() or flock() *)
(* fails for another reason than a lock (no permission, no room, no locks, *)
(* a FIFO without a reader), it returns 0, and the session is used without *)
(* a lock.  That of flock() closes the file it had opened.                 *)
(***************************************************************************)
LockFails(c) ==
  /\ pc[c] \in {"idle", "opened"}
  /\ fd' = [fd EXCEPT ![c] = None]
  /\ pc' = [pc EXCEPT ![c] = "using"]
  /\ bare' = bare \cup {c}
  /\ UNCHANGED <<mode, path, holder, trespass>>

-----------------------------------------------------------------------------
\* no inode is locked by c any more
Unlocked(c) == [i \in Inodes |-> IF holder[i] = c THEN None ELSE holder[i]]

(***************************************************************************)
(* protocol_disconnected(): the session is no longer used, and             *)
(* "/session --unlock" starts with flock(LOCK_UN) and close() ...          *)
(***************************************************************************)
ReleaseKeepsFd(c) ==              \* mutant: neither unlocked nor closed
  /\ pc[c] = "using"
  /\ pc' = [pc EXCEPT ![c] = "released"]
  /\ UNCHANGED <<mode, path, holder, fd, bare, trespass>>
Release(c) ==
  /\ pc[c] = "using"
  /\ holder' = Unlocked(c)
  /\ fd' = [fd EXCEPT ![c] = None]
  /\ pc' = [pc EXCEPT ![c] = "released"]
  /\ UNCHANGED <<mode, path, bare, trespass>>

\* ... and ends with unlink(), whatever file the path leads to by then
Unlink(c) ==
  /\ pc[c] = "released"
  /\ path' = None
  /\ pc' = [pc EXCEPT ![c] = "idle"]
  /\ bare' = bare \ {c} /\ trespass' = (trespass \/ c \in bare)
  /\ UNCHANGED <<mode, holder, fd>>

\* the process dies: the kernel drops its flock, the lock file stays
Die(c) ==
  /\ pc[c] # "idle"
  /\ holder' = Unlocked(c)
  /\ fd' = [fd EXCEPT ![c] = None]
  /\ pc' = [pc EXCEPT ![c] = "idle"]
  /\ bare' = bare \ {c}
  /\ UNCHANGED <<mode, path, trespass>>

(***************************************************************************)
(* The user types /session --unlock as the message session_locked tells    *)
(* them to, that is, when no other copy uses the session.                  *)
(***************************************************************************)
UserUnlock ==
  /\ path # None
  /\ \A c \in Copies : pc[c] = "idle"
  /\ path' = None
  /\ UNCHANGED <<mode, holder, fd, pc, bare, trespass>>

-----------------------------------------------------------------------------
LockInit ==
  /\ mode \in Modes
  /\ path = None
  /\ holder = [i \in Inodes |-> None]
  /\ fd = [c \in Copies |-> None]
  /\ pc = [c \in Copies |-> "idle"]
  /\ bare = {} /\ trespass = FALSE

LockNext ==
  \/ \E c \in Copies :
       \/ \E ino \in Inodes : OpenForFlock(c, ino) \/ OpenExclusive(c, ino)
       \/ Flock(c) \/ LockFails(c) \/ Release(c) \/ Unlink(c) \/ Die(c)
  \/ UserUnlock

LockSpec == LockInit /\ [][LockNext]_lockVars

-----------------------------------------------------------------------------
(***************************************************************************)
(* No two copies use the session at the same time, which is what the locks *)
(* are for (docs/vars-en.txt, session_locks).                              *)
(***************************************************************************)
MutualExclusion ==
  \A c, d \in Copies : pc[c] = "using" /\ pc[d] = "using" => c = d

(***************************************************************************)
(* With session_locks = 2 the copies that could lock the session exclude   *)
(* each other, and the unlink() that ends the use of one never takes away  *)
(* the file another one made since: O_EXCL against the name that is        *)
(* unlinked (open() in "/session --lock", unlink() in "/session            *)
(* --unlock").  A copy whose lock failed open is kept out by nobody, but   *)
(* does the others no harm until its own --unlock removes their file.      *)
(***************************************************************************)
FileExcludes ==
  mode = "file" /\ ~trespass =>
    \A c \in Copies \ bare :
      pc[c] \in {"using", "released"} =>
        path # None /\ \A d \in Copies \ (bare \cup {c}) : pc[d] = "idle"

(***************************************************************************)
(* With flock(), a copy that uses the session holds the flock of the inode *)
(* it opened, unless its lock failed open, and nobody else holds a flock   *)
(* at all: a copy that released the session, died or goes without a lock   *)
(* never keeps another one out, whatever happened to the file (s->lock_fd  *)
(* in /session --lock and --unlock).                                       *)
(***************************************************************************)
FlockIffUsing ==
  mode = "flock" =>
    /\ \A c \in Copies \ bare :
         pc[c] = "using" => fd[c] # None /\ holder[fd[c]] = c
    /\ \A i \in Inodes : holder[i] # None =>
         /\ pc[holder[i]] = "using" /\ fd[holder[i]] = i
         /\ holder[i] \notin bare
=============================================================================
