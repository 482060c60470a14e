----------------------------- MODULE Persistence -----------------------------
(* The tunnel cache file protocol of tunnel.c: tunnel_file_write moves the *)
(* file to its backup, writes a temporary file and renames it over the     *)
(* file, all under tunnels_lock; tunnel_file_read at start-up reads the    *)
(* file, or the backup when the file cannot be opened. The process may     *)
(* crash between any two file-system calls and start again.                *)
(*                                                                         *)
(* A file's contents are abstracted to the set of URLs the parser of       *)
(* tunnel_file_read recovers from it; the cache to the URLs of its records *)
(* with a non-zero age, the ones tunnel_file_write prints.                 *)
EXTENDS Naturals, FiniteSets

CONSTANTS
  Recs,        \* URLs of cached tunnels
  Absent,      \* a file that does not exist
  Windows,     \* TRUE for the WINDOWS build (the #ifdef remove() calls)
  MaxChanges   \* bound on the cache changes of one run of the process

Files == {"file", "bak", "tmp"}   \* TUNNELS_FILENAME, its .bak and .tmp

VARIABLES
  disk,     \* disk[f]: the contents of file f, or Absent
  cache,    \* URLs of tunnels_cache with age # 0 (lost on a crash)
  alive,    \* whether the process runs
  lock,     \* tunnels_lock: "free", "held" or "leaked" (never unlocked)
  pc,       \* where tunnel_file_write is: "idle" or the next call it makes
  changes   \* cache changes since start-up (bounded by MaxChanges)

vars == <<disk, cache, alive, lock, pc, changes>>

Contents == {c : c \in SUBSET Recs}   \* what a file holds: a set of URLs

TypeOK ==
  /\ disk \in [Files -> Contents \cup {Absent}]
  /\ cache \in Contents
  /\ alive \in BOOLEAN
  /\ lock \in {"free", "held", "leaked"}
  /\ pc \in {"idle", "backup", "open", "print", "remove", "replace"}
  /\ changes \in 0..MaxChanges

\* rename(from, to): fails, changing nothing, when from does not exist.
Rename(from, to) ==
  IF disk[from] = Absent THEN disk
  ELSE [disk EXCEPT ![to] = disk[from], ![from] = Absent]

\* The file tunnel_file_read parses: TUNNELS_FILENAME if fopen opens it,
\* else the backup, else none (it returns, leaving the cache empty).
Readable ==
  IF disk["file"] # Absent THEN disk["file"]
  ELSE IF disk["bak"] # Absent THEN disk["bak"]
  ELSE {}

\* The cache file may be left by an earlier installation or run; the
\* process is not yet started.
Init ==
  /\ disk \in [Files -> {Absent}] \cup
              {[f \in Files |-> IF f = "file" THEN c ELSE Absent] : c \in Contents}
  /\ cache = {}
  /\ alive = FALSE
  /\ lock = "free"
  /\ pc = "idle"
  /\ changes = 0

\* Start-up that takes the backup without checking that fopen opened it.
FileReadNoFallback ==
  /\ ~alive
  /\ alive' = TRUE
  /\ cache' = IF disk["file"] # Absent THEN disk["file"] ELSE disk["bak"]
  /\ changes' = 0
  /\ UNCHANGED <<disk, lock, pc>>

(* Start-up: tunnel_file_read inserts every record it parses into the     *)
(* empty tunnels_cache.                                                    *)
FileRead ==
  /\ ~alive
  /\ alive' = TRUE
  /\ cache' = Readable
  /\ changes' = 0
  /\ UNCHANGED <<disk, lock, pc>>

(* The locked region of tunnel_add, tunnel_delete or tunnel_activate that  *)
(* changes the cache: a record added, removed, or its age set or dropped  *)
(* to zero. Each is followed by a tunnel_file_write.                       *)
CacheChange ==
  /\ alive /\ lock = "free" /\ pc = "idle"
  /\ changes < MaxChanges
  /\ cache' \in Contents \ {cache}
  /\ changes' = changes + 1
  /\ UNCHANGED <<disk, alive, lock, pc>>

(* tunnel_file_write, one file-system call per step. It takes the lock   *)
(* and, in the WINDOWS build, removes the backup.                         *)
WriteBegin ==
  /\ alive /\ lock = "free" /\ pc = "idle"
  /\ lock' = "held"
  /\ disk' = IF Windows THEN [disk EXCEPT !["bak"] = Absent] ELSE disk
  /\ pc' = "backup"
  /\ UNCHANGED <<cache, alive, changes>>

\* rename(TUNNELS_FILENAME, TUNNELS_BAK_FILENAME); a failure only warns.
WriteBackup ==
  /\ alive /\ pc = "backup"
  /\ disk' = Rename("file", "bak")
  /\ pc' = "open"
  /\ UNCHANGED <<cache, alive, lock, changes>>

\* fopen(TUNNELS_FILENAME, "w"), the name the warning prints, in place of
\* the temporary file.
WriteOpenInPlace ==
  /\ alive /\ pc = "open"
  /\ \/ /\ disk' = [disk EXCEPT !["file"] = {}]
        /\ pc' = "print"
        /\ UNCHANGED lock
     \/ /\ lock' = "leaked"
        /\ pc' = "idle"
        /\ UNCHANGED disk
  /\ UNCHANGED <<cache, alive, changes>>

(* fopen(TUNNELS_TMP_FILENAME, "w") creates or truncates the temporary     *)
(* file. When it fails the function returns without unlocking.            *)
WriteOpen ==
  /\ alive /\ pc = "open"
  /\ \/ /\ disk' = [disk EXCEPT !["tmp"] = {}]
        /\ pc' = "print"
        /\ UNCHANGED lock
     \/ /\ lock' = "leaked"
        /\ pc' = "idle"
        /\ UNCHANGED disk
  /\ UNCHANGED <<cache, alive, changes>>

\* The header and a line for each cache record of non-zero age, then fclose.
WritePrint ==
  /\ alive /\ pc = "print"
  /\ disk' = [disk EXCEPT !["tmp"] = cache]
  /\ pc' = "remove"
  /\ UNCHANGED <<cache, alive, lock, changes>>

\* remove(TUNNELS_FILENAME) in the WINDOWS build; nothing in the others.
WriteRemove ==
  /\ alive /\ pc = "remove"
  /\ disk' = IF Windows THEN [disk EXCEPT !["file"] = Absent] ELSE disk
  /\ pc' = "replace"
  /\ UNCHANGED <<cache, alive, lock, changes>>

\* rename(TUNNELS_TMP_FILENAME, TUNNELS_FILENAME), then the unlock.
WriteReplace ==
  /\ alive /\ pc = "replace"
  /\ disk' = Rename("tmp", "file")
  /\ lock' = "free"
  /\ pc' = "idle"
  /\ UNCHANGED <<cache, alive, changes>>

\* The process dies; the files stay as they are, the lock and memory go.
Crash ==
  /\ alive
  /\ alive' = FALSE
  /\ cache' = {}
  /\ lock' = "free"
  /\ pc' = "idle"
  /\ UNCHANGED <<disk, changes>>

Next ==
  \/ FileRead
  \/ CacheChange
  \/ WriteBegin
  \/ WriteBackup
  \/ WriteOpen
  \/ WritePrint
  \/ WriteRemove
  \/ WriteReplace
  \/ Crash

Spec == Init /\ [][Next]_vars

(* The thread in tunnel_file_write is scheduled like any other: once it   *)
(* has taken the lock, each of its next calls is weakly fair. Start-up,   *)
(* cache changes and crashes are the environment and get no fairness.     *)
FairSpec ==
  /\ Spec
  /\ WF_vars(WriteBackup)
  /\ WF_vars(WriteOpen)
  /\ WF_vars(WritePrint)
  /\ WF_vars(WriteRemove)
  /\ WF_vars(WriteReplace)

(* The cache file behaves as one atomic file: whatever the crashes, what  *)
(* tunnel_file_read would load is the cache of the last completed write   *)
(* (spec 8.6: after a crash between the temporary write and the final     *)
(* rename, start-up reads the backup, which holds the pre-write state).   *)
Abstract == INSTANCE AtomicFile WITH mem <- cache, durable <- Readable, up <- alive

AtomicFileRefined == Abstract!Spec

(* tunnel_file_write releases tunnels_lock on every path: once a write    *)
(* has taken the lock, the lock is free again unless the process dies     *)
(* first (spec 7: every partial completion leaves the lock consistent).   *)
WriteReleasesLock == lock = "held" ~> (lock = "free" \/ ~alive)
=============================================================================
