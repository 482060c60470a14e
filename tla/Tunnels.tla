------------------------------- MODULE Tunnels -------------------------------
(***************************************************************************)
(* The tunnel manager core of src/src/tunnel.c: the cache and active       *)
(* tunnel sets, the per-tunnel lifecycle state machine, the activate       *)
(* manager and activate tasks, the reconnect manager and reconnect tasks,  *)
(* tunnel_add / tunnel_delete, and the cache-file writes that follow them. *)
(*                                                                         *)
(* Every region the code runs holding tunnels_lock is one atomic step.     *)
(* The parts that run unlocked are steps of their own: each attempt of     *)
(* tunnel_try_activate (the state read and the cktp_open_tunnel call), the *)
(* activate manager's unlocked re-check of the active length, the log line *)
(* a reconnect task prints after unlocking, and every tunnel_file_write,   *)
(* which takes the lock again after the handler has released it.          *)
(*                                                                         *)
(* A tunnel_t is a record of the finite pool Recs; mem[r] tells whether it *)
(* has been malloc'ed and whether it has been freed, so that a pointer to  *)
(* freed memory left in a set or held by a thread is a visible state.      *)
(***************************************************************************)
EXTENDS Integers, Sequences, SequencesExt, FiniteSets

CONSTANTS
  Urls,          \* tunnel URLs (model values)
  InitUrls,      \* the URLs of the cache file read at start-up
  Recs,          \* the pool of tunnel_t records that may be allocated
  NoUrl,         \* the url field of a record never allocated
  NoRec,         \* the NULL tunnel_t
  MaxInitOpen,   \* MAX_INIT_OPEN (8 in the code)
  MaxRetries,    \* MAX_RETRIES (3 in the code)
  InitAge,       \* TUNNEL_INIT_AGE (16 in the code)
  SizeMod,       \* 2^64, the modulus of size_t arithmetic (any value above
                 \* the number of tunnels behaves the same)
  MaxWrites,     \* bound on tunnel_file_write calls pending at once
  FopenFails     \* whether fopen of the temporary cache file may fail

ASSUME /\ InitUrls \subseteq Urls
       /\ Cardinality(InitUrls) <= Cardinality(Recs)
       /\ MaxInitOpen \in Nat /\ MaxRetries \in Nat \ {0}
       /\ InitAge \in 1..255
       /\ SizeMod > Cardinality(Recs) + MaxInitOpen + 1
       /\ MaxWrites \in Nat \ {0}
       /\ FopenFails \in BOOLEAN

\* TUNNEL_STATE_* (tunnel.c:43-48)
CLOSED   == "CLOSED"
OPENING  == "OPENING"
OPEN     == "OPEN"
DEAD     == "DEAD"
CLOSING  == "CLOSING"
DELETING == "DELETING"
States == {CLOSED, OPENING, OPEN, DEAD, CLOSING, DELETING}

VARIABLES
  rec,        \* rec[r]: the fields of struct tunnel_s, and mem: the heap status
  cache,      \* tunnels_cache as the sequence of its pointers
  active,     \* tunnels_active as the sequence of its pointers
  pc,         \* pc[r]: where the thread driving record r is ("idle": none)
  owner,      \* owner[r]: "activate" (tunnel_activate) or "reconnect"
  retries,    \* retries[r]: the local 'retries' of tunnel_try_activate
  result,     \* result[r]: the value tunnel_try_activate returned
  logging,    \* records a reconnect thread still reads after unlocking
  mgr,        \* the activate manager thread: "scan", "check" or "done"
  admin,      \* the administrative caller: "idle" or "write" (file write due)
  writes,     \* activate tasks that still have to call tunnel_file_write
  file,       \* the tunnel cache file: a sequence of <<url, age>>
  clash,      \* ghost: a thread was started on a record another one drives
  lock        \* tunnels_lock between the locked regions: "free", or
              \* "leaked" once a tunnel_file_write returned holding it

vars == <<rec, cache, active, pc, owner, retries, result, logging, mgr,
          admin, writes, file, clash, lock>>

Record == [url: Urls \cup {NoUrl}, state: States, age: 0..255,
           reconnect: BOOLEAN, drv: BOOLEAN,
           mem: {"unalloc", "live", "freed"}]

Unallocated == [url |-> NoUrl, state |-> CLOSED, age |-> 0,
                reconnect |-> FALSE, drv |-> FALSE, mem |-> "unalloc"]

\* A freed record: its fields are garbage no step reads (driver closed).
Freed == [Unallocated EXCEPT !.mem = "freed"]

-----------------------------------------------------------------------------
(* Tunnel sets (tunnel_set_insert/replace/delete/lookup). Insert is Append,*)
(* replace is ReplaceAt and delete is RemoveAt at the index Lookup finds.  *)

\* tunnel_set_lookup: the first index whose URL is u, 0 when there is none.
Lookup(s, u) == SelectInSeq(s, LAMBDA r: rec[r].url = u)

\* The record a lookup finds, NoRec when none: what tunnel_set_replace and
\* tunnel_set_delete return.
Found(s, i) == IF i = 0 THEN NoRec ELSE s[i]

\* tunnel_create: the record with its fields initialised, state CLOSED.
Create(u, a) == [url |-> u, state |-> CLOSED, age |-> a, reconnect |-> FALSE,
                 drv |-> FALSE, mem |-> "live"]

\* The record malloc returns: the first one of the pool never allocated.
FreeRecs == {r \in Recs : rec[r].mem = "unalloc"}
NewRec == Min(FreeRecs)

\* tunnel_free applied to the records rs: an OPENING tunnel is only marked
\* DELETING (its activate task finishes it), a DELETING one is left alone,
\* any other has its driver closed and its memory freed.
Free(rs, r) ==
  IF r = NoRec THEN rs
  ELSE CASE rs[r].state = OPENING  -> [rs EXCEPT ![r].state = DELETING]
         [] rs[r].state = DELETING -> rs
         [] OTHER -> [rs EXCEPT ![r] = Freed]

\* The cache file tunnel_file_write writes: <<url, age>> for each cached
\* tunnel whose age is not 0, in the order of the cache.
Persisted(rs, s) ==
  LET kept == SelectSeq(s, LAMBDA r: rs[r].age # 0)
  IN [i \in 1..Len(kept) |-> <<rs[kept[i]].url, rs[kept[i]].age>>]

\* A thread driving r ends: its locals die with it.
Finish(r) ==
  /\ pc' = [pc EXCEPT ![r] = "idle"]
  /\ retries' = [retries EXCEPT ![r] = MaxRetries]
  /\ result' = [result EXCEPT ![r] = FALSE]

\* Starting a thread (tunnel_activate or tunnel_reconnect) on record r.
Start(r, who) ==
  /\ pc' = [pc EXCEPT ![r] = "loop"]
  /\ owner' = [owner EXCEPT ![r] = who]
  /\ retries' = [retries EXCEPT ![r] = MaxRetries]
  /\ clash' = (clash \/ pc[r] # "idle")

-----------------------------------------------------------------------------
(* Start-up: tunnel_init, tunnel_file_read of a file listing InitUrls with *)
(* age InitAge, then tunnel_open starting both managers.                   *)

InitRecs == SetToSeq(InitUrls)

Init ==
  /\ rec = [r \in Recs |->
              IF r \in 1..Len(InitRecs) THEN Create(InitRecs[r], InitAge)
              ELSE Unallocated]
  /\ cache = [i \in 1..Len(InitRecs) |-> i]
  /\ active = <<>>
  /\ pc = [r \in Recs |-> "idle"]
  /\ owner = [r \in Recs |-> "activate"]
  /\ retries = [r \in Recs |-> MaxRetries]
  /\ result = [r \in Recs |-> FALSE]
  /\ logging = {}
  /\ mgr = "scan"
  /\ admin = "idle"
  /\ writes = 0
  /\ file = [i \in 1..Len(InitRecs) |-> <<InitRecs[i], InitAge>>]
  /\ clash = FALSE
  /\ lock = "free"

-----------------------------------------------------------------------------
\* Mutant: tunnel_add without the tunnel_set_lookup, creating a new record
\* for a URL already cached.
AddUrlNoLookup(u) ==
  LET r == NewRec
  IN /\ admin = "idle" /\ lock = "free" /\ FreeRecs # {}
     /\ rec' = [rec EXCEPT ![r] = [Create(u, InitAge) EXCEPT !.state = OPENING]]
     /\ cache' = Append(cache, r)
     /\ Start(r, "activate")
     /\ admin' = "write"
     /\ UNCHANGED <<active, result, logging, mgr, writes, file, lock>>

\* Mutant: tunnel_add refusing only OPEN tunnels, not OPENING ones.
AddUrlRefusesOnlyOpen(u) ==
  LET i == Lookup(cache, u)
      r == IF i = 0 THEN NewRec ELSE cache[i]
  IN /\ admin = "idle" /\ lock = "free"
     /\ i = 0 => FreeRecs # {}
     /\ i # 0 => rec[r].state # OPEN
     /\ rec' = [rec EXCEPT ![r] = [(IF i = 0 THEN Create(u, InitAge) ELSE @)
                                     EXCEPT !.state = OPENING]]
     /\ cache' = IF i = 0 THEN Append(cache, r) ELSE cache
     /\ Start(r, "activate")
     /\ admin' = "write"
     /\ UNCHANGED <<active, result, logging, mgr, writes, file, lock>>

(* tunnel_add(u), the locked part: a URL not cached gets a new record;     *)
(* one OPEN or OPENING is refused (a no-op, left out); otherwise the       *)
(* record is set OPENING and an activate thread is started on it. The      *)
(* tunnel_file_write that ends tunnel_add is the step AdminWrite.          *)
AddUrl(u) ==
  LET i == Lookup(cache, u)
      r == IF i = 0 THEN NewRec ELSE cache[i]
  IN /\ admin = "idle" /\ lock = "free"
     /\ i = 0 => FreeRecs # {}
     /\ i # 0 => rec[r].state \notin {OPEN, OPENING}
     /\ rec' = [rec EXCEPT ![r] = [(IF i = 0 THEN Create(u, InitAge) ELSE @)
                                     EXCEPT !.state = OPENING]]
     /\ cache' = IF i = 0 THEN Append(cache, r) ELSE cache
     /\ Start(r, "activate")
     /\ admin' = "write"
     /\ UNCHANGED <<active, result, logging, mgr, writes, file, lock>>

\* Mutant: tunnel_delete using tunnel_set_lookup on the active set, so the
\* deactivated tunnel stays in it.
DeleteUrlKeepsActive(u) ==
  LET ia == Lookup(active, u)
      ic == Lookup(cache, u)
      r  == active[ia]
  IN /\ admin = "idle" /\ lock = "free"
     /\ \/ /\ ia = 0
           /\ cache' = IF ic = 0 THEN cache ELSE RemoveAt(cache, ic)
           /\ rec' = Free(rec, Found(cache, ic))
        \/ /\ ia # 0
           /\ rec[r].state \in {OPENING, CLOSING, OPEN}
           /\ rec' = CASE rec[r].state = OPENING ->
                            [rec EXCEPT ![r].state = CLOSING]
                       [] rec[r].state = CLOSING -> rec
                       [] rec[r].state = OPEN ->
                            [rec EXCEPT ![r].drv = FALSE, ![r].state = CLOSED]
           /\ UNCHANGED cache
     /\ admin' = "write"
     /\ UNCHANGED <<active, pc, owner, retries, result, logging, mgr, writes,
                    file, clash, lock>>

(* tunnel_delete(u), the locked part: a tunnel found in the active set is  *)
(* removed from it and deactivated by its state; otherwise one found in    *)
(* the cache is removed from it and freed. Both end with a file write.     *)
DeleteUrl(u) ==
  LET ia == Lookup(active, u)
      ic == Lookup(cache, u)
      r  == active[ia]
  IN /\ admin = "idle" /\ lock = "free"
     /\ \/ /\ ia = 0
           /\ cache' = IF ic = 0 THEN cache ELSE RemoveAt(cache, ic)
           /\ rec' = Free(rec, Found(cache, ic))
           /\ UNCHANGED active
        \/ /\ ia # 0
           /\ active' = RemoveAt(active, ia)
           /\ rec[r].state \in {OPENING, CLOSING, OPEN}   \* else panic()
           /\ rec' = CASE rec[r].state = OPENING ->
                            [rec EXCEPT ![r].state = CLOSING]
                       [] rec[r].state = CLOSING -> rec
                       [] rec[r].state = OPEN ->
                            [rec EXCEPT ![r].drv = FALSE, ![r].state = CLOSED]
           /\ UNCHANGED cache
     /\ admin' = "write"
     /\ UNCHANGED <<pc, owner, retries, result, logging, mgr, writes, file,
                    clash, lock>>

(* tunnel_file_write, from the lock to the unlock: the file is replaced   *)
(* by the cache (Persistence shows the rename protocol does this as one   *)
(* atomic write); when fopen of the temporary file fails the function     *)
(* returns without unlocking and tunnels_lock is never free again.        *)
WriteFile ==
  \/ /\ file' = Persisted(rec, cache)
     /\ UNCHANGED lock
  \/ /\ FopenFails
     /\ lock' = "leaked"
     /\ UNCHANGED file

\* tunnel_file_write called by the administrative caller.
AdminWrite ==
  /\ admin = "write" /\ lock = "free"
  /\ WriteFile
  /\ admin' = "idle"
  /\ UNCHANGED <<rec, cache, active, pc, owner, retries, result, logging,
                 mgr, writes, clash>>

-----------------------------------------------------------------------------
(* tunnel_activate_manager. A round, under the lock, marks OPENING up to   *)
(* max = MAX_INIT_OPEN - |active| + 1 (size_t) CLOSED cached tunnels in    *)
(* cache order and starts an activate thread on each; the thread ends if   *)
(* it found max of them, else it sleeps and re-reads |active| unlocked.    *)
ManagerScan ==
  LET max    == (MaxInitOpen - Len(active) + 1) % SizeMod
      closed == SelectSeq(cache, LAMBDA r: rec[r].state = CLOSED)
      picked == ToSet(SubSeq(closed, 1, Min({max, Len(closed)})))
  IN /\ mgr = "scan" /\ lock = "free"
     /\ rec' = [r \in Recs |->
                  IF r \in picked THEN [rec[r] EXCEPT !.state = OPENING]
                  ELSE rec[r]]
     /\ pc' = [r \in Recs |-> IF r \in picked THEN "loop" ELSE pc[r]]
     /\ owner' = [r \in Recs |-> IF r \in picked THEN "activate" ELSE owner[r]]
     /\ retries' = [r \in Recs |->
                      IF r \in picked THEN MaxRetries ELSE retries[r]]
     /\ clash' = (clash \/ \E r \in picked : pc[r] # "idle")
     /\ mgr' = IF Cardinality(picked) = max THEN "done" ELSE "check"
     /\ UNCHANGED <<cache, active, result, logging, admin, writes, file, lock>>

\* The do-while condition, read after the sleep without the lock.
ManagerCheck ==
  /\ mgr = "check"
  /\ mgr' = IF Len(active) < MaxInitOpen THEN "scan" ELSE "done"
  /\ UNCHANGED <<rec, cache, active, pc, owner, retries, result, logging,
                 admin, writes, file, clash, lock>>

-----------------------------------------------------------------------------
(* tunnel_try_activate on record r, run unlocked by the activate or the    *)
(* reconnect thread that drives r. TryLoop is the while condition; TryOpen *)
(* is one cktp_open_tunnel call, whose handle is stored in the record, and *)
(* the checks after it: another state means "break" (return true), the    *)
(* last failed attempt returns false, other failures retry after a sleep.  *)
TryLoop(r) ==
  /\ pc[r] = "loop"
  /\ retries[r] = MaxRetries => lock = "free"   \* the stagger lock on entry
  /\ IF rec[r].state = OPENING
       THEN pc' = [pc EXCEPT ![r] = "open"] /\ UNCHANGED result
       ELSE /\ pc' = [pc EXCEPT ![r] = "fin"]
            /\ result' = [result EXCEPT ![r] = TRUE]
  /\ UNCHANGED <<rec, cache, active, owner, retries, logging, mgr, admin,
                 writes, file, clash, lock>>

\* Mutant: tunnel_try_activate that never counts its retries down.
TryOpenNoCountdown(r) ==
  /\ pc[r] = "open"
  /\ \E ok \in BOOLEAN :
       /\ rec' = [rec EXCEPT ![r].drv = ok]
       /\ IF ok \/ rec[r].state # OPENING
            THEN /\ pc' = [pc EXCEPT ![r] = "fin"]
                 /\ result' = [result EXCEPT ![r] = TRUE]
            ELSE /\ pc' = [pc EXCEPT ![r] = "loop"]
                 /\ UNCHANGED result
  /\ UNCHANGED <<cache, active, owner, retries, logging, mgr, admin, writes,
                 file, clash, lock>>

\* Mutant: tunnel_try_activate testing retries == 0 before the decrement
\* (off by one), so one more attempt is made with the count at zero.
TryOpenCheckBeforeCountdown(r) ==
  /\ pc[r] = "open"
  /\ \E ok \in BOOLEAN :
       /\ rec' = [rec EXCEPT ![r].drv = ok]
       /\ IF ok \/ rec[r].state # OPENING \/ retries[r] = 0
            THEN /\ pc' = [pc EXCEPT ![r] = "fin"]
                 /\ result' = [result EXCEPT ![r] =
                                 ok \/ rec[r].state # OPENING]
                 /\ UNCHANGED retries
            ELSE /\ pc' = [pc EXCEPT ![r] = "loop"]
                 /\ retries' = [retries EXCEPT ![r] = @ - 1]
                 /\ UNCHANGED result
  /\ UNCHANGED <<cache, active, owner, logging, mgr, admin, writes, file,
                 clash, lock>>

TryOpen(r) ==
  /\ pc[r] = "open"
  /\ \E ok \in BOOLEAN :
       /\ rec' = [rec EXCEPT ![r].drv = ok]
       /\ IF ok \/ rec[r].state # OPENING \/ retries[r] = 1
            THEN /\ pc' = [pc EXCEPT ![r] = "fin"]
                 /\ result' = [result EXCEPT ![r] =
                                 ok \/ rec[r].state # OPENING]
                 /\ UNCHANGED retries
            ELSE /\ pc' = [pc EXCEPT ![r] = "loop"]
                 /\ retries' = [retries EXCEPT ![r] = @ - 1]
                 /\ UNCHANGED result
  /\ UNCHANGED <<cache, active, owner, logging, mgr, admin, writes, file,
                 clash, lock>>

-----------------------------------------------------------------------------
\* Mutant: tunnel_activate handling a DELETING tunnel like a successfully
\* opened one (missing case), so a deleted tunnel becomes active.
ActivateFinishDeletingOpens(r) ==
  LET t == rec[r]
      opened == t.state = DELETING \/ (t.state = OPENING /\ result[r])
  IN /\ pc[r] = "fin" /\ owner[r] = "activate" /\ lock = "free"
     /\ writes < MaxWrites
     /\ t.state \in {DELETING, CLOSING, OPENING}
     /\ rec' = CASE opened ->
                      [rec EXCEPT ![r].state = OPEN, ![r].age = InitAge]
                 [] t.state = CLOSING ->
                      [rec EXCEPT ![r].state = CLOSED, ![r].drv = FALSE]
                 [] OTHER ->
                      [rec EXCEPT ![r].state = DEAD,
                                  ![r].age = IF @ = 0 THEN 0 ELSE @ - 1]
     /\ active' = IF opened THEN Append(active, r) ELSE active
     /\ Finish(r)
     /\ writes' = writes + 1
     /\ UNCHANGED <<cache, owner, logging, mgr, admin, file, clash, lock>>

(* tunnel_activate after tunnel_try_activate, under the lock: resolve by   *)
(* the record's state (another state is a panic), then a file write.       *)
ActivateFinish(r) ==
  LET t == rec[r]
  IN /\ pc[r] = "fin" /\ owner[r] = "activate" /\ lock = "free"
     /\ writes < MaxWrites
     /\ t.state \in {DELETING, CLOSING, OPENING}          \* else panic()
     /\ rec' = CASE t.state = DELETING ->
                      Free([rec EXCEPT ![r].state = OPEN], r)
                 [] t.state = CLOSING ->
                      [rec EXCEPT ![r].state = CLOSED, ![r].drv = FALSE]
                 [] t.state = OPENING /\ result[r] ->
                      [rec EXCEPT ![r].state = OPEN, ![r].age = InitAge]
                 [] OTHER ->
                      [rec EXCEPT ![r].state = DEAD,
                                  ![r].age = IF @ = 0 THEN 0 ELSE @ - 1]
     /\ active' = IF t.state = OPENING /\ result[r]
                    THEN Append(active, r) ELSE active
     /\ Finish(r)
     /\ writes' = writes + 1
     /\ UNCHANGED <<cache, owner, logging, mgr, admin, file, clash, lock>>

\* tunnel_file_write at the end of an activate thread.
TaskWrite ==
  /\ writes > 0 /\ lock = "free"
  /\ WriteFile
  /\ writes' = writes - 1
  /\ UNCHANGED <<rec, cache, active, pc, owner, retries, result, logging,
                 mgr, admin, clash>>

-----------------------------------------------------------------------------
(* tunnel_reconnect_manager, one poll under the lock: an active tunnel not *)
(* yet reconnecting whose driver reports a timeout is flagged and a        *)
(* tunnel_reconnect thread is started for a copy of its URL. The thread's  *)
(* first lines (tunnel_create, state OPENING) touch only the new record,   *)
(* so they are taken here; a poll finding two timeouts is two polls.       *)
ReconnectPoll ==
  \E i \in 1..Len(active) :
    LET old == active[i]
        r   == NewRec
    IN /\ lock = "free"
       /\ ~rec[old].reconnect
       /\ FreeRecs # {}
       /\ rec' = [rec EXCEPT ![old].reconnect = TRUE,
                     ![r] = [Create(rec[old].url, InitAge)
                               EXCEPT !.state = OPENING]]
       /\ Start(r, "reconnect")
       /\ UNCHANGED <<cache, active, result, logging, mgr, admin, writes,
                      file, lock>>

(* tunnel_reconnect after tunnel_try_activate on its new record r.         *)
(* Success: replace the URL's record in both sets by r; free the displaced *)
(* active one, else mark r DEAD and free the displaced cached one, else    *)
(* free r. Failure: delete the URL from the active set and, if found, mark *)
(* r DEAD; then free r. The url string was freed (free(url), line 814)     *)
(* before this delete reads it: what it compares against is whatever the   *)
(* freed memory holds, the URL itself, another tunnel's URL reallocated    *)
(* there by strdup, or garbage that matches nothing (NoUrl).               *)
ReconnectSucceed(r) ==
  LET u  == rec[r].url
      ia == Lookup(active, u)
      ic == Lookup(cache, u)
      ra == Found(active, ia)
      rc == Found(cache, ic)
      dead == [rec EXCEPT ![r].drv = FALSE, ![r].state = DEAD,
                          ![r].reconnect = FALSE]
  IN /\ pc[r] = "fin" /\ owner[r] = "reconnect" /\ result[r]
     /\ lock = "free"
     /\ active' = IF ia = 0 THEN active ELSE ReplaceAt(active, ia, r)
     /\ cache' = IF ic = 0 THEN cache ELSE ReplaceAt(cache, ic, r)
     /\ rec' = CASE ra # NoRec -> Free(rec, ra)
                 [] rc # NoRec -> Free(dead, rc)
                 [] OTHER      -> Free(rec, r)
     /\ logging' = IF ra # NoRec \/ rc # NoRec THEN logging \cup {r}
                   ELSE logging
     /\ Finish(r)
     /\ UNCHANGED <<owner, mgr, admin, writes, file, clash, lock>>

\* Mutant: the failure path of tunnel_reconnect freeing old_tunnel (the
\* displaced active record) instead of the new one.
ReconnectFailFreesOld(r) ==
  /\ pc[r] = "fin" /\ owner[r] = "reconnect" /\ ~result[r]
  /\ lock = "free"
  /\ \E key \in Urls \cup {NoUrl} :
       LET ia == Lookup(active, key)
       IN /\ active' = IF ia = 0 THEN active ELSE RemoveAt(active, ia)
          /\ rec' = Free(rec, Found(active, ia))
  /\ Finish(r)
  /\ UNCHANGED <<cache, owner, logging, mgr, admin, writes, file, clash, lock>>

ReconnectFail(r) ==
  /\ pc[r] = "fin" /\ owner[r] = "reconnect" /\ ~result[r]
  /\ lock = "free"
  /\ \E key \in Urls \cup {NoUrl} :
       LET ia == Lookup(active, key)
           dead == [rec EXCEPT ![r].drv = FALSE, ![r].state = DEAD,
                               ![r].reconnect = FALSE]
       IN /\ active' = IF ia = 0 THEN active ELSE RemoveAt(active, ia)
          /\ rec' = Free(IF ia = 0 THEN rec ELSE dead, r)
  /\ Finish(r)
  /\ UNCHANGED <<cache, owner, logging, mgr, admin, writes, file, clash, lock>>

\* The log line after unlocking reads tunnel->url of the new record.
ReconnectLog(r) ==
  /\ r \in logging
  /\ logging' = logging \ {r}
  /\ UNCHANGED <<rec, cache, active, pc, owner, retries, result, mgr, admin,
                 writes, file, clash, lock>>

-----------------------------------------------------------------------------
Next ==
  \/ \E u \in Urls : AddUrl(u) \/ DeleteUrl(u)
  \/ AdminWrite
  \/ ManagerScan \/ ManagerCheck
  \/ \E r \in Recs : \/ TryLoop(r) \/ TryOpen(r) \/ ActivateFinish(r)
                     \/ ReconnectSucceed(r) \/ ReconnectFail(r)
                     \/ ReconnectLog(r)
  \/ TaskWrite
  \/ ReconnectPoll

Spec == Init /\ [][Next]_vars


(* Each thread of the code runs when it is runnable (preemptive threads): *)
(* weak fairness for every thread's steps. The administrative caller and  *)
(* the reconnect manager's timeouts are the environment and get none.     *)
(* ActivateFinish gets strong fairness because only the model's bound     *)
(* MaxWrites can disable it: the code never makes it wait for writes.     *)
Fairness ==
  /\ \A r \in Recs : WF_vars(TryLoop(r) \/ TryOpen(r) \/ ActivateFinish(r)
                             \/ ReconnectSucceed(r) \/ ReconnectFail(r)
                             \/ ReconnectLog(r))
  /\ \A r \in Recs : SF_vars(ActivateFinish(r))
  /\ WF_vars(TaskWrite) /\ WF_vars(AdminWrite)
  /\ WF_vars(ManagerScan \/ ManagerCheck)

FairSpec == Spec /\ Fairness

-----------------------------------------------------------------------------
(* Properties.                                                             *)

InSets == ToSet(cache) \cup ToSet(active)

TypeOK ==
  /\ rec \in [Recs -> Record]
  /\ cache \in Seq(Recs) /\ active \in Seq(Recs)
  /\ pc \in [Recs -> {"idle", "loop", "open", "fin"}]
  /\ owner \in [Recs -> {"activate", "reconnect"}]
  /\ retries \in [Recs -> 1..MaxRetries]
  /\ result \in [Recs -> BOOLEAN]
  /\ logging \subseteq Recs
  /\ mgr \in {"scan", "check", "done"}
  /\ admin \in {"idle", "write"}
  /\ writes \in 0..MaxWrites
  /\ file \in Seq(Urls \X (1..255))
  /\ clash \in BOOLEAN
  /\ lock \in {"free", "leaked"}

(* The two panic() calls are unreachable: tunnel_delete only meets OPENING,*)
(* CLOSING or OPEN tunnels in the active set, and an activate thread's     *)
(* tunnel is OPENING, CLOSING or DELETING whenever the thread runs, so its *)
(* final switch finds one of the states it handles.                        *)
PanicFree ==
  /\ \A i \in 1..Len(active) : rec[active[i]].state \in {OPENING, CLOSING, OPEN}
  /\ \A r \in Recs : pc[r] # "idle" /\ owner[r] = "activate" =>
                       rec[r].state \in {OPENING, CLOSING, DELETING}

(* Every tunnel of the active set is also in the cache, as the same       *)
(* tunnel_t: tunnel_delete, tunnel_reconnect's replace and delete keep the *)
(* two sets in step although they edit them separately.                   *)
ActiveInCache == ToSet(active) \subseteq ToSet(cache)

(* A URL names at most one tunnel in each set, whatever add, delete and   *)
(* the reconnect replacements interleave.                                  *)
UniqueUrls ==
  \A s \in {cache, active} :
    \A i, j \in 1..Len(s) : i # j => rec[s[i]].url # rec[s[j]].url

(* No set holds a pointer to freed memory: every tunnel_free of a record  *)
(* that does not stay alive happens after the record left both sets.      *)
NoDanglingSetEntry == \A r \in InSets : rec[r].mem = "live"

(* No thread is ever started on a tunnel another thread still drives:     *)
(* tunnel_add refuses OPENING tunnels and the manager takes only CLOSED.  *)
NoDoubleActivation == ~clash

(* Every tunnel_try_activate ends and its thread finishes, unless a       *)
(* tunnel_file_write has returned holding tunnels_lock (line 342): the    *)
(* retries bound the attempts whatever cktp_open_tunnel returns, and the  *)
(* locked finish of an activate or reconnect thread is only ever blocked  *)
(* by that leak, after which the thread waits for the lock forever.       *)
ActivationTerminates ==
  \A r \in Recs : pc[r] = "loop" ~> (pc[r] = "idle" \/ lock = "leaked")

-----------------------------------------------------------------------------
(* Properties the spec, or a comment of the code, states and the code is  *)
(* checked against.                                                        *)

Busy == {r \in Recs : pc[r] # "idle"}

(* The XXX comment of tunnel_delete (tunnel.c:742-743): every tunnel of   *)
(* the active set is OPEN. tunnel_reconnect puts its new record there     *)
(* still OPENING, and nothing ever makes it OPEN.                          *)
ActiveAllOpen == \A i \in 1..Len(active) : rec[active[i]].state = OPEN

(* Spec 3: a record is destroyed once no set refers to it; every live     *)
(* record is reachable from a set or from a thread that still drives it.  *)
NoLeak ==
  \A r \in Recs : rec[r].mem = "live" => r \in InSets \cup Busy \cup logging

(* Spec 4.4: the reconnect controller never runs two reconnections of the *)
(* same tunnel at once (the reconnect flag is the guard).                 *)
SingleReconnect ==
  \A r1, r2 \in Busy :
    r1 # r2 /\ owner[r1] = "reconnect" /\ owner[r2] = "reconnect"
      => rec[r1].url # rec[r2].url

(* Spec 4.4: when a reconnection fails, its URL is deleted from the       *)
(* active set, and nothing else is.                                        *)
ReconnectFailureDeactivates ==
  [][\A r \in Recs :
       pc[r] = "fin" /\ owner[r] = "reconnect" /\ ~result[r]
       /\ pc'[r] = "idle"
         => active' = SelectSeq(active, LAMBDA x: rec[x].url # rec[r].url)
    ]_vars

=============================================================================
