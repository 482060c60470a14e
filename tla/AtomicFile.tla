----------------------------- MODULE AtomicFile -----------------------------
(* What the tunnel cache file promises (spec 4.2 and 8.6): the file always *)
(* holds the cache as it was at the last completed tunnel_file_write, a    *)
(* crash of the process never changes it, and start-up loads exactly it.   *)
EXTENDS FiniteSets

CONSTANT Recs        \* the cached tunnels with a non-zero age, as URLs

VARIABLES
  mem,      \* the URLs of tunnels_cache while the process runs
  durable,  \* the URLs the cache file holds
  up        \* whether the process is running

vars == <<mem, durable, up>>

Init ==
  /\ durable \in SUBSET Recs
  /\ mem = {}
  /\ up = FALSE

\* Start-up loads the file into the empty cache.
Start ==
  /\ ~up
  /\ up' = TRUE
  /\ mem' = durable
  /\ UNCHANGED durable

\* An operation of the running process changes the cache.
Change ==
  /\ up
  /\ mem' \in SUBSET Recs \ {mem}
  /\ UNCHANGED <<durable, up>>

\* A write replaces the file with the cache, in one step.
Save ==
  /\ up
  /\ durable' = mem
  /\ UNCHANGED <<mem, up>>

\* The process dies and its memory is lost; the file stays.
Crash ==
  /\ up
  /\ up' = FALSE
  /\ mem' = {}
  /\ UNCHANGED durable

Next == Start \/ Change \/ Save \/ Crash

Spec == Init /\ [][Next]_vars
=============================================================================
