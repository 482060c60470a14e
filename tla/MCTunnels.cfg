\* The lifecycle safety invariants with two URLs, both in the cache file
\* read at start-up, and three records for tunnel_add and reconnections.
\* fopen of the cache file always succeeds here: after a failure that
\* leaks tunnels_lock only the unlocked open attempts can still run, and
\* they change no tunnel state or set (activation_terminates has the leak).
CONSTANTS
  Urls = {u1, u2}
  InitUrls = {u1, u2}
  NoUrl = NoUrl
  NoRec = NoRec
  Recs <- MCRecs
  MaxInitOpen = 1
  MaxRetries = 2
  InitAge = 1
  SizeMod <- MCSizeMod
  MaxWrites = 1
  FopenFails = FALSE

SPECIFICATION Spec

INVARIANT TypeOK
INVARIANT PanicFree
INVARIANT ActiveInCache
INVARIANT UniqueUrls
INVARIANT NoDanglingSetEntry
INVARIANT NoDoubleActivation
