\* Every activate and reconnect thread finishes, under weak fairness of
\* threads, unless a failed fopen in tunnel_file_write leaked tunnels_lock.
\* After such a leak every thread that needs the lock waits forever, so the
\* process really stops: deadlock is not an error here.
CONSTANTS
  Urls = {u1}
  InitUrls = {u1}
  NoUrl = NoUrl
  NoRec = NoRec
  Recs <- MCRecs2
  MaxInitOpen = 1
  MaxRetries = 2
  InitAge = 1
  SizeMod <- MCSizeMod
  MaxWrites = 1
  FopenFails = TRUE

SPECIFICATION FairSpec

PROPERTY ActivationTerminates

CHECK_DEADLOCK FALSE
