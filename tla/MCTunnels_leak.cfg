CONSTANTS
  Urls = {u1, u2}
  InitUrls = {u1, u2}
  NoUrl = NoUrl
  NoRec = NoRec
  Recs <- MCRecs
  MaxInitOpen = 1
  MaxRetries = 2
  InitAge = 1
  SizeMod <- MCSizeMod
  MaxWrites = 1
  FopenFails = FALSE

SPECIFICATION Spec

INVARIANT NoLeak
