CONSTANTS
  Urls = {u1}
  InitUrls = {u1}
  NoUrl = NoUrl
  NoRec = NoRec
  Recs <- MCRecs4
  MaxInitOpen = 1
  MaxRetries = 2
  InitAge = 1
  SizeMod <- MCSizeMod
  MaxWrites = 1
  FopenFails = FALSE

SPECIFICATION Spec

INVARIANT SingleReconnect
