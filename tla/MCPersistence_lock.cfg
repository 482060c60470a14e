\* The lock after a write, with the writer thread weakly fair.
CONSTANTS
  Recs = {r1, r2}
  Absent = Absent
  Windows = FALSE
  MaxChanges = 1

SPECIFICATION FairSpec

PROPERTY WriteReleasesLock
