\* The WINDOWS build, with its remove() calls: the cache file no longer
\* refines an atomic file once a crash falls between the two renames.
CONSTANTS
  Recs = {r1, r2, r3}
  Absent = Absent
  Windows = TRUE
  MaxChanges = 2

SPECIFICATION Spec

PROPERTY AtomicFileRefined
