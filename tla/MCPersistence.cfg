\* The POSIX build: the cache file refines an atomic file under crashes
\* and failed fopen calls.
CONSTANTS
  Recs = {r1, r2, r3}
  Absent = Absent
  Windows = FALSE
  MaxChanges = 2

SPECIFICATION Spec

INVARIANT TypeOK
PROPERTY AtomicFileRefined
