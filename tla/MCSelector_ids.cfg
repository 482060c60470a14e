CONSTANTS
  Recs = {r1, r2, r3}
  NoRec = NoRec
  Junk = Junk
  HashBits = 2
  HistSize = 2
  MaxRepeat = 2
  IdMod = 4
  MinW = 10
  MaxW = 2000
  MaxSends = 2
  MtuZero = FALSE
SPECIFICATION Spec
SYMMETRY RecSymmetry
INVARIANT UniqueIds
