\* Selector with two records, 2-bit folded hashes over 4-bit packet hashes,
\* one history slot, repeats up to 1 and four forwarded packets: enough for
\* a repeat to punish a tunnel and a later reward to raise its weight again
\* before a flow's two consecutive first transmissions.
CONSTANTS
  Recs = {r1, r2}
  NoRec = NoRec
  Junk = Junk
  HashBits = 2
  HistSize = 1
  MaxRepeat = 1
  IdMod = 4
  MinW = 10
  MaxW = 2000
  MaxSends = 4
  MtuZero = FALSE
SPECIFICATION Spec
INVARIANT TypeOK
INVARIANT SelectionAgreesWithReference
PROPERTY FlowStable
PROPERTY ActiveSetRefined
SYMMETRY RecSymmetry
