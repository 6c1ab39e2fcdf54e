CONSTANTS
  Workflow = {w1, w2, w3}
  Host = {h1, h2}
  Slot = {g1, g2}
  Event = {e}
  MaxLen = 5
  MaxBatch = 2
SPECIFICATION Spec
SYMMETRY Symmetry
INVARIANT TypeOK
INVARIANT VersionsContiguous
 
PROPERTY SavesCompleteReads
