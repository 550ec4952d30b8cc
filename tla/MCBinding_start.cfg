\* Two steps, two calls, one new version.
CONSTANTS
  Step = {s1, s2}
  MaxCalls = 2
  MaxGraphs = 1
SPECIFICATION Spec
SYMMETRY MCSymmetry
INVARIANTS TypeOK TasksFit ServesWhatItClaims UndoIsServed
