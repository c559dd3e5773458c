\* Two contexts, two starts or drops, sends that fail without arriving.
SPECIFICATION FairSpec
CONSTANTS
  c1 = c1
  c2 = c2
  Contexts <- TwoContexts
  Seeds = {"run", "ok", "err"}
  MaxMoves = 2
  Landing = FALSE
  DropReruns = FALSE
INVARIANTS Inv ClosesTrue
PROPERTIES ForeignUntouched FinalizeEnds
