\* Two contexts: one node starts while the interrupt drains the status of another.
SPECIFICATION Spec
CONSTANTS
  c1 = c1
  c2 = c2
  Contexts <- TwoContexts
  Seeds = {"ok"}
  MaxMoves = 2
  Landing = FALSE
  DropReruns = FALSE
INVARIANTS InterruptStrandsNothing
