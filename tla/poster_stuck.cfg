\* One context; a send reported as failed may have arrived.
SPECIFICATION Spec
CONSTANTS
  c1 = c1
  c2 = c2
  Contexts <- OneContext
  Seeds = {"none", "run", "ok", "bad", "err"}
  MaxMoves = 2
  Landing = TRUE
  DropReruns = FALSE
INVARIANTS FinishedIsShown
