\* Several takers: a woken taker takes what another took before it.
SPECIFICATION HistorySpec
CONSTANTS
  t1 = t1
  t2 = t2
  t3 = t3
  g1 = g1
  Taker <- ThreeTakers
  Giver <- WithIsr
  Spurious = FALSE
INVARIANTS
  MutualExclusion
