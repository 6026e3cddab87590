\* Two threads, a finalizer for an epoch of each runtime; the collector runs
\* wherever the interpreter may call it.
SPECIFICATION BarriersSpec
CONSTANTS
  Threads = {t1, t2}
  Barriers = {"life1", "life2", "arena"}
  RankOf <- CodeRanks
  Cleanups = {"epoch1", "epoch2"}
  Needs <- CodeNeeds
  MaxDepth = 2
  None = None
INVARIANT NoWaitCycle
