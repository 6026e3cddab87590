\* Five calls of different arguments over two epochs of an invocation; without a
\* reasoning policy, two stage calls and a limit that two batches reach.
SPECIFICATION FairSpec
CONSTANTS
  Invocations = {i1}
  MaxEpochs = 2
  Policies <- Limits
  MaxTicks = 1
  Stages = {s1, s2}
  Entries <- TwoKeys
  None = None
  Runs <- Calls
  Given <- Arguments
  Ample <- Small
  Units = 12
  MaxAssertions = 11
  MaxSources = 30
  MaxFrontier = 3
  MaxAncestry = 6
  MaxChecks = 9
INVARIANTS ConclusionsFollow ChargedWorkFits RunLeavesNothing ChildIsTheOpenEpoch
PROPERTIES OnlyLiveRoundsPublish RunsConclude
CHECK_DEADLOCK FALSE
