\* A session beside a commit: what it captures should be of one version.
SPECIFICATION RetrievalSpec
CONSTANTS
  Cells = {1, 2, 3, 4, 5}
  Assemblies = {0, 1, 2}
  Networks <- MCNetworks
  Cues <- MCCues
  KC = 3
  ThetaA = 1
  LimitPC <- Quarter
  LimitAR <- OneHalf
  MaxCommits = 2
  None = None
INVARIANT CapturesAreCoherent
