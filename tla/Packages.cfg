CONSTANTS
  hold = hold
  flag = flag
  Custom = {hold, flag}
  Empty = Empty
  MaxEffects = 8
  Simulations <- MCSimulations
  TestRuns <- MCTestRuns
SPECIFICATION PackageSpec
INVARIANTS StrongestEffectWins AllowedMeansAllow ValidatedCompiles ScoreExplained QuietDiffIsSame OthersDoNotMatter TestsTellTheTruth
PROPERTIES StricterRefusesMore
