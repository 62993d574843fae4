CONSTANTS
  Policies = {p1, p2}
  Risks = {w1}
  NoCap = nocap
  Vaults = {p2}
SPECIFICATION FairSpec
INVARIANTS RunsHavePolicy
PROPERTIES OnlyResumeAllBreaks UnreadableUntilPaused AcknowledgementKept PollerServes PauseTakesEffect
