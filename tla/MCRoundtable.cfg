SPECIFICATION Spec
CONSTANTS
  Calls = {"security", "style", "ux", "qa", "synthesizer", "call"}
  TaskOf <- MCTaskOf
  Requests <- MCRequests
  Skills = {"scan", "roundtable"}
  MaxRedirects = 1
  MaxPolls = 2
  Roster <- MCRoster
  Has <- MCHas
  Sessions <- MCSessions
  PoolSize = 4
  Synthesizer = "synthesizer"
INVARIANTS ExchangeIsHonest RightWordsHeard
PROPERTY ComesToAnEnd
