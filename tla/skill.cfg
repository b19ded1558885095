SPECIFICATION FairSpec
CONSTANTS
  s1 = s1
  s2 = s2
  Slots = {s1, s2}
  Attached = {1, 2}
  MaxMessages = 2
  MaxStops = 1
  MaxCollects = 1
  MaxRestarts = 1
INVARIANTS TypeOK NothingReplayed OneWriter WaitingIsQuiet
PROPERTIES SentWhole FinishServed
\* The user may leave the run waiting, and a run that has ended stays so.
CHECK_DEADLOCK FALSE
