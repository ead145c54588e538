\* Two tabs and two events; nothing breaks.
SPECIFICATION AttendeesSpec
CONSTANTS
  Stars = {s1}
  Home = home
  Away = away
  Tabs = {t1, t2}
  MaxItineraries = 3
  MaxBroken = 0
INVARIANTS ReloadReceivesSelected
CHECK_DEADLOCK FALSE
