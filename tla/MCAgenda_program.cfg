\* Agenda: two organizers, two sessions with one speaker, two revisions.
\* Attendees: one session, two tabs, two itineraries, one broken connection or
\* lost cookie.  Feed: one consumer, three lectures, two publications, two edits.
SPECIFICATION ProgramSpec
CONSTANTS
  ann = ann
  bob = bob
  SessionCount = 2
  RoomCount = 2
  Horizon = 2
  Duration <- Hours
  Speakers <- SharedSpeaker
  Offers <- ThreeOffers
  Organizers = {o1, o2}
  PublishKeys = {k1, k2}
  PauseKeys = {p1}
  MaxVersion = 2
  Stars = {s1}
  Home = home
  Away = away
  Tabs = {o1, o2}
  MaxItineraries = 2
  MaxBroken = 1
  Hosts = {1, 2}
  HostsOf <- TwoHostsOf
  InMain = {1, 2}
  StartsOf <- TwoSchedules
  Times = {1}
  MaxPublic = 2
  MaxEdits = 2
SYMMETRY Symmetry
INVARIANTS AgendaHolds AttendeesHold FeedHolds
PROPERTIES SelectedIsSealed CommandsActOnce KeepsPromise
CHECK_DEADLOCK FALSE
