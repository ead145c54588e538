----------------------------- MODULE Attendees -----------------------------
(***************************************************************************)
(* The itinerary that an anonymous attendee keeps in a browser:            *)
(* publishing/routes.ts and service.ts with PublicProgramPage.tsx and      *)
(* itinerary-persistence.ts.  It is known by a cookie, one for all events, *)
(* and by a recovery token, one per event in the local storage.  Pages of  *)
(* two events are opened in several tabs; connections break, and the       *)
(* cookie may be lost.                                                     *)
(***************************************************************************)
EXTENDS Naturals, Sequences, FiniteSets

CONSTANTS
  Stars,           \* sessions placed in the selected revision
  Home, Away,      \* the event, and another one of the same site
  Tabs,            \* tabs of one browser
  MaxItineraries,  \* bound on attendee_itineraries
  MaxBroken        \* bound on broken connections and lost cookies

ASSUME AttendeesAssumption == Home # Away /\ {MaxItineraries, MaxBroken} \subseteq Nat

VARIABLES
  live,       \* publications.state is "live"
  approved,   \* sessions whose content is approved
  itinerary,  \* attendee_itineraries with their items, in order of creation
  cookie,     \* programflow_itinerary, 0 without
  token,      \* recovery tokens of the local storage
  pending,    \* the mutation in the local storage
  tab,
  late,       \* mutations whose browser is gone before the server wrote them
  broken,
  starred     \* history: what the mutations that were written amount to

attendeeVars ==
  <<live, approved, itinerary, cookie, token, pending, tab, late, broken, starred>>
program == <<live, approved>>
browser == <<cookie, token, pending>>

NoChange == [star |-> "none"]
Closed == [at |-> "closed"]
Change(s, selected) == [star |-> s, selected |-> selected]

AttendeesInit ==
  /\ live = FALSE /\ approved = Stars
  /\ itinerary = <<>> /\ starred = {}
  /\ cookie = 0 /\ token = [e \in {Home, Away} |-> 0] /\ pending = NoChange
  /\ tab = [t \in Tabs |-> Closed] /\ late = {} /\ broken = 0

-----------------------------------------------------------------------------
(* Organizers.  An edit takes the approval of a session away for good.     *)

Publishes ==
  /\ ~live /\ live' = TRUE
  /\ UNCHANGED <<approved, itinerary, browser, tab, late, broken, starred>>

Pauses ==
  /\ live /\ live' = FALSE
  /\ UNCHANGED <<approved, itinerary, browser, tab, late, broken, starred>>

Withdraws(s) ==
  /\ s \in approved /\ approved' = approved \ {s}
  /\ UNCHANGED <<live, itinerary, browser, tab, late, broken, starred>>

-----------------------------------------------------------------------------
(* The server.                                                             *)

\* getPublishedProgram: the other event is live, and nothing of it is starred.
IsLive(e) == e = Away \/ live
PublicSessions(e) == IF e = Home THEN approved ELSE {}

Belongs(i, e) == i \in DOMAIN itinerary /\ itinerary[i].event = e

\* Bug: the recovery token is not looked up.
BugFound(e, c, k) == IF Belongs(c, e) THEN c ELSE 0

\* resolveItinerary: by the cookie, else by the hash of the recovery token.
Found(e, c, k) == IF Belongs(c, e) THEN c ELSE IF Belongs(k, e) THEN k ELSE 0

\* One that is not found is created.  forks notes an export, which sends no
\* token, and a creation while another tab is still to learn of one.
Resolves(e, c, k, exports) ==
  IF Found(e, c, k) # 0
  THEN UNCHANGED itinerary
  ELSE /\ Len(itinerary) < MaxItineraries
       /\ itinerary' = Append(itinerary,
            [event |-> e, items |-> {},
             forks |-> exports \/ \E t \in Tabs : /\ tab[t].at = "asked" /\ tab[t].created
                                                  /\ tab[t].event = e])

Resolved(e, c, k) ==
  LET found == Found(e, c, k) IN IF found = 0 THEN Len(itinerary) + 1 ELSE found

Permitted(change) == live /\ (change.selected => change.star \in PublicSessions(Home))

\* addItinerarySession, which repeats nothing, and removeItinerarySession.
Writes(i, change) ==
  IF change.selected
  THEN /\ itinerary' = [itinerary EXCEPT ![i].items = @ \cup {change.star}]
       /\ starred' = starred \cup {change.star}
  ELSE /\ itinerary' = [itinerary EXCEPT ![i].items = @ \ {change.star}]
       /\ starred' = starred \ {change.star}

WritesIfPermitted(i, change) ==
  IF Permitted(change) THEN Writes(i, change) ELSE UNCHANGED <<itinerary, starred>>

Selected(i) == itinerary[i].items \cap PublicSessions(itinerary[i].event)

-----------------------------------------------------------------------------
(* A tab.  Opening or reloading a page drops what the tab waits for; a     *)
(* mutation is sent with keepalive, so the server still carries it out.    *)

Abandoned(t) ==
  IF tab[t].at = "saving" THEN late \cup {[itinerary |-> tab[t].itinerary, change |-> tab[t].change]}
                          ELSE late

\* The page asks for the itinerary with the cookie and the token it has.
Opens(t, e) ==
  /\ IsLive(e)
  /\ tab[t].at = "saving" => broken < MaxBroken
  /\ broken' = IF tab[t].at = "saving" THEN broken + 1 ELSE broken
  /\ late' = Abandoned(t)
  /\ Resolves(e, cookie, token[e], FALSE)
  /\ LET i == Resolved(e, cookie, token[e]) IN
       tab' = [tab EXCEPT ![t] =
         [at |-> "asked", event |-> e, itinerary |-> i, created |-> i > Len(itinerary),
          selected |-> itinerary'[i].items \cap PublicSessions(e)]]
  /\ UNCHANGED <<program, browser, starred>>

\* The itinerary page: its selection, and a mutation it offers to retry.
Page(t, selected, retry) ==
  tab' = [tab EXCEPT ![t] = [at |-> "ready", selected |-> selected, retry |-> retry]]

MatchesSelection(change, selected) == (change.star \in selected) = change.selected

\* The answer sets the cookie, and the token of a new itinerary; a pending
\* mutation that was carried out is dropped, another one offered again.
LearnsItinerary(t) ==
  /\ tab[t].at = "asked"
  /\ cookie' = tab[t].itinerary
  /\ token' = IF tab[t].created THEN [token EXCEPT ![tab[t].event] = tab[t].itinerary] ELSE token
  /\ IF tab[t].event = Away
     THEN tab' = [tab EXCEPT ![t] = Closed] /\ UNCHANGED pending
     ELSE LET done == pending # NoChange /\ MatchesSelection(pending, tab[t].selected) IN
          /\ pending' = IF done THEN NoChange ELSE pending
          /\ Page(t, tab[t].selected, pending')
  /\ UNCHANGED <<program, itinerary, late, broken, starred>>

\* A mutation is stored before it is sent, with the cookie and the token.
Sends(t, change) ==
  /\ pending' = change
  /\ IF live
     THEN /\ Resolves(Home, cookie, token[Home], FALSE)
          /\ tab' = [tab EXCEPT ![t] =
               [at |-> "saving", selected |-> @.selected, change |-> change,
                itinerary |-> Resolved(Home, cookie, token[Home])]]
     ELSE Page(t, tab[t].selected, change) /\ UNCHANGED itinerary
  /\ UNCHANGED <<program, cookie, token, late, broken, starred>>

\* The method follows from the selection the page shows.
Toggles(t, s) ==
  /\ tab[t].at = "ready"
  /\ Sends(t, Change(s, s \notin tab[t].selected))

Retries(t) ==
  /\ tab[t].at = "ready" /\ tab[t].retry # NoChange
  /\ Sends(t, tab[t].retry)

\* The mutation is written, or refused.
Saves(t) ==
  /\ tab[t].at = "saving"
  /\ WritesIfPermitted(tab[t].itinerary, tab[t].change)
  /\ tab' = [tab EXCEPT ![t] =
       [at |-> "saved", selected |-> @.selected, change |-> @.change,
        itinerary |-> @.itinerary, ok |-> Permitted(@.change)]]
  /\ UNCHANGED <<program, browser, late, broken>>

\* The selection is read again, which a pause prevents.  A refusal is an answer
\* too: it sets the cookie, and the page goes back to what it showed.
LearnsSaved(t) ==
  /\ tab[t].at = "saved" /\ cookie' = tab[t].itinerary
  /\ IF tab[t].ok /\ live
     THEN Page(t, Selected(tab[t].itinerary), NoChange) /\ pending' = NoChange
     ELSE Page(t, tab[t].selected, tab[t].change) /\ UNCHANGED pending
  /\ UNCHANGED <<program, itinerary, token, late, broken, starred>>

\* The connection breaks before the answer, and perhaps before the write.
LosesAnswer(t) ==
  /\ tab[t].at \in {"saving", "saved"} /\ broken < MaxBroken /\ broken' = broken + 1
  /\ late' = Abandoned(t)
  /\ Page(t, tab[t].selected, tab[t].change)
  /\ UNCHANGED <<program, itinerary, browser, starred>>

SavesLate(m) ==
  /\ m \in late /\ late' = late \ {m}
  /\ WritesIfPermitted(m.itinerary, m.change)
  /\ UNCHANGED <<program, browser, tab, broken>>

\* "Add to calendar" is a link: a navigation sends the cookie and no token.
Exports(t) ==
  /\ tab[t].at = "ready" /\ tab[t].selected # {} /\ live
  /\ Resolves(Home, cookie, 0, TRUE)
  /\ cookie' = Resolved(Home, cookie, 0)
  /\ UNCHANGED <<program, token, pending, tab, late, broken, starred>>

LosesCookie ==
  /\ cookie # 0 /\ broken < MaxBroken /\ broken' = broken + 1
  /\ cookie' = 0
  /\ UNCHANGED <<program, itinerary, token, pending, tab, late, starred>>

AttendeesNext ==
  \/ Publishes \/ Pauses \/ LosesCookie
  \/ \E s \in Stars : Withdraws(s)
  \/ \E t \in Tabs :
       \/ Opens(t, Home) \/ Opens(t, Away) \/ LearnsItinerary(t)
       \/ (\E s \in Stars : Toggles(t, s))
       \/ Retries(t) \/ Saves(t) \/ LearnsSaved(t) \/ LosesAnswer(t) \/ Exports(t)
  \/ \E m \in late : SavesLate(m)

AttendeesSpec == AttendeesInit /\ [][AttendeesNext]_attendeeVars

-----------------------------------------------------------------------------
(* Properties.                                                             *)

AttendeesTypeOK ==
  /\ cookie \in 0..Len(itinerary) /\ token \in [{Home, Away} -> 0..Len(itinerary)]
  /\ starred \subseteq Stars /\ approved \subseteq Stars /\ broken \in 0..MaxBroken
  /\ \A e \in {Home, Away} : token[e] # 0 => Belongs(token[e], e)

Ours == {i \in DOMAIN itinerary : itinerary[i].event = Home}
Current == Found(Home, cookie, token[Home])

\* Whatever answers are lost, written late or refused, and although the program
\* is paused and the cookie lost, the next request finds what the attendee has
\* starred: unless an export was followed while the cookie named an itinerary of
\* another event or was gone, or two tabs began the itinerary at once.
StarredIsFound ==
  (\A i \in Ours : ~itinerary[i].forks) =>
    IF Current = 0 THEN starred = {} ELSE itinerary[Current].items = starred

AttendeesSafe == AttendeesTypeOK /\ StarredIsFound

\* "Reload and calendar consumers receive exactly the attendee's selected live
\* sessions" (operations-evidence/scenarios.ts).
ReloadReceivesSelected ==
  starred # {} => Current # 0 /\ itinerary[Current].items = starred
=============================================================================
