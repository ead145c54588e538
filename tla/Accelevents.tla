---------------------------- MODULE Accelevents ----------------------------
(***************************************************************************)
(* Runs that publish the speakers and sessions of the ready schedule to    *)
(* Accelevents (integrations/accelevents).  A run creates what has no link,*)
(* updates what has changed since its link was written and skips the rest, *)
(* speakers before the sessions that refer to them.  Runs may overlap,     *)
(* requests fail or lose their answers, and invocations are cut off.  A    *)
(* preview writes nothing but its own records and is left out; every       *)
(* session is taken to have every speaker.                                 *)
(***************************************************************************)
EXTENDS Naturals

CONSTANTS Guests, Talks, Jobs, MaxExternals, MaxMishaps

ASSUME AcceleventsAssumption ==
  Guests \cap Talks = {} /\ MaxExternals \in Nat /\ MaxMishaps \in Nat

VARIABLES
  content,      \* of the canonical records
  external,     \* the records of Accelevents by identifier
  mirror,       \* accelevents_record_links: identifier and fingerprint
  syncJob,      \* accelevents_sync_runs and their invocations
  failures,     \* the records of a run that failed
  mishaps,      \* failed requests, lost answers and cut-offs so far
  strayed,      \* history: records created without a link to what was created
  unconfirmed,  \* history: records changed outside since their link was written
  concurrent    \* history: runs have overlapped

acceleventsVars ==
  <<content, external, mirror, syncJob, failures, mishaps, strayed, unconfirmed, concurrent>>

Listed == Guests \cup Talks
Contents == 0..2
Incomplete == 2        \* a value is missing that the mapping requires
Externals == 1..MaxExternals   \* identifiers, in the order they are given
NoExternal == [of |-> {}]
NoLink == [id |-> {}]
NotBegun == [at |-> "not begun"]
Over == [at |-> "over"]

AcceleventsInit ==
  /\ content = [r \in Listed |-> 0]
  /\ external = [x \in Externals |-> NoExternal]
  /\ mirror = [r \in Listed |-> NoLink]
  /\ syncJob = [k \in Jobs |-> NotBegun] /\ failures = [k \in Jobs |-> {}]
  /\ mishaps = 0 /\ strayed = {} /\ unconfirmed = {} /\ concurrent = FALSE

Runs(k) == syncJob[k].at \notin {"not begun", "over"}
Mishap == mishaps < MaxMishaps /\ mishaps' = mishaps + 1

EditRecord(r) ==
  /\ \E new \in Contents \ {content[r]} : content' = [content EXCEPT ![r] = new]
  /\ UNCHANGED <<external, mirror, syncJob, failures, mishaps, strayed, unconfirmed, concurrent>>

-----------------------------------------------------------------------------
(* run: a key that is taken returns its run, otherwise the records are     *)
(* listed and selected and the links read.                                 *)

Begin(k, selected) ==
  /\ syncJob[k] = NotBegun
  /\ syncJob' = [syncJob EXCEPT ![k] =
       [at |-> "next", canonical |-> content, selected |-> selected, left |-> selected,
        links |-> mirror]]
  /\ concurrent' = (concurrent \/ \E j \in Jobs : Runs(j))
  /\ UNCHANGED <<content, external, mirror, failures, mishaps, strayed, unconfirmed>>

RunManually(k) == Begin(k, Listed)

\* selectRecords: what failed in the source run, not what it left pending.
Retry(k, source) == failures[source] # {} /\ Begin(k, failures[source])

-----------------------------------------------------------------------------
(* syncRecord                                                              *)

\* Speakers come first.
InOrder(k, r) == r \in Talks => syncJob[k].left \cap Guests = {}

\* mapCanonicalRecord: the payload refers to the identifiers of the speakers.
Payload(k, r) ==
  [content |-> syncJob[k].canonical[r],
   speakers |-> IF r \in Talks THEN {syncJob[k].links[g].id : g \in Guests} ELSE {}]

\* The fingerprint of the link is the one of the payload.
Unchanged(k, r) ==
  syncJob[k].links[r] # NoLink /\ syncJob[k].links[r].fingerprint = Payload(k, r)

\* Bug: a session is sent without the speakers that have no link yet.
BugSendable(k, r) == syncJob[k].canonical[r] # Incomplete

\* What validation requires: every value, and for sessions a link of every speaker.
Sendable(k, r) ==
  /\ syncJob[k].canonical[r] # Incomplete
  /\ r \in Talks => \A g \in Guests : syncJob[k].links[g] # NoLink

Ready(k, r) == syncJob[k].at = "next" /\ r \in syncJob[k].left /\ InOrder(k, r)

FailValidation(k, r) ==
  /\ Ready(k, r) /\ ~Sendable(k, r)
  /\ failures' = [failures EXCEPT ![k] = @ \cup {r}]
  /\ syncJob' = [syncJob EXCEPT ![k].left = @ \ {r}]
  /\ UNCHANGED <<content, external, mirror, mishaps, strayed, unconfirmed, concurrent>>

SkipRecord(k, r) ==
  /\ Ready(k, r) /\ Sendable(k, r) /\ Unchanged(k, r)
  /\ syncJob' = [syncJob EXCEPT ![k].left = @ \ {r}]
  /\ UNCHANGED <<content, external, mirror, failures, mishaps, strayed, unconfirmed, concurrent>>

\* Identifiers are given in their order.
Free == {x \in Externals : external[x] = NoExternal}
IsNext(x) == x \in Free /\ \A y \in Free : x <= y

\* Accelevents carries out a create or an update and has it under x.
CarriesOut(k, r, x) ==
  /\ Ready(k, r) /\ Sendable(k, r) /\ ~Unchanged(k, r)
  /\ IF syncJob[k].links[r] = NoLink THEN IsNext(x) ELSE syncJob[k].links[r].id = {x}
  /\ external' = [external EXCEPT ![x] = [of |-> {r}, holds |-> Payload(k, r)]]

Send(k, r, x) ==
  /\ CarriesOut(k, r, x)
  /\ syncJob' = [syncJob EXCEPT ![k] =
       [at |-> "link", canonical |-> @.canonical, selected |-> @.selected, left |-> @.left,
        links |-> @.links, record |-> r, id |-> {x}]]
  /\ UNCHANGED <<content, mirror, failures, mishaps, strayed, unconfirmed, concurrent>>

Loses(k, r) ==
  IF syncJob[k].links[r] = NoLink
  THEN strayed' = strayed \cup {r} /\ UNCHANGED unconfirmed
  ELSE unconfirmed' = unconfirmed \cup {r} /\ UNCHANGED strayed

\* The answer is lost, and the adapter sends the request again.
SendAgain(k, r, x) ==
  /\ Mishap /\ CarriesOut(k, r, x) /\ Loses(k, r)
  /\ UNCHANGED <<content, mirror, syncJob, failures, concurrent>>

\* The last attempt fails, whether it was carried out or not.
SendingFails(k, r) ==
  /\ Ready(k, r) /\ Sendable(k, r) /\ ~Unchanged(k, r) /\ Mishap
  /\ \/ UNCHANGED <<external, strayed, unconfirmed>>
     \/ Loses(k, r) /\ \E x \in Externals : CarriesOut(k, r, x)
  /\ failures' = [failures EXCEPT ![k] = @ \cup {r}]
  /\ syncJob' = [syncJob EXCEPT ![k].left = @ \ {r}]
  /\ UNCHANGED <<content, mirror, concurrent>>

\* The run goes on with the next record.
Advanced(k, to) ==
  [at |-> "next", canonical |-> syncJob[k].canonical, selected |-> syncJob[k].selected,
   left |-> syncJob[k].left \ {syncJob[k].record}, links |-> to]

\* Bug: the link is given the fingerprint of what the record has become.
BugFingerprint(k, r) == [Payload(k, r) EXCEPT !.content = content[r]]

\* The fingerprint of what was sent.
Fingerprint(k, r) == Payload(k, r)

\* upsertLink, and the run's own links
UpsertLink(k) ==
  /\ syncJob[k].at = "link"
  /\ LET r == syncJob[k].record
         link == [id |-> syncJob[k].id, fingerprint |-> Fingerprint(k, r)]
     IN  /\ mirror' = [mirror EXCEPT ![r] = link]
         /\ syncJob' = [syncJob EXCEPT ![k] = Advanced(k, [syncJob[k].links EXCEPT ![r] = link])]
         /\ unconfirmed' = unconfirmed \ {r}
  /\ UNCHANGED <<content, external, strayed, concurrent>>

\* finishSyncRecord and appendAttempt
WriteLink(k) == UpsertLink(k) /\ UNCHANGED <<failures, mishaps>>

\* An error of the database is caught like one of the provider: the record has
\* failed, whether the link was written before the error or not.
LinkFailure(k) ==
  /\ syncJob[k].at = "link" /\ Mishap
  /\ failures' = [failures EXCEPT ![k] = @ \cup {syncJob[k].record}]

LinkIsLost(k) ==
  /\ LinkFailure(k) /\ Loses(k, syncJob[k].record)
  /\ syncJob' = [syncJob EXCEPT ![k] = Advanced(k, syncJob[k].links)]
  /\ UNCHANGED <<content, external, mirror, concurrent>>

LinkedButFailed(k) == LinkFailure(k) /\ UpsertLink(k)

EndsRun(k) == syncJob[k].at = "next" /\ syncJob[k].left = {}

\* completeRun
CompleteRun(k) ==
  /\ EndsRun(k) /\ syncJob' = [syncJob EXCEPT ![k] = Over]
  /\ UNCHANGED <<content, external, mirror, failures, mishaps, strayed, unconfirmed, concurrent>>

\* The run stays `running', and what it has not finished `pending'.
CutOffJob(k) ==
  /\ Runs(k) /\ Mishap
  /\ IF syncJob[k].at = "link" THEN Loses(k, syncJob[k].record) ELSE UNCHANGED <<strayed, unconfirmed>>
  /\ syncJob' = [syncJob EXCEPT ![k] = Over]
  /\ UNCHANGED <<content, external, mirror, failures, concurrent>>

AcceleventsNext ==
  \/ \E r \in Listed : EditRecord(r)
  \/ \E k \in Jobs :
       \/ RunManually(k) \/ (\E source \in Jobs : Retry(k, source))
       \/ \E r \in Listed :
            \/ FailValidation(k, r) \/ SkipRecord(k, r) \/ SendingFails(k, r)
            \/ \E x \in Externals : Send(k, r, x) \/ SendAgain(k, r, x)
       \/ WriteLink(k) \/ LinkIsLost(k) \/ LinkedButFailed(k) \/ CompleteRun(k) \/ CutOffJob(k)

AcceleventsSpec == AcceleventsInit /\ [][AcceleventsNext]_acceleventsVars

-----------------------------------------------------------------------------
(* Properties.                                                             *)

AcceleventsTypeOK ==
  /\ content \in [Listed -> Contents] /\ failures \in [Jobs -> SUBSET Listed]
  /\ \A x \in Externals : external[x].of \in {{r} : r \in Listed} \cup {{}}
  /\ strayed \subseteq Listed /\ unconfirmed \subseteq Listed /\ mishaps \in 0..MaxMishaps

BeingSent(r) == \E k \in Jobs : syncJob[k].at = "link" /\ syncJob[k].record = r

\* A payload names one or more records of every speaker, and nothing else.
NamesSpeakers(payload) ==
  /\ \A id \in payload.speakers :
       \E g \in Guests, y \in Externals : id = {y} /\ external[y].of = {g}
  /\ \A g \in Guests :
       \E y \in Externals : {y} \in payload.speakers /\ external[y].of = {g}

\* Whatever part of a run failed, the sessions that were sent name records of all
\* their speakers.
SessionsNameSpeakers ==
  \A x \in Externals, t \in Talks : external[x].of = {t} => NamesSpeakers(external[x].holds)

\* A link leads to what Accelevents has of its record.  Unless runs overlap,
\* the fingerprint of a link is true of it, so that skipping is right, except
\* after an update whose answer was lost; and a record is there twice only
\* after a create whose answer or link was lost.
AcceleventsSafe ==
  /\ AcceleventsTypeOK /\ SessionsNameSpeakers
  /\ \A r \in Listed, x \in Externals : mirror[r].id = {x} =>
       /\ external[x].of = {r}
       /\ concurrent \/ BeingSent(r) \/ r \in unconfirmed
            \/ external[x].holds = mirror[r].fingerprint
  /\ \A x, y \in Externals : external[x].of = external[y].of /\ external[x] # NoExternal =>
       x = y \/ concurrent \/ external[x].of \subseteq strayed

\* A run that ends without a failed record, and a retry above all, has linked
\* everything it selected, with the content it listed and, for sessions, with
\* the present identifiers of the speakers.
CompleteIsMirrored ==
  [][\A k \in Jobs : CompleteRun(k) /\ failures[k] = {} /\ ~concurrent =>
       \A r \in syncJob[k].selected :
         mirror[r] # NoLink /\ mirror[r].fingerprint =
           [content |-> syncJob[k].canonical[r],
            speakers |-> IF r \in Talks THEN {mirror[g].id : g \in Guests} ELSE {}]
    ]_acceleventsVars

=============================================================================
