------------------------------ MODULE Accounts ------------------------------
(***************************************************************************)
(* The people rows of one e-mail address, and how its owner signs in       *)
(* (identity-access/resolve-actor.ts, workspace.ts), while organizers add  *)
(* the same address as a speaker (speaker-operations/service.ts) or as a   *)
(* contact (speaker-crm/service.ts).                                       *)
(*                                                                         *)
(* people.canonical_email is unique, but a first login stores the address  *)
(* as the provider spells it while organizers' forms store it in lower     *)
(* case: a person is named by the spelling of its row.                     *)
(***************************************************************************)
EXTENDS Naturals, FiniteSets

CONSTANTS Logins, Organizing, Isolates, MaxWorkspaces

ASSUME AccountsAssumption == MaxWorkspaces \in Nat

VARIABLES
  spelling,    \* how the provider spells the address
  people,      \* the rows of people
  alias,       \* whose person_email_aliases row has the normalized address
  identity,    \* whose identities row has the login's subject
  members,     \* people with the speaker role in the event
  workspaces,  \* the organizations each person organizes
  actors,      \* actorCache of each isolate, for the login's session token
  login,       \* the requests of the owner
  adding,      \* the requests of organizers
  raced        \* history: a request overlapped another, or used an actor that
               \* was cached before another isolate created a workspace

accountRows == <<people, alias, identity, members, workspaces>>
accountVars == <<spelling, accountRows, actors, login, adding, raced>>

Spellings == {"lower", "mixed"}
Nobody == "nobody"
AtRest == [at |-> "ready"]
NoActor == [person |-> Nobody, organizes |-> FALSE, speaks |-> FALSE, old |-> FALSE]

AccountsInit ==
  /\ spelling \in Spellings
  /\ people = {} /\ alias = Nobody /\ identity = Nobody /\ members = {}
  /\ workspaces = [p \in Spellings |-> 0]
  /\ actors = [i \in Isolates |-> NoActor]
  /\ login = [r \in Logins |-> AtRest]
  /\ adding = [a \in Organizing |-> AtRest]
  /\ raced = FALSE

Busy == {r \in Logins : login[r] # AtRest} \cup {a \in Organizing : adding[a] # AtRest}

-----------------------------------------------------------------------------
(* resolveActor                                                            *)

\* activeIdentityActor, one statement.
ActiveActor ==
  [person |-> identity, organizes |-> workspaces[identity] > 0,
   speaks |-> identity \in members, old |-> FALSE]

\* An actor with a role is cached for a while in the isolate.
Remember(i, actor) ==
  actors' = IF actor.organizes \/ actor.speaks
            THEN [actors EXCEPT ![i] = actor] ELSE actors

\* Only the onboarding goes on to write once the actor is known.
Acts(r, i, path, actor) ==
  login' = [login EXCEPT ![r] =
    IF path = "onboarding" /\ ~actor.organizes
    THEN [at |-> "onboard", isolate |-> i, person |-> actor.person] ELSE AtRest]

FromCache(r, i, path) ==
  /\ login[r] = AtRest /\ actors[i] # NoActor
  /\ Acts(r, i, path, actors[i])
  /\ raced' = (raced \/ Busy # {} \/ actors[i].old)
  /\ UNCHANGED <<spelling, accountRows, actors, adding>>

FromDatabase(r, i, path) ==
  /\ login[r] = AtRest /\ actors[i] = NoActor
  /\ IF identity # Nobody
     THEN Acts(r, i, path, ActiveActor) /\ Remember(i, ActiveActor)
     ELSE /\ login' = [login EXCEPT ![r] = [at |-> "lookup", isolate |-> i, path |-> path]]
          /\ UNCHANGED actors
  /\ raced' = (raced \/ Busy # {})
  /\ UNCHANGED <<spelling, accountRows, adding>>

Expire(i) ==
  /\ actors[i] # NoActor
  /\ actors' = [actors EXCEPT ![i] = NoActor]
  /\ UNCHANGED <<spelling, accountRows, login, adding, raced>>

-----------------------------------------------------------------------------
(* provisionFirstLogin                                                     *)

\* Bug: the alias is looked up as the provider spells the address.
BugKnownAlias == IF alias = spelling THEN alias ELSE Nobody

KnownAlias == alias

\* Without an alias, /session and /onboarding open an account; a speaker path
\* needs an open form, and other paths are refused.
Lookup(r, formOpen) ==
  /\ login[r].at = "lookup"
  /\ login' = [login EXCEPT ![r] =
       IF KnownAlias = Nobody /\ @.path = "speaker" /\ ~formOpen THEN AtRest
       ELSE [at |-> "provision", isolate |-> @.isolate, path |-> @.path, known |-> KnownAlias]]
  /\ UNCHANGED <<spelling, accountRows, actors, adding, raced>>

\* linkIdentity: the subject may be linked to somebody else meanwhile.
LinkIdentity(r) ==
  /\ login[r].at = "provision" /\ login[r].known # Nobody
  /\ identity' = IF identity = Nobody THEN login[r].known ELSE identity
  /\ login' = [login EXCEPT ![r] =
       IF identity' = @.known
       THEN [at |-> "reread", isolate |-> @.isolate, path |-> @.path] ELSE AtRest]
  /\ UNCHANGED <<spelling, people, alias, members, workspaces, actors, adding, raced>>

\* provisionAccount and the speaker's enrolment: inserts that do nothing when
\* their row is there.
ProvisionAccount(r) ==
  /\ login[r].at = "provision" /\ login[r].known = Nobody
  /\ people' = people \cup {spelling}
  /\ alias' = IF alias = Nobody THEN spelling ELSE alias
  /\ identity' = IF identity = Nobody THEN spelling ELSE identity
  /\ members' = IF login[r].path = "speaker" THEN members \cup {spelling} ELSE members
  /\ login' = [login EXCEPT ![r] = [at |-> "reread", isolate |-> @.isolate, path |-> @.path]]
  /\ UNCHANGED <<spelling, workspaces, actors, adding, raced>>

Reread(r) ==
  /\ login[r].at = "reread"
  /\ Acts(r, login[r].isolate, login[r].path, ActiveActor)
  /\ Remember(login[r].isolate, ActiveActor)
  /\ UNCHANGED <<spelling, accountRows, adding, raced>>

-----------------------------------------------------------------------------
(* workspace.ts                                                            *)

\* invalidateActorCache; the caches of other isolates keep what they have.
Invalidate(i) ==
  [j \in Isolates |->
    IF j = i \/ actors[j] = NoActor THEN NoActor ELSE [actors[j] EXCEPT !.old = TRUE]]

CreateWorkspace(r) ==
  /\ login[r].at = "onboard" /\ workspaces[login[r].person] < MaxWorkspaces
  /\ workspaces' = [workspaces EXCEPT ![login[r].person] = @ + 1]
  /\ actors' = Invalidate(login[r].isolate)
  /\ login' = [login EXCEPT ![r] = AtRest]
  /\ UNCHANGED <<spelling, people, alias, identity, members, adding, raced>>

-----------------------------------------------------------------------------
(* persistExplicitSpeaker and persistContact: read, then write.            *)

FindPerson(a, speaker) ==
  /\ adding[a] = AtRest
  /\ \E found \in people \cup {Nobody} :
       /\ alias # Nobody => found = alias
       /\ alias = Nobody => (found = Nobody <=> people = {})
       /\ adding' = [adding EXCEPT ![a] = [at |-> "persist", person |-> found, speaker |-> speaker]]
  /\ raced' = (raced \/ Busy # {})
  /\ UNCHANGED <<spelling, accountRows, actors, login>>

\* The insert of a person has no conflict clause, so one that is there fails
\* the transaction.
PersistPerson(a) ==
  /\ adding[a].at = "persist"
  /\ LET person == IF adding[a].person = Nobody THEN "lower" ELSE adding[a].person
     IN  IF adding[a].person = Nobody /\ person \in people
         THEN UNCHANGED accountRows
         ELSE /\ people' = people \cup {person}
              /\ alias' = IF alias = Nobody THEN person ELSE alias
              /\ members' = IF adding[a].speaker THEN members \cup {person} ELSE members
              /\ UNCHANGED <<identity, workspaces>>
  /\ adding' = [adding EXCEPT ![a] = AtRest]
  /\ UNCHANGED <<spelling, actors, login, raced>>

AccountsNext ==
  \/ \E r \in Logins :
       \/ \E i \in Isolates, path \in {"session", "onboarding", "speaker"} :
            FromCache(r, i, path) \/ FromDatabase(r, i, path)
       \/ \E formOpen \in BOOLEAN : Lookup(r, formOpen)
       \/ LinkIdentity(r) \/ ProvisionAccount(r) \/ Reread(r) \/ CreateWorkspace(r)
  \/ \E i \in Isolates : Expire(i)
  \/ \E a \in Organizing : (\E speaker \in BOOLEAN : FindPerson(a, speaker)) \/ PersistPerson(a)

AccountsSpec == AccountsInit /\ [][AccountsNext]_accountVars

-----------------------------------------------------------------------------
(* Properties.                                                             *)

AccountsTypeOK ==
  /\ people \subseteq Spellings /\ members \subseteq people
  /\ {alias, identity} \subseteq people \cup {Nobody}
  /\ workspaces \in [Spellings -> 0..MaxWorkspaces]
  /\ \A i \in Isolates : actors[i].person \in people \cup {Nobody}

\* An address that the provider spells in lower case has one person, whatever
\* requests overlap; any address has one unless they do.
OnePerson ==
  spelling = "lower" \/ ~raced => Cardinality(people) <= 1

\* The owner signs in as the person organizers added, so every speaker row of
\* the address opens in the portal, unless the address has two people.
SpeakerSignsIn ==
  Cardinality(people) <= 1 /\ identity # Nobody => members \subseteq {identity}

\* An account organizes one workspace ("This account already belongs to an
\* organization"), unless two onboardings overlap or the second is served by
\* an isolate that cached the actor before the first.
OneWorkspace == ~raced => \A p \in people : workspaces[p] <= 1

AccountsSafe == AccountsTypeOK /\ OnePerson /\ SpeakerSignsIn /\ OneWorkspace

=============================================================================
