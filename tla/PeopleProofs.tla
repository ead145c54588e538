---------------------------- MODULE PeopleProofs ----------------------------
(***************************************************************************)
(* Proofs about the people of the event (Accounts, Crm) and what is asked  *)
(* of them (SpeakerTasks), for every value of their constants, and about   *)
(* the services that are composed of them (MCServices).                    *)
(***************************************************************************)
EXTENDS MCServices, FiniteSetTheorems, TLAPS

-----------------------------------------------------------------------------
(***************************************************************************)
(* Accounts: the owner of an address signs in while organizers add         *)
(* people.                                                                 *)
(***************************************************************************)

Paths == {"session", "onboarding", "speaker"}
SomeOf == people \cup {Nobody}

\* Where a request of the owner is, and what is still true of what it has read if no other
\* request overlapped it.
LoginFits(r) ==
  \/ login[r] = AtRest
  \/ login[r] \in [at : {"lookup"}, isolate : Isolates, path : Paths]
  \/ /\ login[r] \in [at : {"provision"}, isolate : Isolates, path : Paths, known : SomeOf]
     /\ ~raced => login[r].known = alias
  \/ /\ login[r] \in [at : {"reread"}, isolate : Isolates, path : Paths]
     /\ identity # Nobody
  \/ /\ login[r] \in [at : {"onboard"}, isolate : Isolates, person : people]
     /\ ~raced => workspaces[login[r].person] = 0

AddingFits(a) ==
  \/ adding[a] = AtRest
  \/ /\ adding[a] \in [at : {"persist"}, person : SomeOf, speaker : BOOLEAN]
     /\ ~raced => adding[a].person = alias

\* A cached actor knows the workspaces, unless it is older than one.
ActorFits(i) ==
  \/ actors[i] = NoActor
  \/ /\ actors[i] \in [person : people, organizes : BOOLEAN, speaks : BOOLEAN, old : BOOLEAN]
     /\ ~actors[i].old /\ ~actors[i].organizes => workspaces[actors[i].person] = 0

\* Without a race one request moves at a time.
Alone ==
  /\ \A r, q \in Logins : login[r] # AtRest /\ login[q] # AtRest => r = q
  /\ \A a, b \in Organizing : adding[a] # AtRest /\ adding[b] # AtRest => a = b
  /\ \A r \in Logins, a \in Organizing : login[r] = AtRest \/ adding[a] = AtRest

RowsTyped ==
  /\ spelling \in Spellings /\ raced \in BOOLEAN
  /\ people \subseteq Spellings /\ members \subseteq people
  /\ alias \in SomeOf /\ identity \in SomeOf /\ (alias = Nobody => people = {})
  /\ workspaces \in [Spellings -> 0..MaxWorkspaces]
  /\ actors = [i \in Isolates |-> actors[i]]
  /\ login = [r \in Logins |-> login[r]]
  /\ adding = [a \in Organizing |-> adding[a]]

\* The rows of the address.
RowsFit ==
  /\ spelling = "lower" => people \subseteq {"lower"}
  /\ ~raced => /\ \A p, q \in people : p = q
               /\ \A p \in Spellings : workspaces[p] <= 1
               /\ Alone

AccountsInductive ==
  /\ RowsTyped /\ RowsFit
  /\ \A r \in Logins : LoginFits(r)
  /\ \A a \in Organizing : AddingFits(a)
  /\ \A i \in Isolates : ActorFits(i)

-----------------------------------------------------------------------------
(* What a step of one request leaves to the others.                        *)

\* A request that does not move is as fit as it was: without a race it is the one that moves.
LEMMA AccountStep ==
  ASSUME AccountsInductive, RowsTyped', raced => raced', people \subseteq people',
         identity # Nobody => identity' # Nobody,
         \A r \in Logins : \/ LoginFits(r)'
                           \/ /\ login'[r] = login[r]
                              /\ raced' \/ login[r] = AtRest \/ UNCHANGED <<alias, workspaces>>,
         \A a \in Organizing : \/ AddingFits(a)'
                               \/ /\ adding'[a] = adding[a]
                                  /\ raced' \/ adding[a] = AtRest \/ UNCHANGED alias,
         \A i \in Isolates : \/ ActorFits(i)'
                             \/ actors'[i] = actors[i] /\ UNCHANGED workspaces,
         RowsFit'
  PROVE  AccountsInductive'
<1>1. SomeOf \subseteq SomeOf'
  BY DEF SomeOf
<1>2. ASSUME NEW r \in Logins, login'[r] = login[r],
             raced' \/ login[r] = AtRest \/ UNCHANGED <<alias, workspaces>>
      PROVE  LoginFits(r)'
  <2>1. LoginFits(r)
    BY DEF AccountsInductive
  <2>2. CASE login[r] = AtRest
    BY <1>2, <2>2 DEF LoginFits, AtRest
  <2>3. CASE login[r] \in [at : {"lookup"}, isolate : Isolates, path : Paths]
    BY <1>2, <2>3 DEF LoginFits, Paths
  <2>4. CASE /\ login[r] \in [at : {"provision"}, isolate : Isolates, path : Paths, known : SomeOf]
             /\ ~raced => login[r].known = alias
    <3>1. login'[r] \in [at : {"provision"}, isolate : Isolates, path : Paths, known : SomeOf']
      BY <1>1, <1>2, <2>4
    <3>2. login[r] # AtRest
      BY <2>4 DEF AtRest
    <3>3. ~raced' => login'[r].known = alias'
      BY <1>2, <2>4, <3>2
    <3> QED BY <3>1, <3>3 DEF LoginFits, Paths
  <2>5. CASE /\ login[r] \in [at : {"reread"}, isolate : Isolates, path : Paths]
             /\ identity # Nobody
    BY <1>2, <2>5 DEF LoginFits, Paths
  <2>6. CASE /\ login[r] \in [at : {"onboard"}, isolate : Isolates, person : people]
             /\ ~raced => workspaces[login[r].person] = 0
    <3>1. login'[r] \in [at : {"onboard"}, isolate : Isolates, person : people']
      BY <1>2, <2>6
    <3>2. login[r] # AtRest
      BY <2>6 DEF AtRest
    <3>3. ~raced' => workspaces'[login'[r].person] = 0
      BY <1>2, <2>6, <3>2
    <3> QED BY <3>1, <3>3 DEF LoginFits, Paths
  <2> QED BY <2>1, <2>2, <2>3, <2>4, <2>5, <2>6 DEF LoginFits
<1>3. ASSUME NEW a \in Organizing, adding'[a] = adding[a], raced' \/ adding[a] = AtRest \/ UNCHANGED alias
      PROVE  AddingFits(a)'
  <2>1. AddingFits(a)
    BY DEF AccountsInductive
  <2>2. CASE adding[a] = AtRest
    BY <1>3, <2>2 DEF AddingFits, AtRest
  <2>3. CASE /\ adding[a] \in [at : {"persist"}, person : SomeOf, speaker : BOOLEAN]
             /\ ~raced => adding[a].person = alias
    <3>1. adding'[a] \in [at : {"persist"}, person : SomeOf', speaker : BOOLEAN]
      BY <1>1, <1>3, <2>3
    <3>2. adding[a] # AtRest
      BY <2>3 DEF AtRest
    <3>3. ~raced' => adding'[a].person = alias'
      BY <1>3, <2>3, <3>2
    <3> QED BY <3>1, <3>3 DEF AddingFits
  <2> QED BY <2>1, <2>2, <2>3 DEF AddingFits
<1>4. ASSUME NEW i \in Isolates, actors'[i] = actors[i], UNCHANGED workspaces PROVE ActorFits(i)'
  BY <1>4 DEF AccountsInductive, ActorFits, NoActor
<1> QED BY <1>2, <1>3, <1>4 DEF AccountsInductive

\* One request is at work when there has been no race.
LEMMA AloneMeans ==
  ASSUME AccountsInductive, ~raced
  PROVE  /\ \A r \in Logins : login[r] # AtRest =>
              /\ \A q \in Logins : q # r => login[q] = AtRest
              /\ \A a \in Organizing : adding[a] = AtRest
         /\ \A a \in Organizing : adding[a] # AtRest =>
              /\ \A b \in Organizing : b # a => adding[b] = AtRest
              /\ \A r \in Logins : login[r] = AtRest
BY DEF AccountsInductive, RowsFit, Alone

\* A request that starts beside another is a race.
LEMMA StartsAlone ==
  ASSUME AccountsInductive, Busy = {}
  PROVE  (\A r \in Logins : login[r] = AtRest) /\ (\A a \in Organizing : adding[a] = AtRest)
BY DEF Busy

\* What the invariant says of one request.
LEMMA WhoFits ==
  ASSUME AccountsInductive
  PROVE  /\ RowsTyped /\ RowsFit
         /\ \A r \in Logins :
              /\ login[r].at = "lookup" => login[r] \in [at : {"lookup"}, isolate : Isolates, path : Paths]
              /\ login[r].at = "provision" =>
                   /\ login[r] \in [at : {"provision"}, isolate : Isolates, path : Paths, known : SomeOf]
                   /\ ~raced => login[r].known = alias
              /\ login[r].at = "reread" =>
                   /\ login[r] \in [at : {"reread"}, isolate : Isolates, path : Paths]
                   /\ identity # Nobody
              /\ login[r].at = "onboard" =>
                   /\ login[r] \in [at : {"onboard"}, isolate : Isolates, person : people]
                   /\ ~raced => workspaces[login[r].person] = 0
         /\ \A a \in Organizing : adding[a].at = "persist" =>
              /\ adding[a] \in [at : {"persist"}, person : SomeOf, speaker : BOOLEAN]
              /\ ~raced => adding[a].person = alias
         /\ \A i \in Isolates : ActorFits(i)
<1>1. ASSUME NEW r \in Logins
      PROVE  /\ login[r].at = "lookup" => login[r] \in [at : {"lookup"}, isolate : Isolates, path : Paths]
             /\ login[r].at = "provision" =>
                  /\ login[r] \in [at : {"provision"}, isolate : Isolates, path : Paths, known : SomeOf]
                  /\ ~raced => login[r].known = alias
             /\ login[r].at = "reread" =>
                  /\ login[r] \in [at : {"reread"}, isolate : Isolates, path : Paths]
                  /\ identity # Nobody
             /\ login[r].at = "onboard" =>
                  /\ login[r] \in [at : {"onboard"}, isolate : Isolates, person : people]
                  /\ ~raced => workspaces[login[r].person] = 0
  BY DEF AccountsInductive, LoginFits, AtRest
<1>2. ASSUME NEW a \in Organizing, adding[a].at = "persist"
      PROVE  /\ adding[a] \in [at : {"persist"}, person : SomeOf, speaker : BOOLEAN]
             /\ ~raced => adding[a].person = alias
  BY <1>2 DEF AccountsInductive, AddingFits, AtRest
<1> QED BY <1>1, <1>2 DEF AccountsInductive

-----------------------------------------------------------------------------
(* The steps of a login.                                                   *)

\* A request that begins alone is alone.
LEMMA StartKeeps ==
  ASSUME AccountsInductive, NEW r \in Logins, login[r] = AtRest, NEW v, login' = [login EXCEPT ![r] = v],
         raced' \in BOOLEAN, raced => raced', ~raced' => Busy = {},
         UNCHANGED <<spelling, accountRows, adding>>, LoginFits(r)',
         actors' = [i \in Isolates |-> actors'[i]], \A i \in Isolates : ActorFits(i)'
  PROVE  AccountsInductive'
<1>1. UNCHANGED <<people, alias, identity, members, workspaces>> /\ RowsTyped /\ RowsFit
  BY WhoFits DEF accountRows
<1>2. RowsTyped' /\ \A q \in Logins : q # r => login'[q] = login[q]
  BY <1>1 DEF RowsTyped, SomeOf, Spellings
<1>3. RowsFit'
  <2>1. spelling' = "lower" => people' \subseteq {"lower"}
    BY <1>1 DEF RowsFit
  <2>2. ASSUME ~raced'
        PROVE  /\ \A p, q \in people' : p = q
               /\ \A p \in Spellings : workspaces'[p] <= 1
               /\ Alone'
    <3>1. Busy = {} /\ ~raced
      BY <2>2
    <3>2. Alone'
      BY <1>2, <3>1, StartsAlone DEF Alone, AtRest
    <3> QED BY <1>1, <3>1, <3>2 DEF RowsFit
  <2> QED BY <2>1, <2>2 DEF RowsFit
<1> QED BY <1>1, <1>2, <1>3, AccountStep

\* A request that is served from the cache.
LEMMA FromCacheKeeps ==
  ASSUME AccountsInductive, NEW r \in Logins, NEW i \in Isolates, NEW path \in Paths,
         FromCache(r, i, path)
  PROVE  AccountsInductive'
<1>1. PICK x : x = actors[i]
  OBVIOUS
<1>2. PICK v : v = IF path = "onboarding" /\ ~x.organizes
                   THEN [at |-> "onboard", isolate |-> i, person |-> x.person] ELSE AtRest
  OBVIOUS
<1>3. /\ login[r] = AtRest /\ x # NoActor /\ login' = [login EXCEPT ![r] = v]
      /\ raced' = (raced \/ Busy # {} \/ x.old)
      /\ UNCHANGED <<spelling, accountRows, actors, adding>>
  BY <1>1, <1>2 DEF FromCache, Acts
<1>4. /\ x \in [person : people, organizes : BOOLEAN, speaks : BOOLEAN, old : BOOLEAN]
      /\ ~x.old /\ ~x.organizes => workspaces[x.person] = 0
  BY <1>1, <1>3 DEF AccountsInductive, ActorFits
<1>5. raced' \in BOOLEAN /\ (raced => raced') /\ (~raced' => Busy = {} /\ ~x.old)
  BY <1>3
<1>6. UNCHANGED <<people, workspaces>> /\ login'[r] = v
  BY <1>3 DEF AccountsInductive, RowsTyped, accountRows
<1>7. LoginFits(r)'
  <2>1. CASE path = "onboarding" /\ ~x.organizes
    <3>1. v = [at |-> "onboard", isolate |-> i, person |-> x.person]
      BY <1>2, <2>1
    <3>2. login'[r] \in [at : {"onboard"}, isolate : Isolates, person : people']
      BY <1>4, <1>6, <3>1
    <3>3. ~raced' => workspaces'[login'[r].person] = 0
      BY <1>4, <1>5, <1>6, <2>1, <3>1
    <3> QED BY <3>2, <3>3 DEF LoginFits
  <2>2. CASE ~(path = "onboarding" /\ ~x.organizes)
    <3>1. v = AtRest
      BY <1>2, <2>2
    <3> QED BY <1>6, <3>1 DEF LoginFits, AtRest
  <2> QED BY <2>1, <2>2
<1>8. actors' = [k \in Isolates |-> actors'[k]] /\ \A k \in Isolates : ActorFits(k)'
  BY <1>3, <1>6 DEF AccountsInductive, RowsTyped, ActorFits, NoActor
<1> QED BY <1>3, <1>5, <1>7, <1>8, StartKeeps

\* An actor that is read knows the workspaces as they are.
LEMMA ActiveActorFits ==
  ASSUME AccountsInductive, identity # Nobody, UNCHANGED <<people, workspaces>>,
         NEW x, x = ActiveActor, NEW i \in Isolates,
         actors' = IF x.organizes \/ x.speaks THEN [actors EXCEPT ![i] = x] ELSE actors
  PROVE  /\ x.person \in people /\ (~x.organizes => workspaces[x.person] = 0)
         /\ actors' = [k \in Isolates |-> actors'[k]] /\ \A k \in Isolates : ActorFits(k)'
<1>1. identity \in people /\ people \subseteq Spellings /\ workspaces[identity] \in Nat
  BY AccountsAssumption DEF AccountsInductive, RowsTyped, SomeOf
<1>2. x = [person |-> identity, organizes |-> workspaces[identity] > 0,
           speaks |-> identity \in members, old |-> FALSE]
  BY DEF ActiveActor
<1>3. x.person = identity /\ (x.organizes <=> workspaces[identity] > 0)
  <2>1. x.person = identity /\ x.organizes = (workspaces[identity] > 0)
    BY <1>2
  <2>2. x.organizes <=> workspaces[identity] > 0
    BY <2>1
  <2> QED BY <2>1, <2>2
<1>4. x \in [person : people, organizes : BOOLEAN, speaks : BOOLEAN, old : BOOLEAN]
  BY <1>1, <1>2
<1>5. ~x.organizes => workspaces[identity] = 0
  BY <1>1, <1>3
<1>6. actors' = [k \in Isolates |-> actors'[k]] /\ \A k \in Isolates : actors'[k] = actors[k] \/ actors'[k] = x
  BY DEF AccountsInductive, RowsTyped
<1>7. ASSUME NEW k \in Isolates PROVE ActorFits(k)'
  <2>1. CASE actors'[k] = x
    BY <1>3, <1>4, <1>5, <2>1 DEF ActorFits
  <2>2. CASE actors'[k] = actors[k]
    BY <2>2 DEF AccountsInductive, ActorFits, NoActor
  <2> QED BY <1>6, <2>1, <2>2
<1> QED BY <1>1, <1>3, <1>5, <1>6, <1>7

\* A request that asks the database.
LEMMA FromDatabaseKeeps ==
  ASSUME AccountsInductive, NEW r \in Logins, NEW i \in Isolates, NEW path \in Paths,
         FromDatabase(r, i, path)
  PROVE  AccountsInductive'
<1>1. /\ login[r] = AtRest /\ raced' = (raced \/ Busy # {})
      /\ UNCHANGED <<spelling, accountRows, adding>>
      /\ UNCHANGED <<people, workspaces, identity>>
  BY DEF FromDatabase, accountRows
<1>2. raced' \in BOOLEAN /\ (raced => raced') /\ (~raced' => Busy = {})
  BY <1>1
<1>3. CASE identity # Nobody
  <2>1. PICK x : x = ActiveActor
    OBVIOUS
  <2>2. PICK v : v = IF path = "onboarding" /\ ~x.organizes
                     THEN [at |-> "onboard", isolate |-> i, person |-> x.person] ELSE AtRest
    OBVIOUS
  <2>3. /\ login' = [login EXCEPT ![r] = v]
        /\ actors' = IF x.organizes \/ x.speaks THEN [actors EXCEPT ![i] = x] ELSE actors
    BY <1>3, <2>1, <2>2 DEF FromDatabase, Acts, Remember
  <2>4. /\ x.person \in people /\ (~x.organizes => workspaces[x.person] = 0)
        /\ actors' = [k \in Isolates |-> actors'[k]] /\ \A k \in Isolates : ActorFits(k)'
    BY <1>1, <1>3, <2>1, <2>3, ActiveActorFits
  <2>5. login'[r] = v
    BY <2>3 DEF AccountsInductive, RowsTyped
  <2>6. LoginFits(r)'
    <3>1. CASE path = "onboarding" /\ ~x.organizes
      <4>1. v = [at |-> "onboard", isolate |-> i, person |-> x.person]
        BY <2>2, <3>1
      <4> QED BY <1>1, <2>4, <2>5, <3>1, <4>1 DEF LoginFits
    <3>2. CASE ~(path = "onboarding" /\ ~x.organizes)
      <4>1. v = AtRest
        BY <2>2, <3>2
      <4> QED BY <2>5, <4>1 DEF LoginFits, AtRest
    <3> QED BY <3>1, <3>2
  <2> QED BY <1>1, <1>2, <2>3, <2>4, <2>6, StartKeeps
<1>4. CASE identity = Nobody
  <2>1. PICK v : v = [at |-> "lookup", isolate |-> i, path |-> path]
    OBVIOUS
  <2>2. login' = [login EXCEPT ![r] = v] /\ UNCHANGED actors
    BY <1>4, <2>1 DEF FromDatabase
  <2>3. login'[r] = v
    BY <2>2 DEF AccountsInductive, RowsTyped
  <2>4. LoginFits(r)'
    BY <2>1, <2>3 DEF LoginFits
  <2>5. actors' = [k \in Isolates |-> actors'[k]] /\ \A k \in Isolates : ActorFits(k)'
    BY <1>1, <2>2 DEF AccountsInductive, RowsTyped, ActorFits, NoActor
  <2> QED BY <1>1, <1>2, <2>2, <2>4, <2>5, StartKeeps
<1> QED BY <1>3, <1>4

\* A request at work goes on; if there was no race the others are at rest.
LEMMA GoesOn ==
  ASSUME AccountsInductive, NEW r \in Logins, login[r] # AtRest, NEW v, login' = [login EXCEPT ![r] = v],
         UNCHANGED <<spelling, adding, raced>>, LoginFits(r)',
         people \subseteq people', people' \subseteq Spellings, members' \subseteq people',
         alias' \in SomeOf', identity' \in SomeOf', alias' = Nobody => people' = {},
         identity # Nobody => identity' # Nobody,
         workspaces' \in [Spellings -> 0..MaxWorkspaces],
         spelling = "lower" => people' \subseteq {"lower"},
         ~raced => (\A p, q \in people' : p = q) /\ \A p \in Spellings : workspaces'[p] <= 1,
         actors' = [i \in Isolates |-> actors'[i]], \A i \in Isolates : ActorFits(i)'
  PROVE  AccountsInductive'
<1>1. RowsTyped' /\ \A q \in Logins : q # r => login'[q] = login[q]
  BY DEF AccountsInductive, RowsTyped, Spellings
<1>2. ~raced' => /\ \A q \in Logins : q # r => login[q] = AtRest
                 /\ \A a \in Organizing : adding[a] = AtRest
  BY AloneMeans
<1>3. RowsFit'
  <2>1. ASSUME ~raced' PROVE Alone'
    BY <1>1, <1>2, <2>1 DEF Alone, AtRest
  <2> QED BY <2>1 DEF RowsFit
<1>4. raced \in BOOLEAN /\ raced' = raced
  BY DEF AccountsInductive, RowsTyped
<1> QED BY <1>1, <1>2, <1>3, <1>4, AccountStep

\* The lookup of an alias.
LEMMA LookupKeeps ==
  ASSUME AccountsInductive, NEW r \in Logins, NEW formOpen \in BOOLEAN, Lookup(r, formOpen)
  PROVE  AccountsInductive'
<1>1. /\ login[r] \in [at : {"lookup"}, isolate : Isolates, path : Paths] /\ login[r] # AtRest
      /\ UNCHANGED <<spelling, people, alias, identity, members, workspaces, actors, adding, raced>>
  BY WhoFits DEF Lookup, accountRows, AtRest
<1>2. PICK v : v = IF alias = Nobody /\ login[r].path = "speaker" /\ ~formOpen THEN AtRest
                   ELSE [at |-> "provision", isolate |-> login[r].isolate,
                         path |-> login[r].path, known |-> alias]
  OBVIOUS
<1>3. login' = [login EXCEPT ![r] = v]
  BY <1>2 DEF Lookup, KnownAlias
<1>4. RowsTyped /\ RowsFit /\ login'[r] = v
  BY <1>3, WhoFits DEF RowsTyped
<1>5. LoginFits(r)'
  <2>1. CASE v = AtRest
    BY <1>4, <2>1 DEF LoginFits, AtRest
  <2>2. CASE v = [at |-> "provision", isolate |-> login[r].isolate, path |-> login[r].path, known |-> alias]
    BY <1>1, <1>4, <2>2 DEF LoginFits, RowsTyped, SomeOf
  <2> QED BY <1>2, <2>1, <2>2
<1>6. actors' = [i \in Isolates |-> actors'[i]] /\ \A i \in Isolates : ActorFits(i)'
  BY <1>1, WhoFits DEF RowsTyped, ActorFits, NoActor
<1> QED BY <1>1, <1>3, <1>4, <1>5, <1>6, GoesOn DEF RowsTyped, RowsFit, SomeOf

\* The subject is linked to the person of the alias.
LEMMA LinkIdentityKeeps ==
  ASSUME AccountsInductive, NEW r \in Logins, LinkIdentity(r) PROVE AccountsInductive'
<1>1. /\ login[r] \in [at : {"provision"}, isolate : Isolates, path : Paths, known : SomeOf]
      /\ login[r] # AtRest /\ login[r].known # Nobody
      /\ identity' = IF identity = Nobody THEN login[r].known ELSE identity
      /\ UNCHANGED <<spelling, people, alias, members, workspaces, actors, adding, raced>>
  BY WhoFits DEF LinkIdentity, AtRest
<1>2. PICK v : v = IF identity' = login[r].known
                   THEN [at |-> "reread", isolate |-> login[r].isolate, path |-> login[r].path]
                   ELSE AtRest
  OBVIOUS
<1>3. login' = [login EXCEPT ![r] = v]
  BY <1>2 DEF LinkIdentity
<1>4. RowsTyped /\ RowsFit /\ login'[r] = v
  BY <1>3, WhoFits DEF RowsTyped
<1>5. identity' \in SomeOf' /\ identity' # Nobody
  BY <1>1, <1>4 DEF RowsTyped, SomeOf
<1>6. LoginFits(r)'
  <2>1. CASE v = AtRest
    BY <1>4, <2>1 DEF LoginFits, AtRest
  <2>2. CASE v = [at |-> "reread", isolate |-> login[r].isolate, path |-> login[r].path]
    BY <1>1, <1>4, <1>5, <2>2 DEF LoginFits
  <2> QED BY <1>2, <2>1, <2>2
<1>7. actors' = [i \in Isolates |-> actors'[i]] /\ \A i \in Isolates : ActorFits(i)'
  BY <1>1, <1>4, WhoFits DEF RowsTyped, ActorFits, NoActor
<1> QED BY <1>1, <1>3, <1>4, <1>5, <1>6, <1>7, GoesOn DEF RowsTyped, RowsFit, SomeOf

\* Without an alias the address has no person; with a race it may have got one.
LEMMA ProvisionAccountKeeps ==
  ASSUME AccountsInductive, NEW r \in Logins, ProvisionAccount(r) PROVE AccountsInductive'
<1>1. /\ login[r] \in [at : {"provision"}, isolate : Isolates, path : Paths, known : SomeOf]
      /\ ~raced => alias = Nobody
      /\ login[r] # AtRest
  BY WhoFits DEF ProvisionAccount, AtRest
<1>2. /\ people' = people \cup {spelling}
      /\ alias' = IF alias = Nobody THEN spelling ELSE alias
      /\ identity' = IF identity = Nobody THEN spelling ELSE identity
      /\ members' = IF login[r].path = "speaker" THEN members \cup {spelling} ELSE members
      /\ UNCHANGED <<spelling, workspaces, actors, adding, raced>>
  BY DEF ProvisionAccount
<1>3. PICK v : v = [at |-> "reread", isolate |-> login[r].isolate, path |-> login[r].path]
  OBVIOUS
<1>4. login' = [login EXCEPT ![r] = v]
  BY <1>3 DEF ProvisionAccount
<1>5. RowsTyped /\ RowsFit /\ login'[r] = v
  BY <1>4, WhoFits DEF RowsTyped
<1>6. spelling \in Spellings /\ spelling # Nobody /\ \A p \in Spellings : p # Nobody
  BY <1>5 DEF RowsTyped, Spellings, Nobody
<1>7. /\ people' \subseteq Spellings /\ members' \subseteq people'
      /\ alias' \in SomeOf' /\ alias' # Nobody /\ identity' \in SomeOf' /\ identity' # Nobody
  BY <1>2, <1>5, <1>6 DEF RowsTyped, SomeOf
<1>8. LoginFits(r)'
  BY <1>1, <1>3, <1>5, <1>7 DEF LoginFits
<1>9. ~raced => people = {}
  BY <1>1, <1>5 DEF RowsTyped
<1>10. ~raced => \A p, q \in people' : p = q
  BY <1>2, <1>9
<1>11. spelling = "lower" => people' \subseteq {"lower"}
  BY <1>2, <1>5 DEF RowsFit
<1>12. actors' = [i \in Isolates |-> actors'[i]] /\ \A i \in Isolates : ActorFits(i)'
  <2>1. people \subseteq people'
    BY <1>2
  <2> QED BY <1>2, <1>5, <2>1, WhoFits DEF RowsTyped, ActorFits, NoActor
<1>13. people \subseteq people' /\ \A p \in Spellings : ~raced => workspaces'[p] <= 1
  BY <1>2, <1>5 DEF RowsFit
<1>14. workspaces' \in [Spellings -> 0..MaxWorkspaces]
  BY <1>2, <1>5 DEF RowsTyped
<1> QED BY <1>1, <1>2, <1>4, <1>7, <1>8, <1>10, <1>11, <1>12, <1>13, <1>14, GoesOn

\* The actor is read again.
LEMMA RereadKeeps ==
  ASSUME AccountsInductive, NEW r \in Logins, Reread(r) PROVE AccountsInductive'
<1>1. /\ login[r] \in [at : {"reread"}, isolate : Isolates, path : Paths]
      /\ login[r] # AtRest /\ identity # Nobody
      /\ UNCHANGED <<spelling, people, alias, identity, members, workspaces, adding, raced>>
  BY WhoFits DEF Reread, accountRows, AtRest
<1>2. PICK x : x = ActiveActor
  OBVIOUS
<1>3. PICK i, path : i = login[r].isolate /\ path = login[r].path
  OBVIOUS
<1>4. i \in Isolates /\ path \in Paths
  BY <1>1, <1>3
<1>5. PICK v : v = IF path = "onboarding" /\ ~x.organizes
                   THEN [at |-> "onboard", isolate |-> i, person |-> x.person] ELSE AtRest
  OBVIOUS
<1>6. /\ login' = [login EXCEPT ![r] = v]
      /\ actors' = IF x.organizes \/ x.speaks THEN [actors EXCEPT ![i] = x] ELSE actors
  BY <1>2, <1>3, <1>5 DEF Reread, Acts, Remember
<1>7. /\ x.person \in people /\ (~x.organizes => workspaces[x.person] = 0)
      /\ actors' = [k \in Isolates |-> actors'[k]] /\ \A k \in Isolates : ActorFits(k)'
  BY <1>1, <1>2, <1>4, <1>6, ActiveActorFits
<1>8. RowsTyped /\ RowsFit /\ login'[r] = v
  BY <1>6, WhoFits DEF RowsTyped
<1>9. LoginFits(r)'
  <2>1. CASE path = "onboarding" /\ ~x.organizes
    <3>1. v = [at |-> "onboard", isolate |-> i, person |-> x.person]
      BY <1>5, <2>1
    <3> QED BY <1>1, <1>4, <1>7, <1>8, <2>1, <3>1 DEF LoginFits
  <2>2. CASE ~(path = "onboarding" /\ ~x.organizes)
    <3>1. v = AtRest
      BY <1>5, <2>2
    <3> QED BY <1>8, <3>1 DEF LoginFits, AtRest
  <2> QED BY <2>1, <2>2
<1> QED BY <1>1, <1>6, <1>7, <1>8, <1>9, GoesOn DEF RowsTyped, RowsFit, SomeOf

\* A workspace is created; other isolates may still cache the actor without it.
LEMMA CreateWorkspaceKeeps ==
  ASSUME AccountsInductive, NEW r \in Logins, CreateWorkspace(r) PROVE AccountsInductive'
<1>1. /\ login[r] \in [at : {"onboard"}, isolate : Isolates, person : people]
      /\ ~raced => workspaces[login[r].person] = 0
      /\ login[r] # AtRest
  BY WhoFits DEF CreateWorkspace, AtRest
<1>2. PICK p, i : p = login[r].person /\ i = login[r].isolate
  OBVIOUS
<1>3. /\ workspaces[p] < MaxWorkspaces /\ workspaces' = [workspaces EXCEPT ![p] = @ + 1]
      /\ actors' = Invalidate(i) /\ login' = [login EXCEPT ![r] = AtRest]
      /\ UNCHANGED <<spelling, people, alias, identity, members, adding, raced>>
  BY <1>2 DEF CreateWorkspace
<1>4. /\ RowsTyped /\ RowsFit /\ login'[r] = AtRest /\ p \in people /\ p \in Spellings
  BY <1>1, <1>2, <1>3, WhoFits DEF RowsTyped
<1>5. /\ workspaces'[p] = workspaces[p] + 1 /\ workspaces[p] \in Nat
      /\ \A q \in Spellings : q # p => workspaces'[q] = workspaces[q]
      /\ workspaces' \in [Spellings -> 0..MaxWorkspaces]
  BY <1>3, <1>4, AccountsAssumption DEF RowsTyped
<1>6. LoginFits(r)'
  BY <1>4 DEF LoginFits, AtRest
<1>7. ~raced => \A q \in Spellings : workspaces'[q] <= 1
  BY <1>1, <1>2, <1>4, <1>5 DEF RowsFit
<1>8. actors' = [k \in Isolates |-> actors'[k]]
  BY <1>3 DEF Invalidate
<1>9. ASSUME NEW k \in Isolates PROVE ActorFits(k)'
  <2>1. PICK x : x = actors[k]
    OBVIOUS
  <2>2. actors'[k] = NoActor \/ (x # NoActor /\ actors'[k] = [x EXCEPT !.old = TRUE])
    BY <1>3, <2>1 DEF Invalidate
  <2>3. CASE actors'[k] = NoActor
    BY <2>3 DEF ActorFits, NoActor
  <2>4. CASE x # NoActor /\ actors'[k] = [x EXCEPT !.old = TRUE]
    <3>1. x \in [person : people, organizes : BOOLEAN, speaks : BOOLEAN, old : BOOLEAN]
      BY <2>1, <2>4, WhoFits DEF ActorFits
    <3>2. /\ actors'[k] \in [person : people', organizes : BOOLEAN, speaks : BOOLEAN, old : BOOLEAN]
          /\ actors'[k].old
      BY <1>3, <2>4, <3>1
    <3> QED BY <3>2 DEF ActorFits
  <2> QED BY <2>2, <2>3, <2>4
<1> QED BY <1>1, <1>3, <1>4, <1>5, <1>6, <1>7, <1>8, <1>9, GoesOn DEF RowsTyped, RowsFit, SomeOf

-----------------------------------------------------------------------------
(* The steps of organizers, and the expiry of a cached actor.              *)

\* An organizer's request beside another is a race; alone, it has read the alias as it is.
LEMMA FindPersonKeeps ==
  ASSUME AccountsInductive, NEW a \in Organizing, NEW speaker \in BOOLEAN, FindPerson(a, speaker)
  PROVE  AccountsInductive'
<1>1. /\ adding[a] = AtRest /\ raced' = (raced \/ Busy # {})
      /\ UNCHANGED <<spelling, people, alias, identity, members, workspaces, actors, login>>
  BY DEF FindPerson, accountRows
<1>2. PICK found \in SomeOf :
        /\ alias # Nobody => found = alias
        /\ alias = Nobody => (found = Nobody <=> people = {})
        /\ adding' = [adding EXCEPT ![a] = [at |-> "persist", person |-> found, speaker |-> speaker]]
  BY DEF FindPerson, SomeOf
<1>3. raced' \in BOOLEAN /\ (raced => raced') /\ (~raced' => Busy = {} /\ ~raced)
  BY <1>1
<1>4. RowsTyped /\ RowsFit
  BY WhoFits
<1>5. found = alias
  BY <1>2, <1>4 DEF RowsTyped
<1>6. /\ adding'[a] = [at |-> "persist", person |-> found, speaker |-> speaker]
      /\ \A b \in Organizing : b # a => adding'[b] = adding[b]
      /\ adding' = [b \in Organizing |-> adding'[b]]
  BY <1>2, <1>4 DEF RowsTyped
<1>7. RowsTyped'
  BY <1>1, <1>3, <1>4, <1>6 DEF RowsTyped, SomeOf, Spellings
<1>8. AddingFits(a)'
  BY <1>1, <1>2, <1>5, <1>6 DEF AddingFits, SomeOf
<1>9. RowsFit'
  <2>1. spelling' = "lower" => people' \subseteq {"lower"}
    BY <1>1, <1>4 DEF RowsFit
  <2>2. ASSUME ~raced'
        PROVE  /\ \A p, q \in people' : p = q
               /\ \A p \in Spellings : workspaces'[p] <= 1
               /\ Alone'
    <3>1. Busy = {} /\ ~raced
      BY <1>3, <2>2
    <3>2. Alone'
      BY <1>1, <1>6, <3>1, StartsAlone DEF Alone, AtRest
    <3> QED BY <1>1, <1>4, <3>1, <3>2 DEF RowsFit
  <2> QED BY <2>1, <2>2 DEF RowsFit
<1> QED BY <1>1, <1>3, <1>6, <1>7, <1>8, <1>9, AccountStep

\* A person is added only where the address was read to have none.
LEMMA PersistPersonKeeps ==
  ASSUME AccountsInductive, NEW a \in Organizing, PersistPerson(a) PROVE AccountsInductive'
<1>1. /\ adding[a] \in [at : {"persist"}, person : SomeOf, speaker : BOOLEAN]
      /\ ~raced => adding[a].person = alias
      /\ adding[a] # AtRest
  BY WhoFits DEF PersistPerson, AtRest
<1>2. PICK found, person : /\ found = adding[a].person
                           /\ person = IF found = Nobody THEN "lower" ELSE found
  OBVIOUS
<1>3. /\ adding' = [adding EXCEPT ![a] = AtRest] /\ UNCHANGED <<spelling, actors, login, raced>>
  BY DEF PersistPerson
<1>4. \/ UNCHANGED <<people, alias, identity, members, workspaces>>
      \/ /\ people' = people \cup {person}
         /\ alias' = IF alias = Nobody THEN person ELSE alias
         /\ members' = IF adding[a].speaker THEN members \cup {person} ELSE members
         /\ UNCHANGED <<identity, workspaces>>
  BY <1>2 DEF PersistPerson, accountRows
<1>5. RowsTyped /\ RowsFit
  BY WhoFits
<1>6. /\ adding'[a] = AtRest /\ \A b \in Organizing : b # a => adding'[b] = adding[b]
      /\ adding' = [b \in Organizing |-> adding'[b]]
  BY <1>3, <1>5 DEF RowsTyped
<1>7. person \in Spellings /\ person # Nobody /\ (person \in people \/ person = "lower")
  BY <1>1, <1>2, <1>5 DEF RowsTyped, SomeOf, Spellings, Nobody
<1>8. ~raced => people = {} \/ people = {person}
  <2>1. ASSUME ~raced, people # {} PROVE people = {person}
    <3>1. found = alias /\ alias # Nobody /\ alias \in people /\ person = alias
      BY <1>1, <1>2, <1>5, <2>1 DEF RowsTyped, SomeOf
    <3> QED BY <1>5, <2>1, <3>1 DEF RowsFit
  <2> QED BY <2>1
<1>9. /\ RowsTyped' /\ people \subseteq people'
      /\ spelling' = "lower" => people' \subseteq {"lower"}
      /\ ~raced => \A p, q \in people' : p = q
  <2>1. CASE UNCHANGED <<people, alias, identity, members, workspaces>>
    BY <1>3, <1>5, <1>6, <2>1 DEF RowsTyped, RowsFit, SomeOf, Spellings
  <2>2. CASE /\ people' = people \cup {person}
             /\ alias' = IF alias = Nobody THEN person ELSE alias
             /\ members' = IF adding[a].speaker THEN members \cup {person} ELSE members
             /\ UNCHANGED <<identity, workspaces>>
    <3>1. /\ people' \subseteq Spellings /\ members' \subseteq people' /\ people \subseteq people'
          /\ alias' \in SomeOf' /\ identity' \in SomeOf' /\ alias' # Nobody
      BY <1>5, <1>7, <2>2 DEF RowsTyped, SomeOf
    <3>2. RowsTyped'
      BY <1>3, <1>5, <1>6, <2>2, <3>1 DEF RowsTyped, Spellings
    <3>3. spelling' = "lower" => people' \subseteq {"lower"}
      BY <1>3, <1>5, <1>7, <2>2 DEF RowsFit
    <3>4. ~raced => \A p, q \in people' : p = q
      BY <1>8, <2>2
    <3> QED BY <3>1, <3>2, <3>3, <3>4
  <2> QED BY <1>4, <2>1, <2>2
<1>10. ~raced' => /\ \A r \in Logins : login[r] = AtRest
                  /\ \A b \in Organizing : b # a => adding[b] = AtRest
  BY <1>1, <1>3, AloneMeans
<1>11. UNCHANGED <<workspaces, identity>>
  BY <1>4
<1>12. RowsFit'
  <2>1. ~raced' => Alone'
    BY <1>3, <1>6, <1>10 DEF Alone, AtRest
  <2> QED BY <1>3, <1>5, <1>9, <1>11, <2>1 DEF RowsFit
<1>13. AddingFits(a)'
  BY <1>6 DEF AddingFits, AtRest
<1>14. raced => raced'
  BY <1>3
<1> QED BY <1>3, <1>6, <1>9, <1>10, <1>11, <1>12, <1>13, <1>14, AccountStep

\* A cached actor expires.
LEMMA ExpireKeeps ==
  ASSUME AccountsInductive, NEW i \in Isolates, Expire(i) PROVE AccountsInductive'
<1>1. /\ actors' = [actors EXCEPT ![i] = NoActor]
      /\ UNCHANGED <<spelling, people, alias, identity, members, workspaces, login, adding, raced>>
  BY DEF Expire, accountRows
<1>2. RowsTyped /\ RowsFit
  BY WhoFits
<1>3. RowsTyped' /\ \A k \in Isolates : actors'[k] = actors[k] \/ actors'[k] = NoActor
  BY <1>1, <1>2 DEF RowsTyped, SomeOf, Spellings
<1>4. RowsFit'
  BY <1>1, <1>2 DEF RowsFit, Alone, AtRest
<1>5. \A k \in Isolates : actors'[k] = NoActor => ActorFits(k)'
  BY DEF ActorFits, NoActor
<1>6. raced => raced'
  BY <1>1
<1> QED BY <1>1, <1>3, <1>4, <1>5, <1>6, AccountStep

\* At first there is no row.
LEMMA AccountsStart == ASSUME AccountsInit PROVE AccountsInductive
<1>1. /\ spelling \in Spellings /\ people = {} /\ alias = Nobody /\ identity = Nobody
      /\ members = {} /\ workspaces = [p \in Spellings |-> 0]
      /\ actors = [i \in Isolates |-> NoActor] /\ login = [r \in Logins |-> AtRest]
      /\ adding = [a \in Organizing |-> AtRest] /\ raced = FALSE
  BY DEF AccountsInit
<1>2. RowsTyped
  <2>1. workspaces \in [Spellings -> 0..MaxWorkspaces]
    BY <1>1, AccountsAssumption
  <2>2. /\ actors = [i \in Isolates |-> actors[i]] /\ login = [r \in Logins |-> login[r]]
        /\ adding = [a \in Organizing |-> adding[a]]
    BY <1>1
  <2>3. /\ spelling \in Spellings /\ raced \in BOOLEAN
        /\ people \subseteq Spellings /\ members \subseteq people
        /\ alias \in SomeOf /\ identity \in SomeOf /\ people = {}
    BY <1>1 DEF SomeOf
  <2> QED BY <2>1, <2>2, <2>3 DEF RowsTyped
<1>3. RowsFit
  BY <1>1 DEF RowsFit, Alone
<1> QED BY <1>1, <1>2, <1>3 DEF AccountsInductive, LoginFits, AddingFits, ActorFits

\* The invariant of the accounts, for any requests and isolates.
THEOREM AccountsInvariance == AccountsSpec => []AccountsInductive
<1>1. ASSUME AccountsInductive, [AccountsNext]_accountVars PROVE AccountsInductive'
  <2>1. CASE UNCHANGED accountVars
    <3>1. UNCHANGED <<spelling, people, alias, identity, members, workspaces, actors, login, adding, raced>>
      BY <2>1 DEF accountVars, accountRows
    <3>2. RowsTyped /\ RowsFit
      BY <1>1, WhoFits
    <3>3. RowsTyped'
      BY <3>1, <3>2 DEF RowsTyped, SomeOf, Spellings
    <3>4. RowsFit'
      BY <3>1, <3>2 DEF RowsFit, Alone, AtRest, Spellings
    <3>5. raced => raced'
      BY <3>1
    <3> QED BY <1>1, <3>1, <3>3, <3>4, <3>5, AccountStep
  <2>2. ASSUME NEW r \in Logins, NEW i \in Isolates, NEW path \in Paths,
               FromCache(r, i, path) \/ FromDatabase(r, i, path)
        PROVE  AccountsInductive'
    BY <1>1, <2>2, FromCacheKeeps, FromDatabaseKeeps
  <2>3. ASSUME NEW r \in Logins,
               \/ \E formOpen \in BOOLEAN : Lookup(r, formOpen)
               \/ LinkIdentity(r) \/ ProvisionAccount(r) \/ Reread(r) \/ CreateWorkspace(r)
        PROVE  AccountsInductive'
    BY <1>1, <2>3, LookupKeeps, LinkIdentityKeeps, ProvisionAccountKeeps, RereadKeeps,
       CreateWorkspaceKeeps
  <2>4. ASSUME NEW a \in Organizing, (\E speaker \in BOOLEAN : FindPerson(a, speaker)) \/ PersistPerson(a)
        PROVE  AccountsInductive'
    BY <1>1, <2>4, FindPersonKeeps, PersistPersonKeeps
  <2>5. ASSUME NEW i \in Isolates, Expire(i) PROVE AccountsInductive'
    BY <1>1, <2>5, ExpireKeeps
  <2> QED BY <1>1, <2>1, <2>2, <2>3, <2>4, <2>5 DEF AccountsNext, Paths
<1> QED BY <1>1, AccountsStart, PTL DEF AccountsSpec

\* An address has one person when it is spelled in lower case or nothing raced, its owner
\* signs in as that person, and the account organizes one workspace (provisionFirstLogin,
\* persistExplicitSpeaker, persistContact, createWorkspace).
THEOREM AccountsAreSafe == AccountsSpec => []AccountsSafe
<1>1. ASSUME AccountsInductive PROVE AccountsSafe
  <2>1. RowsTyped /\ RowsFit /\ \A i \in Isolates : ActorFits(i)
    BY <1>1, WhoFits
  <2>2. AccountsTypeOK
    <3>1. \A i \in Isolates : actors[i].person \in people \cup {Nobody}
      BY <2>1 DEF ActorFits, NoActor
    <3> QED BY <2>1, <3>1 DEF RowsTyped, SomeOf, AccountsTypeOK
  <2>3. OnePerson
    <3> SUFFICES ASSUME spelling = "lower" \/ ~raced PROVE Cardinality(people) <= 1
      BY DEF OnePerson
    <3>1. people = {} \/ \E p \in people : people = {p}
      BY <2>1 DEF RowsFit
    <3> QED BY <3>1, FS_EmptySet, FS_Singleton
  <2>4. SpeakerSignsIn
    <3> SUFFICES ASSUME Cardinality(people) <= 1, identity # Nobody, NEW m \in members
                 PROVE  m = identity
      BY DEF SpeakerSignsIn
    <3>1. m \in people /\ identity \in people /\ people \subseteq {"lower", "mixed"}
      BY <2>1 DEF RowsTyped, SomeOf, Spellings
    <3>2. IsFiniteSet({"lower", "mixed"}) /\ IsFiniteSet(people)
      <4>1. IsFiniteSet({"lower"} \cup {"mixed"})
        BY FS_Singleton, FS_AddElement
      <4>2. {"lower"} \cup {"mixed"} = {"lower", "mixed"}
        OBVIOUS
      <4> QED BY <3>1, <4>1, <4>2, FS_Subset
    <3>3. Cardinality({identity} \cup {m}) <= Cardinality(people)
      <4>1. {identity} \cup {m} \subseteq people
        BY <3>1
      <4> QED BY <3>2, <4>1, FS_Subset
    <3>4. m # identity => Cardinality({identity} \cup {m}) = 2
      <4>1. IsFiniteSet({identity}) /\ Cardinality({identity}) = 1
        BY FS_Singleton
      <4>2. m # identity => m \notin {identity}
        OBVIOUS
      <4> QED BY <4>1, <4>2, FS_AddElement
    <3>5. Cardinality(people) \in Nat
      BY <3>2, FS_CardinalityType
    <3> QED BY <3>3, <3>4, <3>5
  <2>5. OneWorkspace
    BY <2>1 DEF RowsTyped, RowsFit, OneWorkspace
  <2> QED BY <2>2, <2>3, <2>4, <2>5 DEF AccountsSafe
<1> QED BY <1>1, AccountsInvariance, PTL

-----------------------------------------------------------------------------
(***************************************************************************)
(* Crm: contacts, their addresses and notes, and merges.                   *)
(***************************************************************************)

\* The rows, and what the requests have read.
ContactsTyped ==
  /\ CrmTypeOK /\ crossed \in BOOLEAN
  /\ merger = [m \in Mergers |-> merger[m]]
  /\ \A m \in Mergers :
       merger[m] = <<>> \/ \E p, d \in Addresses : p # d /\ merger[m] = <<p, d>>
  /\ writer \in [Writers -> Addresses \cup {NoOne}]

CrmInductive == ContactsTyped /\ NothingStranded /\ SomeoneActive
\* No address is a status.
LEMMA AddressesAreNoStatus ==
  /\ "active" \notin Addresses /\ NoContact \notin Addresses /\ NoOne \notin Addresses
  /\ "active" # NoContact
BY CrmAssumption DEF NoContact, NoOne

\* An import makes a contact active.
LEMMA ImportContactKeeps ==
  ASSUME CrmInductive, NEW c \in Addresses, ImportContact(c) PROVE CrmInductive'
<1>1. ContactsTyped'
  BY DEF CrmInductive, ContactsTyped, CrmTypeOK, ImportContact
<1>2. /\ contact'[c] = "active" /\ \A d \in Addresses : d # c => contact'[d] = contact[d]
      /\ owner'[c] = c /\ \A d \in Addresses : d # c => owner'[d] = owner[d]
      /\ UNCHANGED <<noted, crossed>>
  BY DEF CrmInductive, ContactsTyped, CrmTypeOK, ImportContact
<1>3. /\ \A a \in Addresses : owner[a] = NoOne \/ owner[a] \in Addresses
      /\ \A n \in CrmNotes : noted[n] = NoOne \/ noted[n] \in Addresses
  BY DEF CrmInductive, ContactsTyped, CrmTypeOK
<1>4. NothingStranded'
  BY <1>2, <1>3, AddressesAreNoStatus DEF CrmInductive, NothingStranded, IsActive, NoOne
<1>5. SomeoneActive'
  BY <1>2 DEF SomeoneActive, IsActive
<1> QED BY <1>1, <1>4, <1>5 DEF CrmInductive

\* A note follows the contact its writer found, or crosses a merge.
LEMMA InsertNoteKeeps ==
  ASSUME CrmInductive, NEW w \in Writers, NEW n \in CrmNotes, InsertNote(w, n) PROVE CrmInductive'
<1>1. /\ writer[w] \in Addresses /\ noted'[n] = writer[w]
      /\ \A m \in CrmNotes : m # n => noted'[m] = noted[m]
      /\ UNCHANGED <<contact, owner, merger>>
      /\ crossed' = (crossed \/ ~IsActive(writer[w]))
  BY DEF CrmInductive, ContactsTyped, CrmTypeOK, InsertNote
<1>2. crossed' \in BOOLEAN /\ (crossed' \/ (~crossed /\ IsActive(writer[w])))
  BY <1>1
<1>3. ContactsTyped'
  BY <1>1, <1>2 DEF CrmInductive, ContactsTyped, CrmTypeOK, InsertNote
<1>4. NothingStranded'
  BY <1>1, <1>2 DEF CrmInductive, NothingStranded, IsActive
<1>5. SomeoneActive'
  BY <1>1, <1>2 DEF CrmInductive, SomeoneActive, IsActive
<1> QED BY <1>3, <1>4, <1>5 DEF CrmInductive

\* A merge takes the addresses and notes along.
LEMMA MergeKeeps ==
  ASSUME CrmInductive, NEW m \in Mergers, Merge(m) PROVE CrmInductive'
<1>1. PICK p, d \in Addresses : p # d /\ merger[m] = <<p, d>>
  BY DEF CrmInductive, ContactsTyped, Merge
<1>2. merger' = [k \in Mergers |-> merger'[k]] /\ UNCHANGED writer
      /\ \A k \in Mergers : merger'[k] = <<>> \/ merger'[k] = merger[k]
  BY DEF CrmInductive, ContactsTyped, Merge
<1>3. CASE UNCHANGED <<contact, owner, noted, crossed>>
  BY <1>2, <1>3 DEF CrmInductive, ContactsTyped, CrmTypeOK, NothingStranded, SomeoneActive, IsActive
<1>4. CASE /\ contact' = [contact EXCEPT ![d] = p] /\ owner' = MovedAliases(p, d)
           /\ noted' = [n \in CrmNotes |-> IF noted[n] = d THEN p ELSE noted[n]]
           /\ crossed' = (crossed \/ ~IsActive(p))
  <2>1. crossed' \in BOOLEAN /\ (crossed' \/ (~crossed /\ IsActive(p)))
    BY <1>4
  <2>2. /\ contact'[d] = p /\ \A c \in Addresses : c # d => contact'[c] = contact[c]
        /\ \A a \in Addresses : owner'[a] = IF owner[a] = d THEN p ELSE owner[a]
        /\ \A n \in CrmNotes : noted'[n] = IF noted[n] = d THEN p ELSE noted[n]
        /\ \A a \in Addresses : owner[a] = NoOne \/ owner[a] \in Addresses
        /\ \A n \in CrmNotes : noted[n] = NoOne \/ noted[n] \in Addresses
    BY <1>4 DEF CrmInductive, ContactsTyped, CrmTypeOK, MovedAliases
  <2>3. ContactsTyped'
    BY <1>2, <1>4, <2>1 DEF CrmInductive, ContactsTyped, CrmTypeOK, MovedAliases
  <2>4. IsActive(p) => IsActive(p)'
    BY <1>1, <2>2 DEF IsActive
  <2>5. NothingStranded'
    <3> SUFFICES ASSUME ~crossed, IsActive(p)
                 PROVE  /\ \A a \in Addresses : owner'[a] # NoOne => contact'[owner'[a]] = "active"
                        /\ \A n \in CrmNotes : noted'[n] # NoOne => contact'[noted'[n]] = "active"
      BY <2>1 DEF NothingStranded, IsActive
    <3>1. contact'[p] = "active"
      BY <2>4 DEF IsActive
    <3>2. /\ \A a \in Addresses : owner[a] # NoOne => contact[owner[a]] = "active"
          /\ \A n \in CrmNotes : noted[n] # NoOne => contact[noted[n]] = "active"
      BY DEF CrmInductive, NothingStranded, IsActive
    <3> QED BY <2>2, <3>1, <3>2
  <2>6. SomeoneActive'
    BY <2>1, <2>4 DEF SomeoneActive, IsActive
  <2> QED BY <2>3, <2>5, <2>6 DEF CrmInductive
<1> QED BY <1>1, <1>3, <1>4 DEF Merge

\* The requests read before they write.
LEMMA CrmReadsKeep ==
  ASSUME CrmInductive,
         \/ \E w \in Writers, c \in Addresses : FindContact(w, c)
         \/ \E m \in Mergers, p, d \in Addresses : ReadPair(m, p, d)
         \/ UNCHANGED crmVars
  PROVE  CrmInductive'
<1>1. UNCHANGED <<contact, owner, noted, crossed>>
  BY DEF FindContact, ReadPair, crmVars
<1>2. ContactsTyped'
  <2>1. CrmTypeOK' /\ crossed' \in BOOLEAN
    BY <1>1 DEF CrmInductive, ContactsTyped, CrmTypeOK
  <2>2. /\ merger' = [m \in Mergers |-> merger'[m]]
        /\ \A m \in Mergers :
             merger'[m] = <<>> \/ \E p, d \in Addresses : p # d /\ merger'[m] = <<p, d>>
    <3>1. CASE UNCHANGED merger
      BY <3>1 DEF CrmInductive, ContactsTyped
    <3>2. ASSUME NEW m \in Mergers, NEW p \in Addresses, NEW d \in Addresses, ReadPair(m, p, d)
          PROVE  /\ merger' = [k \in Mergers |-> merger'[k]]
                 /\ \A k \in Mergers :
                      merger'[k] = <<>> \/ \E a, b \in Addresses : a # b /\ merger'[k] = <<a, b>>
      BY <3>2 DEF CrmInductive, ContactsTyped, ReadPair
    <3> QED BY <3>1, <3>2 DEF FindContact, crmVars
  <2>3. writer' \in [Writers -> Addresses \cup {NoOne}]
    BY DEF CrmInductive, ContactsTyped, FindContact, ReadPair, crmVars
  <2> QED BY <2>1, <2>2, <2>3 DEF ContactsTyped
<1> QED BY <1>1, <1>2 DEF CrmInductive, NothingStranded, SomeoneActive, IsActive

\* The invariant of the CRM, for any contacts, merges and notes.
THEOREM CrmInvariance == CrmSpec => []CrmInductive
<1>1. CrmInit => CrmInductive
  BY AddressesAreNoStatus DEF CrmInit, CrmInductive, ContactsTyped, CrmTypeOK, NothingStranded,
     SomeoneActive, IsActive, NoContact
<1>2. CrmInductive /\ [CrmNext]_crmVars => CrmInductive'
  BY ImportContactKeeps, InsertNoteKeeps, MergeKeeps, CrmReadsKeep DEF CrmNext
<1> QED BY <1>1, <1>2, PTL DEF CrmSpec

\* Whatever imports, notes and merges interleave, an address or a note leads to an active
\* contact unless a merge or a note was written to a contact merged since it was read
\* (persistContact, addCrmContactNote, mergeCrmContacts).
THEOREM CrmIsSafe == CrmSpec => []CrmSafe
BY CrmInvariance, PTL DEF CrmInductive, ContactsTyped, CrmSafe

-----------------------------------------------------------------------------
(***************************************************************************)
(* SpeakerTasks: tasks are created and handed over to the speakers that    *)
(* are accepted.                                                           *)
(***************************************************************************)

Creations == [at : {"insert", "assign"}, task : Tasks, to : (SUBSET Roster) \ {{}}]
Handovers == [at : {"insert"}, for : Roster, tasks : SUBSET Tasks]
Dispatches == [at : {"dispatch"}, for : Roster]

\* A request inserts a task for speakers of the event, and assigns one that it made.
CreatorFits(c) ==
  creator[c] # Free =>
    /\ creator[c] \in Creations /\ creator[c].to \subseteq accepted
    /\ creator[c].at = "assign" => creator[c].task \in made \ FileKeys

\* A handler has read what there was at the acceptance, and then assigned it.
HandlerFits(h) ==
  handler[h] # Free =>
    /\ handler[h] \in Handovers \cup Dispatches
    /\ handler[h].for \in accepted /\ known[handler[h].for] # Unaccepted
    /\ handler[h].at = "insert" => /\ handler[h].tasks \subseteq made
                                   /\ known[handler[h].for] \subseteq handler[h].tasks
    /\ handler[h].at = "dispatch" => known[handler[h].for] \X {handler[h].for} \subseteq assigned

\* A speaker who was accepted is one of the event, and knows tasks that exist.
KnownFits(s) ==
  /\ known[s] # Unaccepted => s \in accepted /\ known[s] \subseteq made
  /\ s \in owed => known[s] # Unaccepted

SpeakerTasksInductive ==
  /\ SpeakerTasksSafe
  /\ creator = [c \in Creators |-> creator[c]] /\ handler = [h \in Handlers |-> handler[h]]
  /\ \A c \in Creators : CreatorFits(c)
  /\ \A h \in Handlers : HandlerFits(h)
  /\ \A s \in Roster : KnownFits(s)

-----------------------------------------------------------------------------
(* What stays as tables grow.                                              *)

Grows == accepted \subseteq accepted' /\ made \subseteq made' /\ assigned \subseteq assigned'

\* A request that does not move is as fit as it was.
LEMMA CreatorFitsStill ==
  ASSUME NEW c \in Creators, CreatorFits(c), Grows, creator'[c] = creator[c] PROVE CreatorFits(c)'
BY DEF CreatorFits, Grows, Creations, Free

\* And so is a handler, unless its speaker is accepted anew.
LEMMA HandlerFitsStill ==
  ASSUME NEW h \in Handlers, HandlerFits(h), Grows, handler'[h] = handler[h],
         handler[h] # Free => known'[handler[h].for] = known[handler[h].for]
  PROVE  HandlerFits(h)'
<1>1. CASE handler[h] = Free
  BY <1>1 DEF HandlerFits, Free
<1>2. CASE handler[h] # Free
  BY <1>2 DEF HandlerFits, Grows, Handovers, Dispatches, Unaccepted
<1> QED BY <1>1, <1>2

\* What the invariant says of the tables.
LEMMA TablesTyped ==
  ASSUME SpeakerTasksInductive
  PROVE  /\ accepted \subseteq Roster /\ made \subseteq Tasks
         /\ complete \subseteq assigned /\ assigned \subseteq made \X accepted
         /\ deliverable \subseteq assigned /\ owed \subseteq accepted
         /\ known \in [Roster -> (SUBSET Tasks) \cup {Unaccepted}] /\ breaks \in 0..MaxBreaks
         /\ \A s \in Roster : known[s] # Unaccepted /\ s \notin owed => known[s] \X {s} \subseteq assigned
         /\ creator = [c \in Creators |-> creator[c]] /\ handler = [h \in Handlers |-> handler[h]]
         /\ \A c \in Creators : CreatorFits(c)
         /\ \A h \in Handlers : HandlerFits(h)
         /\ \A s \in Roster : KnownFits(s)
BY DEF SpeakerTasksInductive, SpeakerTasksSafe, SpeakerTasksTypeOK, AcceptedHaveTasks

\* A step that adds to the tables and accepts nobody.
LEMMA AddingKeeps ==
  ASSUME SpeakerTasksInductive, UNCHANGED <<known, breaks>>, Grows,
         accepted' \subseteq Roster, made' \subseteq Tasks, assigned' \subseteq made' \X accepted',
         complete' \subseteq assigned', deliverable' \subseteq assigned', owed' \subseteq owed,
         creator' = [c \in Creators |-> creator'[c]], handler' = [h \in Handlers |-> handler'[h]],
         \A c \in Creators : creator'[c] # creator[c] => CreatorFits(c)',
         \A h \in Handlers : handler'[h] # handler[h] => HandlerFits(h)',
         \A s \in owed \ owed' : known[s] \X {s} \subseteq assigned,
         AssignedUnlessCutOff'
  PROVE  SpeakerTasksInductive'
<1>1. \A c \in Creators : CreatorFits(c)'
  BY CreatorFitsStill, TablesTyped
<1>2. \A h \in Handlers : HandlerFits(h)'
  BY HandlerFitsStill, TablesTyped
<1>3. \A s \in Roster : KnownFits(s)'
  BY TablesTyped DEF KnownFits, Grows, Unaccepted
<1>4. SpeakerTasksTypeOK'
  <2>1. owed' \subseteq accepted'
    BY TablesTyped DEF Grows
  <2> QED BY <2>1, TablesTyped DEF SpeakerTasksTypeOK, Unaccepted
<1>5. AcceptedHaveTasks'
  <2> SUFFICES ASSUME NEW s \in Roster, known[s] # Unaccepted, s \notin owed'
               PROVE  known[s] \X {s} \subseteq assigned'
    BY DEF AcceptedHaveTasks, Unaccepted
  <2>1. known[s] \X {s} \subseteq assigned
    BY TablesTyped
  <2> QED BY <2>1 DEF Grows
<1> QED BY <1>1, <1>2, <1>3, <1>4, <1>5 DEF SpeakerTasksInductive, SpeakerTasksSafe

\* Tasks that nobody is about to assign have been.
LEMMA AssignedStill ==
  ASSUME SpeakerTasksInductive, Grows, breaks' = breaks,
         \A t \in made' \ made : \/ \E s \in Roster : <<t, s>> \in assigned'
                                 \/ \E c \in Creators : creator'[c].at = "assign" /\ creator'[c].task = t,
         \A c \in Creators : creator[c].at = "assign" =>
            \/ creator'[c] = creator[c]
            \/ \E s \in Roster : <<creator[c].task, s>> \in assigned'
  PROVE  AssignedUnlessCutOff'
<1> SUFFICES ASSUME breaks = 0, NEW t \in made',
                    \A c \in Creators : creator'[c].at = "assign" => creator'[c].task # t
             PROVE  \E s \in Roster : <<t, s>> \in assigned'
  BY DEF AssignedUnlessCutOff
<1>1. CASE t \notin made
  BY <1>1
<1>2. CASE t \in made /\ \E c \in Creators : creator[c].at = "assign" /\ creator[c].task = t
  BY <1>2
<1>3. CASE t \in made /\ ~\E c \in Creators : creator[c].at = "assign" /\ creator[c].task = t
  <2>1. \E s \in Roster : <<t, s>> \in assigned
    BY <1>3 DEF SpeakerTasksInductive, SpeakerTasksSafe, AssignedUnlessCutOff
  <2> QED BY <2>1 DEF Grows
<1> QED BY <1>1, <1>2, <1>3

-----------------------------------------------------------------------------
(* The steps.                                                              *)

\* Acceptance knows the tasks there are.
LEMMA AcceptSpeakerKeeps ==
  ASSUME SpeakerTasksInductive, NEW s \in Roster, AcceptSpeaker(s) PROVE SpeakerTasksInductive'
<1>1. /\ known[s] = Unaccepted /\ accepted' = accepted \cup {s}
      /\ owed' = owed \cup {s} /\ known' = [known EXCEPT ![s] = made]
      /\ UNCHANGED <<made, assigned, deliverable, complete, creator, handler, breaks>>
  BY DEF AcceptSpeaker
<1>2. Grows
  BY <1>1 DEF Grows
<1>3. made # Unaccepted /\ made \in SUBSET Tasks
  BY SpeakerTasksAssumption, TablesTyped DEF Unaccepted
<1>4. /\ known' \in [Roster -> (SUBSET Tasks) \cup {Unaccepted}] /\ known'[s] = made
      /\ \A p \in Roster : p # s => known'[p] = known[p]
  BY <1>1, <1>3, TablesTyped
<1>5. \A c \in Creators : CreatorFits(c)'
  BY <1>1, <1>2, CreatorFitsStill, TablesTyped
<1>6. ASSUME NEW h \in Handlers PROVE HandlerFits(h)'
  <2>1. handler[h] # Free => handler[h].for # s /\ handler[h].for \in Roster
    BY <1>1, TablesTyped DEF HandlerFits
  <2> QED BY <1>1, <1>2, <1>4, <2>1, HandlerFitsStill, TablesTyped
<1>7. ASSUME NEW p \in Roster PROVE KnownFits(p)'
  BY <1>1, <1>3, <1>4, TablesTyped DEF KnownFits, Unaccepted
<1>8. SpeakerTasksTypeOK'
  BY <1>1, <1>4, TablesTyped DEF SpeakerTasksTypeOK, Unaccepted
<1>9. AcceptedHaveTasks'
  <2> SUFFICES ASSUME NEW p \in Roster, known'[p] # Unaccepted, p \notin owed'
               PROVE  known'[p] \X {p} \subseteq assigned
    BY <1>1 DEF AcceptedHaveTasks, Unaccepted
  <2> QED BY <1>1, <1>4, TablesTyped
<1>10. AssignedUnlessCutOff'
  BY <1>1 DEF SpeakerTasksInductive, SpeakerTasksSafe, AssignedUnlessCutOff
<1>11. creator' = [c \in Creators |-> creator'[c]] /\ handler' = [h \in Handlers |-> handler'[h]]
  BY <1>1, TablesTyped
<1> QED BY <1>5, <1>6, <1>7, <1>8, <1>9, <1>10, <1>11 DEF SpeakerTasksInductive, SpeakerTasksSafe

\* A request finds that its key is free, or is told what has it.
LEMMA LookForTaskKeeps ==
  ASSUME SpeakerTasksInductive, NEW c \in Creators, NEW t \in Tasks, NEW to \in SUBSET Roster,
         LookForTask(c, t, to)
  PROVE  SpeakerTasksInductive'
<1>1. PICK j : j = [at |-> "insert", task |-> t, to |-> to]
  OBVIOUS
<1>2. /\ creator[c] = Free /\ to # {} /\ to \subseteq accepted
      /\ creator' = [creator EXCEPT ![c] = j]
      /\ UNCHANGED <<accepted, made, assigned, deliverable, complete, owed, handler, known, breaks>>
  BY <1>1 DEF LookForTask
<1>3. /\ creator' = [b \in Creators |-> creator'[b]] /\ creator'[c] = j
      /\ \A b \in Creators : b # c => creator'[b] = creator[b]
  BY <1>2, TablesTyped
<1>4. CreatorFits(c)'
  <2>1. to \in (SUBSET Roster) \ {{}}
    BY <1>2
  <2>2. j \in Creations /\ j.at = "insert" /\ j.to = to
    BY <1>1, <2>1 DEF Creations
  <2> QED BY <1>2, <1>3, <2>2 DEF CreatorFits, Creations
<1>5. Grows
  BY <1>2 DEF Grows
<1>6. \A b \in Creators : creator[b].at = "assign" => creator'[b] = creator[b]
  BY <1>2, <1>3 DEF Free
<1>7. AssignedUnlessCutOff'
  BY <1>2, <1>5, <1>6, AssignedStill
<1>8. \A b \in Creators : creator'[b] # creator[b] => CreatorFits(b)'
  BY <1>3, <1>4
<1> QED BY <1>2, <1>3, <1>5, <1>7, <1>8, AddingKeeps, TablesTyped

\* A file request brings its assignments with it.
LEMMA InsertFileRequestKeeps ==
  ASSUME SpeakerTasksInductive, NEW c \in Creators, InsertFileRequest(c)
  PROVE  SpeakerTasksInductive'
<1>1. PICK t, to : t = creator[c].task /\ to = creator[c].to
  OBVIOUS
<1>2. creator[c] # Free /\ creator[c].at = "insert"
  BY DEF InsertFileRequest, Free
<1>3. t \in Tasks /\ to \in (SUBSET Roster) \ {{}} /\ to \subseteq accepted
  BY <1>1, <1>2, TablesTyped DEF CreatorFits, Creations
<1>4. PICK new : /\ new = IF t \in made THEN {} ELSE {t} \X to
                 /\ made' = made \cup {t} /\ assigned' = assigned \cup new
                 /\ deliverable' = deliverable \cup new
                 /\ creator' = [creator EXCEPT ![c] = Free]
                 /\ UNCHANGED <<accepted, complete, owed, handler, known, breaks>>
  BY <1>1 DEF InsertFileRequest
<1>5. Grows
  BY <1>4 DEF Grows
<1>6. /\ creator' = [b \in Creators |-> creator'[b]] /\ creator'[c] = Free
      /\ \A b \in Creators : b # c => creator'[b] = creator[b]
  BY <1>4, TablesTyped
<1>7. new \subseteq made' \X accepted'
  BY <1>3, <1>4
<1>8. assigned' \subseteq made' \X accepted'
  <2>1. assigned \subseteq made \X accepted
    BY TablesTyped
  <2> QED BY <1>4, <1>5, <1>7, <2>1 DEF Grows
<1>9. \A b \in Creators : creator'[b] # creator[b] => CreatorFits(b)'
  BY <1>6 DEF CreatorFits, Free
<1>10. ASSUME NEW u \in made' \ made PROVE \E s \in Roster : <<u, s>> \in assigned'
  <2>1. u = t /\ new = {t} \X to
    BY <1>4, <1>10
  <2>4. to # {} /\ to \subseteq Roster
    BY <1>3
  <2>2. PICK s \in Roster : s \in to
    BY <2>4
  <2>3. <<t, s>> \in new
    BY <2>1, <2>2
  <2> QED BY <1>4, <2>1, <2>3
<1>11. \A b \in Creators : creator[b].at = "assign" => creator'[b] = creator[b]
  BY <1>2, <1>6
<1>12. AssignedUnlessCutOff'
  BY <1>4, <1>5, <1>10, <1>11, AssignedStill
<1>13. made' \subseteq Tasks /\ complete' \subseteq assigned' /\ deliverable' \subseteq assigned'
  BY <1>3, <1>4, TablesTyped
<1> QED BY <1>4, <1>5, <1>6, <1>8, <1>9, <1>12, <1>13, AddingKeeps, TablesTyped

\* Any other task is one that its request is about to assign.
LEMMA InsertTaskKeeps ==
  ASSUME SpeakerTasksInductive, NEW c \in Creators, InsertTask(c) PROVE SpeakerTasksInductive'
<1>1. PICK t, j : t = creator[c].task /\ j = creator[c]
  OBVIOUS
<1>2. creator[c] # Free /\ j.at = "insert" /\ t \notin FileKeys
  BY <1>1 DEF InsertTask, Free
<1>3. /\ j \in Creations /\ t \in Tasks /\ j.to \subseteq accepted /\ j.task = t
  BY <1>1, <1>2, TablesTyped DEF CreatorFits, Creations
<1>4. PICK n : /\ n = IF t \in made THEN Free ELSE [j EXCEPT !.at = "assign"]
               /\ made' = made \cup {t} /\ creator' = [creator EXCEPT ![c] = n]
               /\ UNCHANGED <<accepted, assigned, deliverable, complete, owed, handler, known, breaks>>
  BY <1>1 DEF InsertTask
<1>5. Grows
  BY <1>4 DEF Grows
<1>6. /\ creator' = [b \in Creators |-> creator'[b]] /\ creator'[c] = n
      /\ \A b \in Creators : b # c => creator'[b] = creator[b]
  BY <1>4, TablesTyped
<1>7. t \notin made => /\ n \in Creations /\ n.at = "assign" /\ n.task = t /\ n.to = j.to
  BY <1>3, <1>4 DEF Creations
<1>8. CreatorFits(c)'
  <2>1. CASE t \in made
    BY <1>4, <1>6, <2>1 DEF CreatorFits, Free
  <2>2. CASE t \notin made
    BY <1>2, <1>3, <1>4, <1>6, <1>7, <2>2 DEF CreatorFits, Creations
  <2> QED BY <2>1, <2>2
<1>9. \A b \in Creators : creator'[b] # creator[b] => CreatorFits(b)'
  BY <1>6, <1>8
<1>10. \A u \in made' \ made : \E b \in Creators : creator'[b].at = "assign" /\ creator'[b].task = u
  BY <1>4, <1>6, <1>7
<1>11. \A b \in Creators : creator[b].at = "assign" => creator'[b] = creator[b]
  BY <1>1, <1>2, <1>6
<1>12. AssignedUnlessCutOff'
  BY <1>4, <1>5, <1>10, <1>11, AssignedStill
<1>13. made' \subseteq Tasks /\ assigned' \subseteq made' \X accepted'
  <2>1. assigned \subseteq made \X accepted
    BY TablesTyped
  <2> QED BY <1>3, <1>4, <2>1, TablesTyped
<1> QED BY <1>4, <1>5, <1>6, <1>9, <1>12, <1>13, AddingKeeps, TablesTyped

\* The request that made the task assigns it.
LEMMA InsertAssignmentsKeeps ==
  ASSUME SpeakerTasksInductive, NEW c \in Creators, InsertAssignments(c)
  PROVE  SpeakerTasksInductive'
<1>1. PICK t, to : t = creator[c].task /\ to = creator[c].to
  OBVIOUS
<1>2. creator[c] # Free /\ creator[c].at = "assign"
  BY DEF InsertAssignments, Free
<1>3. t \in made /\ to \in (SUBSET Roster) \ {{}} /\ to \subseteq accepted
  BY <1>1, <1>2, TablesTyped DEF CreatorFits, Creations
<1>4. /\ assigned' = assigned \cup ({t} \X to) /\ creator' = [creator EXCEPT ![c] = Free]
      /\ UNCHANGED <<accepted, made, deliverable, complete, owed, handler, known, breaks>>
  BY <1>1 DEF InsertAssignments
<1>5. Grows
  BY <1>4 DEF Grows
<1>6. /\ creator' = [b \in Creators |-> creator'[b]] /\ creator'[c] = Free
      /\ \A b \in Creators : b # c => creator'[b] = creator[b]
  BY <1>4, TablesTyped
<1>7. {t} \X to \subseteq made \X accepted
  BY <1>3
<1>8. assigned' \subseteq made' \X accepted' /\ complete' \subseteq assigned' /\ deliverable' \subseteq assigned'
  <2>1. /\ assigned \subseteq made \X accepted
        /\ complete \subseteq assigned /\ deliverable \subseteq assigned
    BY TablesTyped
  <2> QED BY <1>4, <1>7, <2>1
<1>9. \A b \in Creators : creator'[b] # creator[b] => CreatorFits(b)'
  BY <1>6 DEF CreatorFits, Free
<1>10. \E s \in Roster : <<t, s>> \in assigned'
  <2>3. to # {} /\ to \subseteq Roster
    BY <1>3
  <2>1. PICK s \in Roster : s \in to
    BY <2>3
  <2>2. <<t, s>> \in {t} \X to
    BY <2>1
  <2> QED BY <1>4, <2>2
<1>11. AssignedUnlessCutOff'
  BY <1>1, <1>4, <1>5, <1>6, <1>10, AssignedStill
<1> QED BY <1>4, <1>5, <1>6, <1>8, <1>9, <1>11, AddingKeeps, TablesTyped

\* A handler reads, assigns and dispatches what its speaker is owed.
LEMMA HandlerKeeps ==
  ASSUME SpeakerTasksInductive, NEW h \in Handlers,
         (\E s \in Roster : ReadTasks(h, s)) \/ AssignTasks(h) \/ MarkDispatched(h)
  PROVE  SpeakerTasksInductive'
<1>1. /\ UNCHANGED <<accepted, made, deliverable, complete, creator, known, breaks>>
      /\ assigned \subseteq assigned'
  BY DEF ReadTasks, AssignTasks, MarkDispatched
<1>2. Grows
  BY <1>1 DEF Grows
<1>3. AssignedUnlessCutOff'
  BY <1>1, <1>2, AssignedStill
<1>4. CASE \E s \in Roster : ReadTasks(h, s)
  <2>1. PICK s \in Roster : ReadTasks(h, s)
    BY <1>4
  <2>2. PICK j : j = [at |-> "insert", for |-> s, tasks |-> made]
    OBVIOUS
  <2>3. s \in owed /\ handler' = [handler EXCEPT ![h] = j] /\ UNCHANGED <<assigned, owed>>
    BY <2>1, <2>2 DEF ReadTasks
  <2>4. /\ handler' = [g \in Handlers |-> handler'[g]] /\ handler'[h] = j
        /\ \A g \in Handlers : g # h => handler'[g] = handler[g]
    BY <2>3, TablesTyped
  <2>5. HandlerFits(h)'
    <3>1. /\ j \in Handovers /\ j.for = s /\ j.tasks = made /\ j.at = "insert"
      BY <2>2, TablesTyped DEF Handovers
    <3>2. s \in accepted /\ known[s] # Unaccepted /\ known[s] \subseteq made
      BY <2>3, TablesTyped DEF KnownFits
    <3> QED BY <1>1, <2>4, <3>1, <3>2 DEF HandlerFits, Handovers, Unaccepted
  <2>6. \A g \in Handlers : handler'[g] # handler[g] => HandlerFits(g)'
    BY <2>4, <2>5
  <2> QED BY <1>1, <1>2, <1>3, <2>3, <2>4, <2>6, AddingKeeps, TablesTyped
<1>5. CASE AssignTasks(h)
  <2>1. PICK s, tasks : s = handler[h].for /\ tasks = handler[h].tasks
    OBVIOUS
  <2>2. PICK j : j = [at |-> "dispatch", for |-> s]
    OBVIOUS
  <2>3. /\ handler[h].at = "insert" /\ handler' = [handler EXCEPT ![h] = j] /\ UNCHANGED owed
        /\ assigned' = assigned \cup (tasks \X {s})
    BY <1>5, <2>1, <2>2 DEF AssignTasks, HandsOver
  <2>4. /\ s \in Roster /\ s \in accepted /\ tasks \subseteq made /\ known[s] # Unaccepted
        /\ known[s] \subseteq tasks
    <3>1. HandlerFits(h) /\ handler[h] # Free
      BY <2>3, TablesTyped DEF Free
    <3> QED BY <2>1, <2>3, <3>1, TablesTyped DEF HandlerFits, Handovers, Dispatches
  <2>5. /\ handler' = [g \in Handlers |-> handler'[g]] /\ handler'[h] = j
        /\ \A g \in Handlers : g # h => handler'[g] = handler[g]
    BY <2>3, TablesTyped
  <2>6. HandlerFits(h)'
    <3>1. /\ j \in Dispatches /\ j.for = s /\ j.at = "dispatch"
      BY <2>2, <2>4 DEF Dispatches
    <3>2. known[s] \X {s} \subseteq assigned'
      <4>1. known[s] \X {s} \subseteq tasks \X {s}
        BY <2>4
      <4> QED BY <2>3, <4>1
    <3> QED BY <1>1, <2>4, <2>5, <3>1, <3>2 DEF HandlerFits, Dispatches, Unaccepted
  <2>7. \A g \in Handlers : handler'[g] # handler[g] => HandlerFits(g)'
    BY <2>5, <2>6
  <2>8. /\ assigned' \subseteq made' \X accepted' /\ complete' \subseteq assigned'
        /\ deliverable' \subseteq assigned'
    <3>1. tasks \X {s} \subseteq made \X accepted
      BY <2>4
    <3>2. /\ assigned \subseteq made \X accepted
          /\ complete \subseteq assigned /\ deliverable \subseteq assigned
      BY TablesTyped
    <3> QED BY <1>1, <2>3, <3>1, <3>2
  <2> QED BY <1>1, <1>2, <1>3, <2>3, <2>5, <2>7, <2>8, AddingKeeps, TablesTyped
<1>6. CASE MarkDispatched(h)
  <2>1. PICK s : s = handler[h].for
    OBVIOUS
  <2>2. /\ handler[h].at = "dispatch" /\ owed' = owed \ {s} /\ handler' = [handler EXCEPT ![h] = Free]
        /\ UNCHANGED assigned
    BY <1>6, <2>1 DEF MarkDispatched
  <2>3. known[s] \X {s} \subseteq assigned
    <3>1. HandlerFits(h) /\ handler[h] # Free
      BY <2>2, TablesTyped DEF Free
    <3> QED BY <2>1, <2>2, <3>1 DEF HandlerFits
  <2>4. /\ handler' = [g \in Handlers |-> handler'[g]] /\ handler'[h] = Free
        /\ \A g \in Handlers : g # h => handler'[g] = handler[g]
    BY <2>2, TablesTyped
  <2>5. \A g \in Handlers : handler'[g] # handler[g] => HandlerFits(g)'
    BY <2>4 DEF HandlerFits, Free
  <2>6. owed' \subseteq owed /\ \A p \in owed \ owed' : known[p] \X {p} \subseteq assigned
    BY <2>2, <2>3
  <2> QED BY <1>1, <1>2, <1>3, <2>2, <2>4, <2>5, <2>6, AddingKeeps, TablesTyped
<1> QED BY <1>4, <1>5, <1>6

\* A cut-off is counted, and leaves what a request has inserted so far.
LEMMA BreakOffKeeps == ASSUME SpeakerTasksInductive, BreakOff PROVE SpeakerTasksInductive'
<1>1. /\ breaks < MaxBreaks /\ breaks' = breaks + 1
      /\ UNCHANGED <<accepted, made, assigned, deliverable, complete, owed, known>>
      /\ \A c \in Creators : creator'[c] = creator[c] \/ creator'[c] = Free
      /\ \A h \in Handlers : handler'[h] = handler[h] \/ handler'[h] = Free
      /\ creator' = [c \in Creators |-> creator'[c]] /\ handler' = [h \in Handlers |-> handler'[h]]
  BY TablesTyped DEF BreakOff
<1>2. Grows
  BY <1>1 DEF Grows
<1>3. \A c \in Creators : CreatorFits(c)'
  <2>1. \A c \in Creators : creator'[c] = Free => CreatorFits(c)'
    BY DEF CreatorFits, Free
  <2> QED BY <1>1, <1>2, <2>1, CreatorFitsStill, TablesTyped
<1>4. \A h \in Handlers : HandlerFits(h)'
  <2>1. \A h \in Handlers : handler'[h] = Free => HandlerFits(h)'
    BY DEF HandlerFits, Free
  <2> QED BY <1>1, <1>2, <2>1, HandlerFitsStill, TablesTyped
<1>5. \A s \in Roster : KnownFits(s)'
  BY <1>1, TablesTyped DEF KnownFits, Unaccepted
<1>6. breaks' \in 0..MaxBreaks /\ breaks' # 0
  BY <1>1, SpeakerTasksAssumption, TablesTyped
<1>7. SpeakerTasksTypeOK' /\ AcceptedHaveTasks'
  BY <1>1, <1>6, TablesTyped DEF SpeakerTasksTypeOK, AcceptedHaveTasks, Unaccepted
<1>8. AssignedUnlessCutOff'
  BY <1>6 DEF AssignedUnlessCutOff
<1> QED BY <1>1, <1>3, <1>4, <1>5, <1>7, <1>8 DEF SpeakerTasksInductive, SpeakerTasksSafe

\* Before anything happens.
LEMMA SpeakerTasksStart == SpeakerTasksInit => SpeakerTasksInductive
<1> SUFFICES ASSUME SpeakerTasksInit PROVE SpeakerTasksInductive
  OBVIOUS
<1>1. SpeakerTasksTypeOK
  <2>1. known \in [Roster -> (SUBSET Tasks) \cup {Unaccepted}]
    BY DEF SpeakerTasksInit
  <2>2. breaks \in 0..MaxBreaks
    BY SpeakerTasksAssumption DEF SpeakerTasksInit
  <2> QED BY <2>1, <2>2 DEF SpeakerTasksInit, SpeakerTasksTypeOK
<1>3. AcceptedHaveTasks /\ AssignedUnlessCutOff
  BY DEF SpeakerTasksInit, AcceptedHaveTasks, AssignedUnlessCutOff
<1>2. /\ \A c \in Creators : CreatorFits(c)
      /\ \A h \in Handlers : HandlerFits(h)
      /\ \A s \in Roster : KnownFits(s)
  BY DEF SpeakerTasksInit, CreatorFits, HandlerFits, KnownFits
<1> QED BY <1>1, <1>2, <1>3 DEF SpeakerTasksInit, SpeakerTasksInductive, SpeakerTasksSafe

\* Every step of a request, of the outbox and of a speaker keeps the invariant.
LEMMA SpeakerTasksStep ==
  SpeakerTasksInductive /\ [SpeakerTasksNext]_tasksVars => SpeakerTasksInductive'
<1> SUFFICES ASSUME SpeakerTasksInductive, [SpeakerTasksNext]_tasksVars
             PROVE  SpeakerTasksInductive'
  OBVIOUS
<1>1. ASSUME NEW s \in Roster, AddSpeaker(s) PROVE SpeakerTasksInductive'
  <2>1. /\ accepted' = accepted \cup {s}
        /\ UNCHANGED <<made, assigned, deliverable, complete, creator, owed, handler, known, breaks>>
    BY <1>1 DEF AddSpeaker
  <2>2. Grows
    BY <2>1 DEF Grows
  <2>3. AssignedUnlessCutOff'
    BY <2>1, <2>2, AssignedStill
  <2>4. assigned' \subseteq made' \X accepted'
    <3>1. assigned \subseteq made \X accepted
      BY TablesTyped
    <3> QED BY <2>1, <3>1
  <2> QED BY <2>1, <2>2, <2>3, <2>4, AddingKeeps, TablesTyped
<1>2. ASSUME NEW s \in Roster, AcceptSpeaker(s) PROVE SpeakerTasksInductive'
  BY <1>2, AcceptSpeakerKeeps
<1>3. ASSUME NEW c \in Creators, NEW t \in Tasks, NEW to \in SUBSET Roster, LookForTask(c, t, to)
      PROVE  SpeakerTasksInductive'
  BY <1>3, LookForTaskKeeps
<1>4. ASSUME NEW c \in Creators, InsertFileRequest(c) \/ InsertTask(c) \/ InsertAssignments(c)
      PROVE  SpeakerTasksInductive'
  BY <1>4, InsertFileRequestKeeps, InsertTaskKeeps, InsertAssignmentsKeeps
<1>5. ASSUME NEW h \in Handlers,
             (\E s \in Roster : ReadTasks(h, s)) \/ AssignTasks(h) \/ MarkDispatched(h)
      PROVE  SpeakerTasksInductive'
  BY <1>5, HandlerKeeps
<1>6. ASSUME BreakOff PROVE SpeakerTasksInductive'
  BY <1>6, BreakOffKeeps
<1>7. ASSUME NEW t \in Tasks, NEW s \in Roster, CompleteTask(t, s) \/ DeliverFile(t, s)
      PROVE  SpeakerTasksInductive'
  <2>1. /\ complete' = complete \cup {<<t, s>>} /\ <<t, s>> \in assigned
        /\ UNCHANGED <<accepted, made, assigned, deliverable, creator, owed, handler, known, breaks>>
    BY <1>7 DEF CompleteTask, DeliverFile, Uploadable
  <2>2. Grows
    BY <2>1 DEF Grows
  <2>3. AssignedUnlessCutOff'
    BY <2>1, <2>2, AssignedStill
  <2>4. complete' \subseteq assigned'
    BY <2>1, TablesTyped
  <2> QED BY <2>1, <2>2, <2>3, <2>4, AddingKeeps, TablesTyped
<1>8. CASE UNCHANGED tasksVars
  <2>1. UNCHANGED <<accepted, made, assigned, deliverable, complete, creator, owed, handler, known, breaks>>
    BY <1>8 DEF tasksVars
  <2>2. Grows
    BY <2>1 DEF Grows
  <2>3. AssignedUnlessCutOff'
    BY <2>1, <2>2, AssignedStill
  <2> QED BY <2>1, <2>2, <2>3, AddingKeeps, TablesTyped
<1> QED BY <1>1, <1>2, <1>3, <1>4, <1>5, <1>6, <1>7, <1>8 DEF SpeakerTasksNext

\* However creations, handoffs and cut-offs interleave: requests and handlers know tasks
\* that exist, and hold what they are about to assign.
THEOREM SpeakerTasksInvariance == SpeakerTasksSpec => []SpeakerTasksInductive
<1> QED BY SpeakerTasksStart, SpeakerTasksStep, PTL DEF SpeakerTasksSpec

\* An accepted speaker whose handoff is dispatched has every task that existed at the
\* acceptance, and only a cut-off leaves a task without assignments.
THEOREM TasksAreHandedOver == SpeakerTasksSpec => []SpeakerTasksSafe
<1>1. SpeakerTasksInductive => SpeakerTasksSafe
  BY DEF SpeakerTasksInductive
<1> QED BY <1>1, SpeakerTasksInvariance, PTL

-----------------------------------------------------------------------------
(***************************************************************************)
(* MCServices: a behaviour of the services is one of each module.          *)
(***************************************************************************)

\* A behaviour of the services moves the accounts as Accounts does, or leaves
\* them alone.
LEMMA ServicesMoveAccounts == ServicesSpec => AccountsSpec
<1>1. ServicesInit => AccountsInit
  BY DEF ServicesInit
<1>2. [ServicesNext]_servicesVars => [AccountsNext]_accountVars
  BY DEF ServicesNext, servicesVars
<1> QED BY <1>1, <1>2, PTL DEF ServicesSpec, AccountsSpec

\* The contacts likewise.
LEMMA ServicesMoveCrm == ServicesSpec => CrmSpec
<1>1. ServicesInit => CrmInit
  BY DEF ServicesInit
<1>2. [ServicesNext]_servicesVars => [CrmNext]_crmVars
  BY DEF ServicesNext, servicesVars
<1> QED BY <1>1, <1>2, PTL DEF ServicesSpec, CrmSpec

\* The tasks likewise.
LEMMA ServicesMoveTasks == ServicesSpec => SpeakerTasksSpec
<1>1. ServicesInit => SpeakerTasksInit
  BY DEF ServicesInit
<1>2. [ServicesNext]_servicesVars => [SpeakerTasksNext]_tasksVars
  BY DEF ServicesNext, servicesVars
<1> QED BY <1>1, <1>2, PTL DEF ServicesSpec, SpeakerTasksSpec

\* AccountsSafe and CrmSafe in every state of the services: a person signs in to
\* what they own and nothing else, and no note is stranded by a merge.
THEOREM PeopleAreSafe == ServicesSpec => []PeopleHold
<1>1. AccountsSafe /\ CrmSafe => PeopleHold
  BY DEF PeopleHold
<1> QED BY <1>1, ServicesMoveAccounts, ServicesMoveCrm, AccountsAreSafe, CrmIsSafe, PTL

\* SpeakerTasksSafe in every state of the services: a speaker has every task that
\* they were told of, and the other way round.
THEOREM SpeakersHaveTheirTasks == ServicesSpec => []SpeakerTasksHold
<1>1. SpeakerTasksSafe => SpeakerTasksHold
  BY DEF SpeakerTasksHold
<1> QED BY <1>1, ServicesMoveTasks, TasksAreHandedOver, PTL
=============================================================================
