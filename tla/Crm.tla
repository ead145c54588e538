-------------------------------- MODULE Crm --------------------------------
(***************************************************************************)
(* The contacts of one organization (speaker-crm/service.ts): imports,     *)
(* notes and merges by several organizers.                                 *)
(*                                                                         *)
(* A contact and its person are named by the address they were created     *)
(* for.  A merge reads both contacts, then waits for their rows: its       *)
(* writes are one step, which may find the contacts changed.               *)
(***************************************************************************)
CONSTANTS Addresses, CrmNotes, Mergers, Writers

\* An address is no word of the models below.
ASSUME CrmAssumption == \A a \in Addresses : a \notin {"active", "absent", "none"}

VARIABLES
  contact,   \* crm_contacts: absent, active, or the contact it is merged into
  owner,     \* person_email_aliases: the person of each address
  noted,     \* crm_contact_notes: the contact of each note
  merger,    \* the merges that read their contacts
  writer,    \* the notes whose contact was found active
  crossed    \* history: a merge or a note was written to a contact that had
             \* been merged since it was read

crmVars == <<contact, owner, noted, merger, writer, crossed>>

NoOne == "none"
NoContact == "absent"
IsActive(c) == contact[c] = "active"

CrmInit ==
  /\ contact = [c \in Addresses |-> NoContact]
  /\ owner = [c \in Addresses |-> NoOne]
  /\ noted = [n \in CrmNotes |-> NoOne]
  /\ merger = [m \in Mergers |-> <<>>]
  /\ writer = [w \in Writers |-> NoOne]
  /\ crossed = FALSE

-----------------------------------------------------------------------------
(* persistContact: an address that is known leads to its person's contact, *)
(* which changes nothing modelled here, or conflicts when it is merged.    *)

ImportContact(c) ==
  /\ owner[c] = NoOne
  /\ contact' = [contact EXCEPT ![c] = "active"]
  /\ owner' = [owner EXCEPT ![c] = c]
  /\ UNCHANGED <<noted, merger, writer, crossed>>

\* addCrmContactNote
FindContact(w, c) ==
  /\ writer[w] = NoOne /\ IsActive(c)
  /\ writer' = [writer EXCEPT ![w] = c]
  /\ UNCHANGED <<contact, owner, noted, merger, crossed>>

InsertNote(w, n) ==
  /\ writer[w] # NoOne /\ noted[n] = NoOne
  /\ noted' = [noted EXCEPT ![n] = writer[w]]
  /\ writer' = [writer EXCEPT ![w] = NoOne]
  /\ crossed' = (crossed \/ ~IsActive(writer[w]))
  /\ UNCHANGED <<contact, owner, merger>>

-----------------------------------------------------------------------------
(* mergeCrmContacts                                                        *)

ReadPair(m, primary, duplicate) ==
  /\ merger[m] = <<>> /\ primary # duplicate /\ IsActive(primary) /\ IsActive(duplicate)
  /\ merger' = [merger EXCEPT ![m] = <<primary, duplicate>>]
  /\ UNCHANGED <<contact, owner, noted, writer, crossed>>

\* crm_contact_merges_merged_unique
MergedBefore(c) == contact[c] \in Addresses

\* Bug: the alias of the merged contact's own address alone is moved.
BugMovedAliases(primary, duplicate) == [owner EXCEPT ![duplicate] = primary]

MovedAliases(primary, duplicate) ==
  [a \in Addresses |-> IF owner[a] = duplicate THEN primary ELSE owner[a]]

Merge(m) ==
  /\ merger[m] # <<>>
  /\ LET primary == merger[m][1]
         duplicate == merger[m][2]
     IN  IF MergedBefore(duplicate)
         THEN UNCHANGED <<contact, owner, noted, crossed>>
         ELSE /\ contact' = [contact EXCEPT ![duplicate] = primary]
              /\ owner' = MovedAliases(primary, duplicate)
              /\ noted' = [n \in CrmNotes |-> IF noted[n] = duplicate THEN primary ELSE noted[n]]
              /\ crossed' = (crossed \/ ~IsActive(primary))
  /\ merger' = [merger EXCEPT ![m] = <<>>]
  /\ UNCHANGED <<writer>>

CrmNext ==
  \/ \E c \in Addresses : ImportContact(c)
  \/ \E w \in Writers : (\E c \in Addresses : FindContact(w, c)) \/ (\E n \in CrmNotes : InsertNote(w, n))
  \/ \E m \in Mergers : (\E p, d \in Addresses : ReadPair(m, p, d)) \/ Merge(m)

CrmSpec == CrmInit /\ [][CrmNext]_crmVars

-----------------------------------------------------------------------------
(* Properties.                                                             *)

CrmTypeOK ==
  /\ contact \in [Addresses -> Addresses \cup {"active", NoContact}]
  /\ owner \in [Addresses -> Addresses \cup {NoOne}]
  /\ noted \in [CrmNotes -> Addresses \cup {NoOne}]

\* The addresses and the notes of a merged contact follow its merges to a
\* contact that is active, so no address is barred from imports ("This email
\* belongs to a contact already merged"), unless merges or notes cross.
NothingStranded ==
  ~crossed => /\ \A a \in Addresses : owner[a] # NoOne => IsActive(owner[a])
              /\ \A n \in CrmNotes : noted[n] # NoOne => IsActive(noted[n])

\* Merges that cross can leave two contacts merged into each other; merges
\* that do not keep a contact active.
SomeoneActive ==
  ~crossed /\ (\E c \in Addresses : contact[c] # NoContact) => \E c \in Addresses : IsActive(c)

CrmSafe == CrmTypeOK /\ NothingStranded /\ SomeoneActive

=============================================================================
