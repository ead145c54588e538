------------------------------ MODULE Airtable ------------------------------
(***************************************************************************)
(* The synchronization of an event with a table of Airtable                *)
(* (integrations/service.ts, repository.ts, airtable-adapter.ts).  An      *)
(* export creates or updates a row for every canonical record; an import   *)
(* takes the notes people add to the rows.  A row is sent no empty value,  *)
(* and has no cell for an empty one.  Runs may overlap, requests fail or   *)
(* lose their answers, and invocations are cut off, which leaves their run *)
(* `running'.  Rows are not deleted, and nobody edits the column that      *)
(* identifies their record.                                                *)
(***************************************************************************)
EXTENDS Naturals, FiniteSets

CONSTANTS
  CanonicalRecords, SyncKeys, RowNotes,
  TableSize,             \* rows the table may come to have
  BatchSize,             \* 10 in the code
  MaxTroubles, MaxTime

ASSUME AirtableAssumption ==
  /\ TableSize \in Nat /\ BatchSize \in Nat \ {0}
  /\ IsFiniteSet(CanonicalRecords) /\ Cardinality(CanonicalRecords) <= TableSize
  /\ MaxTroubles \in Nat /\ MaxTime \in Nat

VARIABLES
  record,      \* the content of each canonical record
  tableRow,    \* the rows of the table
  link,        \* airtable_record_links
  attribute,   \* airtable_external_attributes: a note, and when it was taken
  syncRun,     \* airtable_sync_runs and their invocations
  time,        \* advances with every edit of a row and every import of one
  troubles,    \* failed requests, lost answers and cut-offs so far
  repeated,    \* history: a POST that was carried out has been repeated
  overlapped   \* history: runs that overlapped another one

airtableVars ==
  <<record, tableRow, link, attribute, syncRun, time, troubles, repeated, overlapped>>

Rows == 1..TableSize   \* in the order of their creation
RecordContents == 0..2   \* the value of one mapped column, which may be empty
NoContent == 0
NoRow == [is |-> "absent"]
NoNote == {}
Unlinked == {}
NotListed == {}
Unused == [at |-> "unused"]
Ended == [at |-> "ended"]

NewRow(c, content, now) ==
  [of |-> c, holds |-> content, note |-> NoNote, modifiedAt |-> now, late |-> FALSE]

\* An event that was never exported, or one whose records all have a row.
AirtableInit ==
  /\ record = [c \in CanonicalRecords |-> 1]
  /\ \/ link = [c \in CanonicalRecords |-> Unlinked] /\ tableRow = [r \in Rows |-> NoRow]
     \/ /\ link \in [CanonicalRecords -> {{r} : r \in 1..Cardinality(CanonicalRecords)}]
        /\ \A c, d \in CanonicalRecords : link[c] = link[d] => c = d
        /\ tableRow = [r \in Rows |->
             IF \E c \in CanonicalRecords : link[c] = {r}
             THEN NewRow(CHOOSE c \in CanonicalRecords : link[c] = {r}, 1, 0) ELSE NoRow]
  /\ attribute = [c \in CanonicalRecords |-> [note |-> NoNote, updatedAt |-> 0]]
  /\ syncRun = [k \in SyncKeys |-> Unused]
  /\ time = 0 /\ troubles = 0 /\ repeated = FALSE /\ overlapped = {}

Present == {r \in Rows : tableRow[r] # NoRow}
Working(k) == syncRun[k].at \notin {"unused", "ended"}
Importing == \E k \in SyncKeys : Working(k) /\ syncRun[k].direction = "import"

Trouble == troubles < MaxTroubles /\ troubles' = troubles + 1

-----------------------------------------------------------------------------
(* What happens around the runs.                                           *)

EditCanonical(c) ==
  /\ record[c] = 1
  /\ \E content \in RecordContents \ {1} : record' = [record EXCEPT ![c] = content]
  /\ UNCHANGED <<tableRow, link, attribute, syncRun, time, troubles, repeated, overlapped>>

\* Somebody fills in a note or clears it; `late' if an import is under way.
EditRow(r, n) ==
  /\ r \in Present /\ tableRow[r].note # n /\ time < MaxTime /\ time' = time + 1
  /\ tableRow' = [tableRow EXCEPT ![r] =
               [@ EXCEPT !.note = n, !.modifiedAt = time + 1, !.late = Importing]]
  /\ UNCHANGED <<record, link, attribute, syncRun, troubles, repeated, overlapped>>

-----------------------------------------------------------------------------
(* run: beginRun inserts a run, whose key is unique, and the canonical     *)
(* records are listed; a key that is taken returns its run as it is.       *)

BeginRun(k, direction) ==
  /\ syncRun[k] = Unused
  /\ syncRun' = [syncRun EXCEPT ![k] =
       [at |-> "list", direction |-> direction,
        canonical |-> IF direction = "export" THEN record ELSE NotListed,
        todo |-> {}, synced |-> {}, failed |-> FALSE]]
  /\ overlapped' = LET others == {o \in SyncKeys : Working(o)}
                   IN  IF others = {} THEN overlapped ELSE overlapped \cup others \cup {k}
  /\ UNCHANGED <<record, tableRow, link, attribute, time, troubles, repeated>>

\* listAll reads every page; the listing stands for what it has found.
ListRows(k) ==
  /\ syncRun[k].at = "list"
  /\ syncRun' = [syncRun EXCEPT ![k] =
       [at |-> IF @.direction = "export" THEN "adopt" ELSE "import",
        listed |-> [r \in Present |-> tableRow[r]], todo |-> Present,
        direction |-> @.direction, canonical |-> @.canonical,
        synced |-> {}, failed |-> FALSE]]
  /\ UNCHANGED <<record, tableRow, link, attribute, time, troubles, repeated, overlapped>>

Abandoned(run) ==
  [at |-> "finish", direction |-> run.direction, canonical |-> run.canonical,
   todo |-> {}, synced |-> run.synced, failed |-> TRUE]

\* A list that fails, or an error of the database, fails the rest of the run.
RunFails(k) ==
  /\ syncRun[k].at \in {"list", "adopt", "import"} /\ Trouble
  /\ syncRun' = [syncRun EXCEPT ![k] = Abandoned(@)]
  /\ UNCHANGED <<record, tableRow, link, attribute, time, repeated, overlapped>>

-----------------------------------------------------------------------------
(* exportRecords                                                           *)

\* Bug: an export trusts its links and adopts no row.
BugAdopted(k, c) == {}

\* The listed rows that name a record.
Adopted(k, c) == {r \in DOMAIN syncRun[k].listed : syncRun[k].listed[r].of = c}

\* The one listed last is linked.
AdoptRows(k) ==
  /\ syncRun[k].at = "adopt"
  /\ \E new \in [CanonicalRecords -> {{r} : r \in Present} \cup {Unlinked}] :
       /\ \A c \in CanonicalRecords :
            IF Adopted(k, c) = {} THEN new[c] = link[c]
            ELSE \E r \in Adopted(k, c) : new[c] = {r}
       /\ link' = new
       /\ syncRun' = [syncRun EXCEPT ![k] =
            [at |-> "export", direction |-> "export", canonical |-> @.canonical,
             links |-> new, todo |-> CanonicalRecords, synced |-> {}, failed |-> FALSE]]
  /\ UNCHANGED <<record, tableRow, attribute, time, troubles, repeated, overlapped>>

\* The records are sorted; creates come before updates.
NextBatch(k) ==
  LET todo == syncRun[k].todo
      creates == {c \in todo : syncRun[k].links[c] = Unlinked}
      kind == IF creates = {} THEN todo ELSE creates
      size == IF Cardinality(kind) < BatchSize THEN Cardinality(kind) ELSE BatchSize
  IN  CHOOSE batch \in SUBSET kind : Cardinality(batch) = size

Exporting(k) == syncRun[k].at = "export" /\ syncRun[k].todo # {}
IsCreate(k) == Exporting(k) /\ \E c \in NextBatch(k) : syncRun[k].links[c] = Unlinked

\* Where the rows of a batch are or will be: new rows follow those there are.
NextRows(n) == {r \in Rows \ Present : Cardinality({s \in Rows \ Present : s < r}) < n}
Places(k) ==
  IF IsCreate(k)
  THEN {place \in [NextBatch(k) -> NextRows(Cardinality(NextBatch(k)))] :
          \A c, d \in NextBatch(k) : place[c] = place[d] => c = d}
  ELSE {[c \in NextBatch(k) |-> CHOOSE r \in Rows : syncRun[k].links[c] = {r}]}

\* A PATCH without a cell leaves it as it was.
Patched(row, content) == [row EXCEPT !.holds = IF content = NoContent THEN @ ELSE content]

\* Airtable carries out a POST or a PATCH.
CarryOut(k, place) ==
  tableRow' = [r \in Rows |->
    IF \E c \in NextBatch(k) : place[c] = r
    THEN LET c == CHOOSE b \in NextBatch(k) : place[b] = r
         IN  IF r \in Present THEN Patched(tableRow[r], syncRun[k].canonical[c])
             ELSE NewRow(c, syncRun[k].canonical[c], time)
    ELSE tableRow[r]]

\* exportCreateBatch, exportUpdateBatch: the request is answered.
SendBatch(k) ==
  /\ Exporting(k)
  /\ \E place \in Places(k) :
       /\ CarryOut(k, place)
       /\ syncRun' = [syncRun EXCEPT ![k] =
            [at |-> "link", direction |-> "export", canonical |-> @.canonical, links |-> @.links,
             todo |-> @.todo, synced |-> @.synced, failed |-> @.failed, place |-> place]]
  /\ UNCHANGED <<record, link, attribute, time, troubles, repeated, overlapped>>

\* The answer is lost, and the adapter sends the batch again: a repeated POST
\* creates its rows twice.
RepeatBatch(k) ==
  /\ Exporting(k) /\ Trouble
  /\ \E place \in Places(k) : CarryOut(k, place)
  /\ repeated' = (repeated \/ IsCreate(k))
  /\ UNCHANGED <<record, link, attribute, syncRun, time, overlapped>>

\* Bug: the rows of a failed batch are not counted.
BugRowsFail(k) == syncRun[k].failed

\* recordRowFailure
RowsFail(k) == TRUE

\* What is left of a run whose batch failed after `synced' were linked: the next
\* batches, or nothing if the failures of its rows could not be recorded either.
AfterFailure(k, batch, synced) ==
  LET run == syncRun[k]
  IN  {[at |-> "export", direction |-> "export", canonical |-> run.canonical,
        links |-> run.links, todo |-> run.todo \ batch, synced |-> synced,
        failed |-> RowsFail(k)],
       Abandoned([run EXCEPT !.synced = synced])}

\* The last attempt fails, whether Airtable has carried it out or not.
BatchFails(k) ==
  /\ Exporting(k) /\ Trouble
  /\ UNCHANGED tableRow \/ \E place \in Places(k) : CarryOut(k, place)
  /\ \E run \in AfterFailure(k, NextBatch(k), syncRun[k].synced) :
       syncRun' = [syncRun EXCEPT ![k] = run]
  /\ UNCHANGED <<record, link, attribute, time, repeated, overlapped>>

\* upsertLink and successItem for each record of the batch.
LinkBatch(k) ==
  /\ syncRun[k].at = "link"
  /\ LET place == syncRun[k].place
     IN  /\ link' = [c \in CanonicalRecords |->
               IF c \in DOMAIN place THEN {place[c]} ELSE link[c]]
         /\ syncRun' = [syncRun EXCEPT ![k] =
               [at |-> "export", direction |-> "export", canonical |-> @.canonical,
                links |-> @.links, todo |-> @.todo \ DOMAIN place,
                synced |-> @.synced \cup DOMAIN place, failed |-> @.failed]]
  /\ UNCHANGED <<record, tableRow, attribute, time, troubles, repeated, overlapped>>

\* An error of the database while a batch is linked is caught for the batch,
\* some of whose records have been linked.
LinkFails(k) ==
  /\ syncRun[k].at = "link" /\ Trouble
  /\ LET place == syncRun[k].place
     IN  \E some \in SUBSET DOMAIN place :
           /\ link' = [c \in CanonicalRecords |-> IF c \in some THEN {place[c]} ELSE link[c]]
           /\ \E run \in AfterFailure(k, DOMAIN place, syncRun[k].synced \cup some) :
                syncRun' = [syncRun EXCEPT ![k] = run]
  /\ UNCHANGED <<record, tableRow, attribute, time, repeated, overlapped>>

-----------------------------------------------------------------------------
(* importRecords                                                           *)

\* localValueIsNewer: the last import was later than the listed edit.
LocalValueIsNewer(c, seen) ==
  attribute[c].note # NoNote /\ attribute[c].updatedAt > seen.modifiedAt

\* importRecord: a row without a note is skipped, and one whose edit is older
\* than the last import counts as failed.
ImportRow(k, r) ==
  /\ syncRun[k].at = "import" /\ r \in syncRun[k].todo
  /\ LET seen == syncRun[k].listed[r]
         c == seen.of
         applies == seen.note # NoNote /\ ~LocalValueIsNewer(c, seen)
         refused == seen.note # NoNote /\ LocalValueIsNewer(c, seen)
     IN  /\ applies => time < MaxTime
         /\ time' = IF applies THEN time + 1 ELSE time
         /\ attribute' = IF applies
              THEN [attribute EXCEPT ![c] = [note |-> seen.note, updatedAt |-> time + 1]]
              ELSE attribute
         /\ link' = IF applies THEN [link EXCEPT ![c] = {r}] ELSE link
         /\ syncRun' = [syncRun EXCEPT ![k] =
              [at |-> "import", listed |-> @.listed, todo |-> @.todo \ {r},
               direction |-> "import", canonical |-> @.canonical,
               synced |-> IF applies THEN @.synced \cup {c} ELSE @.synced,
               failed |-> @.failed \/ refused]]
  /\ UNCHANGED <<record, tableRow, troubles, repeated, overlapped>>

-----------------------------------------------------------------------------
(* finish, and the platform                                                *)

StatusOf(k) ==
  IF ~syncRun[k].failed THEN "succeeded"
  ELSE IF syncRun[k].synced # {} THEN "partial" ELSE "failed"

Finishes(k) == syncRun[k].at \in {"export", "import", "finish"} /\ syncRun[k].todo = {}

\* completeRun stores StatusOf(k), which nothing reads but a reply.
Finish(k) ==
  /\ Finishes(k)
  /\ syncRun' = [syncRun EXCEPT ![k] = Ended]
  /\ UNCHANGED <<record, tableRow, link, attribute, time, troubles, repeated, overlapped>>

CutOffRun(k) ==
  /\ Working(k) /\ Trouble
  /\ syncRun' = [syncRun EXCEPT ![k] = Ended]
  /\ UNCHANGED <<record, tableRow, link, attribute, time, repeated, overlapped>>

AirtableNext ==
  \/ \E c \in CanonicalRecords : EditCanonical(c)
  \/ \E r \in Rows, n \in RowNotes \cup {NoNote} : EditRow(r, n)
  \/ \E k \in SyncKeys :
       \/ \E direction \in {"export", "import"} : BeginRun(k, direction)
       \/ ListRows(k) \/ RunFails(k) \/ AdoptRows(k) \/ SendBatch(k) \/ RepeatBatch(k)
       \/ BatchFails(k) \/ LinkBatch(k) \/ LinkFails(k) \/ Finish(k) \/ CutOffRun(k)
       \/ \E r \in Rows : ImportRow(k, r)

AirtableSpec == AirtableInit /\ [][AirtableNext]_airtableVars

-----------------------------------------------------------------------------
(* Properties.                                                             *)

AirtableTypeOK ==
  /\ record \in [CanonicalRecords -> RecordContents]
  /\ \A r \in Present : tableRow[r].of \in CanonicalRecords /\ tableRow[r].modifiedAt \in 0..time
  /\ \A c \in CanonicalRecords : attribute[c].updatedAt \in 0..time
  /\ overlapped \subseteq SyncKeys /\ troubles \in 0..MaxTroubles

\* A link leads to a row of its record, and a record has a second row only if
\* an answer was lost and the adapter repeated the request, or runs overlapped:
\* failed batches and runs that were cut off are made up for by adoption.
AirtableSafe ==
  /\ AirtableTypeOK
  /\ \A c \in CanonicalRecords, r \in Rows : link[c] = {r} => r \in Present /\ tableRow[r].of = c
  /\ ~repeated /\ overlapped = {} =>
       \A r, s \in Present : tableRow[r].of = tableRow[s].of => r = s

OnlyRow(r) == \A s \in Present : tableRow[s].of = tableRow[r].of => s = r

\* A row shows a value unless the value is empty: an empty one is not sent, and
\* the row may go on showing an older one.
Shows(row, content) == content \in {row.holds, NoContent}

\* What a run that overlapped no other may claim when it ends.  An export that
\* succeeded has put every value it listed into the linked row of its record.  An
\* import that was not cut short has taken the note of every row it listed, unless
\* the row has none (a note that was cleared stays stored), has a duplicate or was
\* edited while an import was under way.
ReceiptsAreTrue ==
  [][\A k \in SyncKeys \ overlapped : Finish(k) =>
       IF syncRun[k].direction = "export"
       THEN StatusOf(k) = "succeeded" =>
              \A c \in CanonicalRecords :
                \E r \in Present : link[c] = {r} /\ Shows(tableRow[r], syncRun[k].canonical[c])
       ELSE syncRun[k].at = "import" =>
              \A r \in DOMAIN syncRun[k].listed :
                tableRow[r] = syncRun[k].listed[r] /\ OnlyRow(r) /\ ~tableRow[r].late =>
                  tableRow[r].note \in {attribute[tableRow[r].of].note, NoNote}]_airtableVars

=============================================================================
