------------------------- MODULE IntegrationsProofs -------------------------
(***************************************************************************)
(* Proofs about the two integrations (Airtable, Accelevents), for every    *)
(* value of their constants.                                               *)
(***************************************************************************)
EXTENDS Airtable, Accelevents, FiniteSetTheorems, TLAPS

-----------------------------------------------------------------------------
(***************************************************************************)
(* Airtable: an import, the batches of an export and what the table        *)
(* holds.                                                                  *)
(***************************************************************************)

Notes == {NoNote} \cup RowNotes
TableRows == [of : CanonicalRecords, holds : RecordContents, note : Notes,
              modifiedAt : Nat, late : BOOLEAN]
Links == {{r} : r \in Rows} \cup {Unlinked}

AirtableTyped ==
  /\ AirtableTypeOK
  /\ tableRow \in [Rows -> {NoRow} \cup TableRows]
  /\ link \in [CanonicalRecords -> Links]
  /\ attribute \in [CanonicalRecords -> [note : Notes, updatedAt : Nat]]
  /\ syncRun = [k \in SyncKeys |-> syncRun[k]]
  /\ time \in Nat /\ repeated \in BOOLEAN

\* A link leads to a row of its record.
Leads(to) ==
  \A c \in CanonicalRecords, r \in Rows : to[c] = {r} => r \in Present /\ tableRow[r].of = c

\* What a run may hold at each of its steps.
Canonical(j) == j.canonical \in [CanonicalRecords -> RecordContents]

\* The listed rows are still there, for the same records.
Sees(j) ==
  /\ j.listed = [r \in DOMAIN j.listed |-> j.listed[r]]
  /\ DOMAIN j.listed \subseteq Present
  /\ \A r \in DOMAIN j.listed :
       j.listed[r] \in TableRows /\ j.listed[r].of = tableRow[r].of

ListingRun(j) ==
  /\ j.at = "list"
  /\ j = [at |-> "list", direction |-> j.direction, canonical |-> j.canonical,
          todo |-> {}, synced |-> {}, failed |-> FALSE]
  /\ j.direction \in {"export", "import"} /\ (j.direction = "export" => Canonical(j))

AdoptingRun(j) ==
  /\ j.at = "adopt"
  /\ j = [at |-> "adopt", listed |-> j.listed, todo |-> j.todo, direction |-> "export",
          canonical |-> j.canonical, synced |-> {}, failed |-> FALSE]
  /\ Canonical(j) /\ Sees(j)

ExportingRun(j) ==
  /\ j.at = "export"
  /\ j = [at |-> "export", direction |-> "export", canonical |-> j.canonical,
          links |-> j.links, todo |-> j.todo, synced |-> j.synced, failed |-> j.failed]
  /\ Canonical(j) /\ j.links \in [CanonicalRecords -> Links] /\ Leads(j.links)
  /\ j.todo \subseteq CanonicalRecords /\ j.synced \subseteq CanonicalRecords
  /\ j.failed \in BOOLEAN

LinkingRun(j) ==
  /\ j.at = "link"
  /\ j = [at |-> "link", direction |-> "export", canonical |-> j.canonical,
          links |-> j.links, todo |-> j.todo, synced |-> j.synced, failed |-> j.failed,
          place |-> j.place]
  /\ Canonical(j) /\ j.links \in [CanonicalRecords -> Links] /\ Leads(j.links)
  /\ j.todo \subseteq CanonicalRecords /\ j.synced \subseteq CanonicalRecords
  /\ j.failed \in BOOLEAN
  /\ DOMAIN j.place \subseteq j.todo
  /\ \A c \in DOMAIN j.place : j.place[c] \in Present /\ tableRow[j.place[c]].of = c

\* A row nobody edited under an import has the note the import has listed.
ImportingRun(j) ==
  /\ j.at = "import"
  /\ j = [at |-> "import", listed |-> j.listed, todo |-> j.todo, direction |-> "import",
          canonical |-> j.canonical, synced |-> j.synced, failed |-> j.failed]
  /\ Sees(j) /\ j.todo \subseteq DOMAIN j.listed
  /\ \A r \in DOMAIN j.listed : ~tableRow[r].late => j.listed[r].note = tableRow[r].note

FailingRun(j) ==
  /\ j.at = "finish"
  /\ j = [at |-> "finish", direction |-> j.direction, canonical |-> j.canonical,
          todo |-> {}, synced |-> j.synced, failed |-> TRUE]

RunHolds(j) ==
  \/ j = Unused \/ j = Ended \/ FailingRun(j)
  \/ ListingRun(j) \/ AdoptingRun(j) \/ ExportingRun(j) \/ LinkingRun(j) \/ ImportingRun(j)

\* What a run that overlapped no other has done so far.
Exact(j) ==
  /\ j.at \in {"export", "link"} =>
       /\ ~j.failed => CanonicalRecords \subseteq j.todo \cup j.synced
       /\ \A c \in j.synced : \E r \in Present :
            link[c] = {r} /\ Shows(tableRow[r], j.canonical[c])
  /\ j.at = "link" =>
       \A c \in DOMAIN j.place : Shows(tableRow[j.place[c]], j.canonical[c])
  /\ j.at = "import" =>
       \A r \in DOMAIN j.listed \ j.todo :
         tableRow[r] = j.listed[r] /\ OnlyRow(r) /\ ~tableRow[r].late =>
           tableRow[r].note \in {attribute[tableRow[r].of].note, NoNote}

\* A record a run is going to create has no row.
Misses(j) ==
  /\ j.at = "adopt" => DOMAIN j.listed = Present
  /\ j.at \in {"export", "link"} =>
       \A c \in j.todo, r \in Present :
         j.links[c] = Unlinked /\ tableRow[r].of = c => j.at = "link" /\ c \in DOMAIN j.place

SingleRows == \A r, s \in Present : tableRow[r].of = tableRow[s].of => r = s

\* A note that was taken came from a row of its record; and if that is the only one
\* and was not edited since, or under an import, it is the note of the row.
NotesTaken ==
  /\ \A c \in CanonicalRecords : attribute[c].note # NoNote =>
       \E r \in Present : tableRow[r].of = c
  /\ \A r \in Present :
       /\ OnlyRow(r) /\ ~tableRow[r].late /\ attribute[tableRow[r].of].note # NoNote
       /\ attribute[tableRow[r].of].updatedAt > tableRow[r].modifiedAt
       => attribute[tableRow[r].of].note = tableRow[r].note

AirtableInductive ==
  /\ AirtableTyped
  /\ Leads(link)
  /\ NotesTaken
  /\ \A k \in SyncKeys : RunHolds(syncRun[k])
  /\ \A k, o \in SyncKeys : Working(k) /\ Working(o) /\ k # o => k \in overlapped
  /\ \A k \in SyncKeys \ overlapped : Exact(syncRun[k])
  /\ ~repeated /\ overlapped = {} => SingleRows /\ \A k \in SyncKeys : Misses(syncRun[k])

-----------------------------------------------------------------------------
(* Rows, runs and batches.                                                 *)

\* A row is told from a missing one by what it has.
LEMMA RowsArePresent ==
  ASSUME AirtableTyped, NEW r \in Rows
  PROVE  r \in Present <=> tableRow[r] \in TableRows
<1>1. ASSUME NEW row \in TableRows PROVE row # NoRow
  <2>1. DOMAIN row = {"of", "holds", "note", "modifiedAt", "late"}
    BY DEF TableRows
  <2>2. DOMAIN NoRow = {"is"}
    BY DEF NoRow
  <2> QED BY <2>1, <2>2
<1>2. tableRow[r] \in {NoRow} \cup TableRows
  BY DEF AirtableTyped
<1> QED BY <1>1, <1>2 DEF Present

\* A finite set has a subset of every smaller size.
LEMMA SubsetOfSize ==
  ASSUME NEW S, IsFiniteSet(S), NEW n \in Nat, n <= Cardinality(S)
  PROVE  \E T \in SUBSET S : Cardinality(T) = n
<1>1. Cardinality(S) \in Nat /\ ExistsBijection(1..Cardinality(S), S)
  BY FS_CardinalityType
<1>2. PICK f \in Bijection(1..Cardinality(S), S) : TRUE
  BY <1>1 DEF ExistsBijection
<1> DEFINE T == {f[i] : i \in 1..n}
           g == [i \in 1..n |-> f[i]]
<1>3. f \in [1..Cardinality(S) -> S]
      /\ \A i, j \in 1..Cardinality(S) : f[i] = f[j] => i = j
  BY <1>2 DEF Bijection, Injection, IsInjective
<1>4. 1..n \subseteq 1..Cardinality(S)
  BY <1>1
<1>5. T \subseteq S
  BY <1>3, <1>4
<1>6. g \in Bijection(1..n, T)
  <2>1. g \in [1..n -> T]
    OBVIOUS
  <2>2. g \in Injection(1..n, T)
    BY <1>3, <1>4, <2>1 DEF Injection, IsInjective
  <2>3. g \in Surjection(1..n, T)
    BY <2>1 DEF Surjection
  <2> QED BY <2>2, <2>3 DEF Bijection
<1>7. Cardinality(T) = n
  BY <1>6, FS_CountingElements DEF ExistsBijection
<1> QED BY <1>5, <1>7

\* The step a run is at tells what it holds.
LEMMA RunsByStep ==
  ASSUME NEW j, RunHolds(j)
  PROVE  /\ j.at = "list" => ListingRun(j)
         /\ j.at = "adopt" => AdoptingRun(j)
         /\ j.at = "export" => ExportingRun(j)
         /\ j.at = "link" => LinkingRun(j)
         /\ j.at = "import" => ImportingRun(j)
         /\ j.at = "finish" => FailingRun(j)
         /\ j.at \in {"unused", "ended", "list", "adopt", "export", "link", "import", "finish"}
<1>1. Unused.at = "unused" /\ Ended.at = "ended"
  BY DEF Unused, Ended
<1>2. /\ ListingRun(j) => j.at = "list"
      /\ AdoptingRun(j) => j.at = "adopt"
      /\ ExportingRun(j) => j.at = "export"
      /\ LinkingRun(j) => j.at = "link"
      /\ ImportingRun(j) => j.at = "import"
      /\ FailingRun(j) => j.at = "finish"
  BY DEF ListingRun, AdoptingRun, ExportingRun, LinkingRun, ImportingRun, FailingRun
<1> QED BY <1>1, <1>2 DEF RunHolds

\* A batch is not empty, has only creates or only updates, and is part of what there
\* is to do.
LEMMA BatchOfOneKind ==
  ASSUME AirtableInductive, NEW k \in SyncKeys, Exporting(k)
  PROVE  /\ ExportingRun(syncRun[k])
         /\ NextBatch(k) \subseteq syncRun[k].todo
         /\ IF IsCreate(k) THEN \A c \in NextBatch(k) : syncRun[k].links[c] = Unlinked
            ELSE \A c \in NextBatch(k) : syncRun[k].links[c] # Unlinked
<1>1. ExportingRun(syncRun[k])
  BY RunsByStep DEF AirtableInductive, Exporting
<1> DEFINE todo == syncRun[k].todo
           creates == {c \in todo : syncRun[k].links[c] = Unlinked}
           kind == IF creates = {} THEN todo ELSE creates
           size == IF Cardinality(kind) < BatchSize THEN Cardinality(kind) ELSE BatchSize
<1>2. kind \subseteq todo /\ todo \subseteq CanonicalRecords
  BY <1>1 DEF ExportingRun
<1>3. IsFiniteSet(kind) /\ Cardinality(kind) \in Nat
  BY <1>2, AirtableAssumption, FS_Subset, FS_CardinalityType
<1>4. size \in Nat /\ size <= Cardinality(kind)
  BY <1>3, AirtableAssumption
<1>5. \E batch \in SUBSET kind : Cardinality(batch) = size
  <2> HIDE DEF kind, size
  <2> QED BY <1>3, <1>4, SubsetOfSize
<1>6. NextBatch(k) \in SUBSET kind
  <2>1. NextBatch(k) = CHOOSE batch \in SUBSET kind : Cardinality(batch) = size
    BY DEF NextBatch
  <2> HIDE DEF kind, size
  <2> QED BY <1>5, <2>1
<1>7. IsCreate(k) => creates # {}
  BY <1>6 DEF IsCreate
<1>8. ~IsCreate(k) => \A c \in NextBatch(k) : syncRun[k].links[c] # Unlinked
  BY DEF IsCreate
<1> QED BY <1>1, <1>2, <1>6, <1>7, <1>8

\* Where a batch goes: new rows for new records, or the row each one is linked to.
LEMMA PlacesOfOneKind ==
  ASSUME AirtableInductive, NEW k \in SyncKeys, Exporting(k), NEW place \in Places(k)
  PROVE  /\ place \in [NextBatch(k) -> Rows]
         /\ \A c, d \in NextBatch(k) : place[c] = place[d] => c = d
         /\ \A c \in NextBatch(k) :
              IF IsCreate(k) THEN place[c] \notin Present
              ELSE place[c] \in Present /\ tableRow[place[c]].of = c
<1>1. /\ ExportingRun(syncRun[k])
      /\ NextBatch(k) \subseteq syncRun[k].todo
      /\ IF IsCreate(k) THEN \A c \in NextBatch(k) : syncRun[k].links[c] = Unlinked
         ELSE \A c \in NextBatch(k) : syncRun[k].links[c] # Unlinked
  BY BatchOfOneKind
<1>2. /\ NextBatch(k) \subseteq CanonicalRecords
      /\ syncRun[k].links \in [CanonicalRecords -> Links] /\ Leads(syncRun[k].links)
  BY <1>1 DEF ExportingRun
<1>3. CASE IsCreate(k)
  <2>1. \A n : NextRows(n) \subseteq Rows \ Present
    BY DEF NextRows
  <2>2. /\ place \in [NextBatch(k) -> NextRows(Cardinality(NextBatch(k)))]
        /\ \A c, d \in NextBatch(k) : place[c] = place[d] => c = d
    BY <1>3 DEF Places
  <2> QED BY <1>3, <2>1, <2>2
<1>4. CASE ~IsCreate(k)
  <2>1. place = [c \in NextBatch(k) |-> CHOOSE r \in Rows : syncRun[k].links[c] = {r}]
    BY <1>4 DEF Places
  <2>2. ASSUME NEW c \in NextBatch(k)
        PROVE  /\ place[c] \in Rows /\ place[c] \in Present /\ tableRow[place[c]].of = c
    <3>1. syncRun[k].links[c] \in Links /\ syncRun[k].links[c] # Unlinked
      BY <1>1, <1>2, <1>4
    <3>2. \E r \in Rows : syncRun[k].links[c] = {r}
      BY <3>1 DEF Links
    <3>3. place[c] \in Rows /\ syncRun[k].links[c] = {place[c]}
      BY <2>1, <3>2
    <3> QED BY <1>2, <3>3 DEF Leads
  <2> QED BY <1>4, <2>1, <2>2
<1> QED BY <1>3, <1>4

\* What a POST or a PATCH leaves: rows are added for records of the batch, and of the
\* other rows nothing but the content changes.
Wrote(k, place) ==
  /\ tableRow' \in [Rows -> {NoRow} \cup TableRows]
  /\ \A r \in Present :
       /\ r \in Present' /\ tableRow'[r] \in TableRows /\ tableRow'[r].of = tableRow[r].of
       /\ tableRow'[r].note = tableRow[r].note /\ tableRow'[r].late = tableRow[r].late
       /\ tableRow'[r].modifiedAt = tableRow[r].modifiedAt
       /\ \/ tableRow'[r].holds = tableRow[r].holds
          \/ tableRow'[r].holds = syncRun[k].canonical[tableRow[r].of]
  /\ \A r \in Present' \ Present : \E c \in NextBatch(k) :
       /\ IsCreate(k) /\ place[c] = r
       /\ tableRow'[r] = NewRow(c, syncRun[k].canonical[c], time)
  /\ \A c \in NextBatch(k) :
       /\ place[c] \in Present' /\ tableRow'[place[c]].of = c
       /\ Shows(tableRow'[place[c]], syncRun[k].canonical[c])

\* A request that is carried out does so.
LEMMA CarryOutWrites ==
  ASSUME AirtableInductive, NEW k \in SyncKeys, Exporting(k), NEW place \in Places(k),
         CarryOut(k, place)
  PROVE  Wrote(k, place)
<1> DEFINE canonical == syncRun[k].canonical
<1>1. /\ place \in [NextBatch(k) -> Rows]
      /\ \A c, d \in NextBatch(k) : place[c] = place[d] => c = d
      /\ \A c \in NextBatch(k) :
           IF IsCreate(k) THEN place[c] \notin Present
           ELSE place[c] \in Present /\ tableRow[place[c]].of = c
  BY PlacesOfOneKind
<1>2. /\ NextBatch(k) \subseteq CanonicalRecords
      /\ canonical \in [CanonicalRecords -> RecordContents]
  BY BatchOfOneKind DEF ExportingRun, Canonical
<1>3. /\ AirtableTyped /\ time \in Nat
      /\ \A r \in Rows : r \in Present <=> tableRow[r] \in TableRows
      /\ tableRow \in [Rows -> {NoRow} \cup TableRows]
  BY RowsArePresent DEF AirtableInductive, AirtableTyped
<1>4. ASSUME NEW r \in Rows, \A c \in NextBatch(k) : place[c] # r
      PROVE  tableRow'[r] = tableRow[r]
  BY <1>4 DEF CarryOut
<1>5. ASSUME NEW c \in NextBatch(k), place[c] \in Present
      PROVE  tableRow'[place[c]] = Patched(tableRow[place[c]], canonical[c])
  <2>1. (CHOOSE b \in NextBatch(k) : place[b] = place[c]) = c
    BY <1>1
  <2> QED BY <1>1, <1>5, <2>1 DEF CarryOut
<1>6. ASSUME NEW c \in NextBatch(k), place[c] \notin Present
      PROVE  tableRow'[place[c]] = NewRow(c, canonical[c], time)
  <2>1. (CHOOSE b \in NextBatch(k) : place[b] = place[c]) = c
    BY <1>1
  <2> QED BY <1>1, <1>6, <2>1 DEF CarryOut
<1>7. ASSUME NEW c \in NextBatch(k) PROVE NewRow(c, canonical[c], time) \in TableRows
  BY <1>2, <1>3 DEF NewRow, TableRows, Notes
<1>8. \A c \in NextBatch(k) :
        tableRow'[place[c]] \in TableRows /\ tableRow'[place[c]].of = c
        /\ Shows(tableRow'[place[c]], canonical[c])
  <2> TAKE c \in NextBatch(k)
  <2>1. CASE place[c] \in Present
    <3>1. tableRow[place[c]] \in TableRows /\ tableRow[place[c]].of = c
      BY <1>1, <1>3, <2>1
    <3>2. canonical[c] \in RecordContents
      BY <1>2
    <3> QED BY <1>5, <2>1, <3>1, <3>2 DEF TableRows, Patched, Shows
  <2>2. CASE place[c] \notin Present
    <3>1. tableRow'[place[c]] = NewRow(c, canonical[c], time)
      BY <1>6, <2>2
    <3>2. NewRow(c, canonical[c], time).of = c /\ NewRow(c, canonical[c], time).holds = canonical[c]
      BY DEF NewRow
    <3>3. NewRow(c, canonical[c], time) \in TableRows
      BY <1>7
    <3> QED BY <3>1, <3>2, <3>3 DEF Shows
  <2> QED BY <2>1, <2>2
<1>9. tableRow' \in [Rows -> {NoRow} \cup TableRows]
  <2>1. tableRow' = [r \in Rows |-> tableRow'[r]]
    BY DEF CarryOut
  <2>2. \A r \in Rows : tableRow'[r] \in {NoRow} \cup TableRows
    BY <1>3, <1>4, <1>8
  <2> QED BY <2>1, <2>2
<1>10. \A r \in Rows : r \in Present' <=> tableRow'[r] # NoRow
  BY DEF Present, Rows
<1>11. \A row \in TableRows : row # NoRow
  <2> TAKE row \in TableRows
  <2>1. DOMAIN row = {"of", "holds", "note", "modifiedAt", "late"} /\ DOMAIN NoRow = {"is"}
    BY DEF TableRows, NoRow
  <2> QED BY <2>1
<1>12. ASSUME NEW r \in Present
       PROVE  /\ r \in Present' /\ tableRow'[r] \in TableRows
              /\ tableRow'[r].of = tableRow[r].of
              /\ tableRow'[r].note = tableRow[r].note /\ tableRow'[r].late = tableRow[r].late
              /\ tableRow'[r].modifiedAt = tableRow[r].modifiedAt
              /\ \/ tableRow'[r].holds = tableRow[r].holds
                 \/ tableRow'[r].holds = canonical[tableRow[r].of]
  <2>1. r \in Rows /\ tableRow[r] \in TableRows
    BY <1>3 DEF Present
  <2>2. CASE \E c \in NextBatch(k) : place[c] = r
    <3>1. PICK c \in NextBatch(k) : place[c] = r
      BY <2>2
    <3>2. tableRow'[r] = Patched(tableRow[r], canonical[c]) /\ tableRow[r].of = c
      BY <1>1, <1>5, <3>1
    <3>3. tableRow'[r] \in TableRows
      BY <1>8, <3>1
    <3> QED BY <1>10, <1>11, <2>1, <3>2, <3>3 DEF TableRows, Patched
  <2>3. CASE ~\E c \in NextBatch(k) : place[c] = r
    BY <1>4, <1>10, <1>11, <2>1, <2>3
  <2> QED BY <2>2, <2>3
<1>13. ASSUME NEW r \in Present' \ Present
       PROVE  \E c \in NextBatch(k) :
                IsCreate(k) /\ place[c] = r /\ tableRow'[r] = NewRow(c, canonical[c], time)
  <2>1. r \in Rows /\ tableRow'[r] # tableRow[r]
    <3>1. r \in Rows
      BY DEF Present, Rows
    <3> QED BY <1>10, <3>1 DEF Present
  <2>2. PICK c \in NextBatch(k) : place[c] = r
    BY <1>4, <2>1
  <2> QED BY <1>1, <1>6, <2>2
<1>14. \A c \in NextBatch(k) : place[c] \in Present'
  BY <1>1, <1>8, <1>10, <1>11
<1> QED BY <1>8, <1>9, <1>12, <1>13, <1>14 DEF Wrote

-----------------------------------------------------------------------------
(* What a step of one run leaves of the others.                            *)

RowsStay ==
  \A r \in Present :
    r \in Present' /\ tableRow'[r].of = tableRow[r].of

EditsAreLate ==
  \A r \in Present :
    ~tableRow'[r].late => ~tableRow[r].late /\ tableRow'[r].note = tableRow[r].note

RowsKept == RowsStay /\ EditsAreLate

\* A run that does not move holds what it held.
LEMMA LeadsStill ==
  ASSUME NEW to, Leads(to), RowsStay PROVE Leads(to)'
BY DEF Leads, RowsStay, Rows

\* What a run has listed or placed is still in the table.
LEMMA RunStillHolds ==
  ASSUME NEW j, RunHolds(j), RowsStay, j.at = "import" => EditsAreLate
  PROVE  RunHolds(j)'
<1>1. CASE j = Unused \/ j = Ended
  BY <1>1 DEF RunHolds, Unused, Ended
<1>2. CASE FailingRun(j)
  BY <1>2 DEF RunHolds, FailingRun
<1>3. CASE ListingRun(j)
  BY <1>3 DEF RunHolds, ListingRun, Canonical, RecordContents
<1>4. CASE AdoptingRun(j)
  <2>1. AdoptingRun(j)'
    BY <1>4 DEF AdoptingRun, Canonical, RecordContents, Sees, RowsStay, TableRows, Notes, NoNote
  <2> QED BY <2>1 DEF RunHolds
<1>5. CASE ExportingRun(j)
  <2>1. Leads(j.links)'
    BY <1>5, LeadsStill DEF ExportingRun
  <2>2. ExportingRun(j)'
    BY <1>5, <2>1 DEF ExportingRun, Canonical, RecordContents, Links, Rows, Unlinked
  <2> QED BY <2>2 DEF RunHolds
<1>6. CASE LinkingRun(j)
  <2>1. Leads(j.links)'
    BY <1>6, LeadsStill DEF LinkingRun
  <2>2. LinkingRun(j)'
    BY <1>6, <2>1 DEF LinkingRun, Canonical, RecordContents, Links, Rows, Unlinked, RowsStay
  <2> QED BY <2>2 DEF RunHolds
<1>7. CASE ImportingRun(j)
  <2>1. ImportingRun(j)'
    BY <1>7 DEF ImportingRun, RecordContents, Sees, RowsStay, EditsAreLate, TableRows, Notes, NoNote
  <2> QED BY <2>1 DEF RunHolds
<1> QED BY <1>1, <1>2, <1>3, <1>4, <1>5, <1>6, <1>7 DEF RunHolds

\* A run that is not at work owes nothing.
LEMMA IdleOwesNothing ==
  ASSUME NEW j, j.at \in {"unused", "ended"} PROVE Exact(j) /\ Misses(j)
BY DEF Exact, Misses

\* A step of a run keeps the invariant if it keeps the tables and what the run itself
\* owes: of runs that overlapped no other, no second one is at work.
LEMMA RunStep ==
  ASSUME AirtableInductive, NEW k \in SyncKeys, Working(k), NEW j,
         syncRun' = [syncRun EXCEPT ![k] = j], RunHolds(j)', UNCHANGED overlapped,
         repeated => repeated', RowsKept,
         AirtableTyped', Leads(link)', NotesTaken',
         k \notin overlapped => Exact(j)',
         ~repeated' /\ overlapped = {} => SingleRows' /\ Misses(j)'
  PROVE  AirtableInductive'
<1>1. /\ syncRun'[k] = j /\ \A o \in SyncKeys : o # k => syncRun'[o] = syncRun[o]
  BY DEF AirtableInductive, AirtableTyped
<1>2. ASSUME NEW o \in SyncKeys PROVE RunHolds(syncRun[o])'
  <2>1. PICK i : i = syncRun'[o]
    OBVIOUS
  <2>2. CASE o = k
    BY <1>1, <2>1, <2>2
  <2>3. CASE o # k
    <3>1. RunHolds(i)
      BY <1>1, <2>1, <2>3 DEF AirtableInductive
    <3>2. RunHolds(i)'
      BY <3>1, RunStillHolds DEF RowsKept
    <3> QED BY <2>1, <3>2
  <2> QED BY <2>2, <2>3
<1>3. \A o, p \in SyncKeys : Working(o)' /\ Working(p)' /\ o # p => o \in overlapped'
  <2> SUFFICES ASSUME NEW o \in SyncKeys, NEW p \in SyncKeys, Working(o)', Working(p)', o # p
               PROVE  o \in overlapped
    OBVIOUS
  <2>1. Working(o) /\ Working(p)
    BY <1>1 DEF Working
  <2> QED BY <2>1 DEF AirtableInductive
<1>4. ASSUME NEW o \in SyncKeys, o # k, o \notin overlapped \/ k \notin overlapped
      PROVE  Exact(syncRun[o])' /\ Misses(syncRun[o])'
  <2>1. ~Working(o)
    BY <1>4 DEF AirtableInductive
  <2>2. PICK i : i = syncRun'[o]
    OBVIOUS
  <2>3. i.at \in {"unused", "ended"}
    BY <1>1, <1>4, <2>1, <2>2 DEF Working
  <2>4. Exact(i)' /\ Misses(i)'
    BY <2>3 DEF Exact, Misses
  <2> QED BY <2>2, <2>4
<1>5. ASSUME NEW o \in SyncKeys \ overlapped' PROVE Exact(syncRun[o])'
  <2>1. CASE o = k
    <3>1. Exact(j)'
      BY <2>1
    <3> QED BY <1>1, <2>1, <3>1
  <2>2. CASE o # k
    BY <1>4, <2>2
  <2> QED BY <2>1, <2>2
<1>6. ASSUME ~repeated', overlapped' = {}
      PROVE  SingleRows' /\ \A o \in SyncKeys : Misses(syncRun[o])'
  <2>1. SingleRows' /\ Misses(j)'
    BY <1>6
  <2>2. ASSUME NEW o \in SyncKeys PROVE Misses(syncRun[o])'
    <3>1. CASE o = k
      BY <1>1, <2>1, <3>1
    <3>2. CASE o # k
      BY <1>4, <1>6, <3>2
    <3> QED BY <3>1, <3>2
  <2> QED BY <2>1, <2>2
<1> QED BY <1>2, <1>3, <1>5, <1>6 DEF AirtableInductive

\* What the typing says when nothing but a run and the troubles changes.
LEMMA OnlyRunStep ==
  ASSUME AirtableInductive, NEW k \in SyncKeys, Working(k), NEW j,
         syncRun' = [syncRun EXCEPT ![k] = j],
         UNCHANGED <<record, tableRow, link, attribute, time, repeated, overlapped>>,
         troubles' \in 0..MaxTroubles,
         RunHolds(j), k \notin overlapped => Exact(j),
         ~repeated /\ overlapped = {} => Misses(j)
  PROVE  AirtableInductive'
<1>1. RowsKept
  BY DEF RowsKept, RowsStay, EditsAreLate, Present, Rows
<1>2. RunHolds(j)'
  BY <1>1, RunStillHolds DEF RowsKept
<1>3. AirtableTyped'
  <2>1. syncRun' = [o \in SyncKeys |-> syncRun'[o]]
    BY DEF AirtableInductive, AirtableTyped
  <2> QED BY <2>1 DEF AirtableInductive, AirtableTyped, AirtableTypeOK, Present, Rows,
                      TableRows, Notes, Links, RecordContents
<1>4. Leads(link)' /\ NotesTaken'
  BY DEF AirtableInductive, Leads, NotesTaken, OnlyRow, Present, Rows
<1>5. k \notin overlapped => Exact(j)'
  BY DEF Exact, OnlyRow, Present, Rows
<1>6. ~repeated' /\ overlapped = {} => SingleRows' /\ Misses(j)'
  BY DEF AirtableInductive, SingleRows, Misses, Present, Rows
<1> QED BY <1>1, <1>2, <1>3, <1>4, <1>5, <1>6, RunStep

\* A run at work is at one of these steps.
LEMMA WorkingRuns ==
  ASSUME AirtableInductive, NEW k \in SyncKeys
  PROVE  /\ RunHolds(syncRun[k])
         /\ syncRun[k].at \in {"list", "adopt", "export", "link", "import", "finish"} <=> Working(k)
         /\ AirtableTyped /\ troubles \in 0..MaxTroubles
         /\ Trouble => troubles' \in 0..MaxTroubles
<1>1. RunHolds(syncRun[k]) /\ AirtableTyped
  BY DEF AirtableInductive
<1>2. troubles \in 0..MaxTroubles
  BY <1>1 DEF AirtableTyped, AirtableTypeOK
<1>3. Trouble => troubles' \in 0..MaxTroubles
  BY <1>2, AirtableAssumption DEF Trouble
<1> QED BY <1>1, <1>2, <1>3, RunsByStep DEF Working

\* A run lists the rows of the table.
LEMMA ListRowsKeeps ==
  ASSUME AirtableInductive, NEW k \in SyncKeys, ListRows(k) PROVE AirtableInductive'
<1>1. ListingRun(syncRun[k]) /\ Working(k) /\ AirtableTyped
  BY WorkingRuns, RunsByStep DEF ListRows
<1>2. PICK listed : listed = [r \in Present |-> tableRow[r]]
  OBVIOUS
<1>3. PICK j : j = [at |-> IF syncRun[k].direction = "export" THEN "adopt" ELSE "import",
                    listed |-> listed, todo |-> Present,
                    direction |-> syncRun[k].direction, canonical |-> syncRun[k].canonical,
                    synced |-> {}, failed |-> FALSE]
  OBVIOUS
<1>4. syncRun' = [syncRun EXCEPT ![k] = j]
  BY <1>2, <1>3 DEF ListRows
<1>5. DOMAIN listed = Present /\ \A r \in Present : listed[r] = tableRow[r]
  BY <1>2
<1>6. Sees(j)
  <2>1. j.listed = listed /\ listed = [r \in DOMAIN listed |-> listed[r]]
    BY <1>2, <1>3
  <2>2. \A r \in Present : tableRow[r] \in TableRows
    BY <1>1, RowsArePresent DEF Present
  <2> QED BY <1>5, <2>1, <2>2 DEF Sees
<1>7. RunHolds(j)
  <2>1. CASE syncRun[k].direction = "export"
    <3>1. AdoptingRun(j)
      BY <1>1, <1>3, <1>6, <2>1 DEF AdoptingRun, ListingRun, Canonical
    <3> QED BY <3>1 DEF RunHolds
  <2>2. CASE syncRun[k].direction = "import"
    <3>1. ImportingRun(j)
      BY <1>3, <1>5, <1>6, <2>2 DEF ImportingRun
    <3> QED BY <3>1 DEF RunHolds
  <2> QED BY <1>1, <2>1, <2>2 DEF ListingRun
<1>8. Exact(j)
  BY <1>3, <1>5 DEF Exact
<1>9. Misses(j)
  BY <1>3, <1>5 DEF Misses
<1>10. /\ UNCHANGED <<record, tableRow, link, attribute, time, repeated, overlapped>>
       /\ troubles' \in 0..MaxTroubles
  BY WorkingRuns DEF ListRows
<1> QED BY <1>1, <1>4, <1>7, <1>8, <1>9, <1>10, OnlyRunStep

\* A run that was abandoned owes nothing.
LEMMA FailedOwesNothing ==
  ASSUME NEW j, FailingRun(j)
  PROVE  RunHolds(j) /\ RunHolds(j)' /\ Exact(j) /\ Exact(j)' /\ Misses(j) /\ Misses(j)'
<1>1. RunHolds(j) /\ RunHolds(j)' /\ j.at = "finish"
  BY DEF FailingRun, RunHolds
<1> QED BY <1>1 DEF Exact, Misses

\* A run fails before it sends anything.
LEMMA RunFailsKeeps ==
  ASSUME AirtableInductive, NEW k \in SyncKeys, RunFails(k) PROVE AirtableInductive'
<1>1. Working(k) /\ troubles' \in 0..MaxTroubles
  BY WorkingRuns DEF RunFails
<1>2. PICK j : j = [at |-> "finish", direction |-> syncRun[k].direction,
                    canonical |-> syncRun[k].canonical,
                    todo |-> {}, synced |-> syncRun[k].synced, failed |-> TRUE]
  OBVIOUS
<1>3. syncRun' = [syncRun EXCEPT ![k] = j]
  BY <1>2 DEF RunFails, Abandoned
<1>4. RunHolds(j)
  BY <1>2 DEF RunHolds, FailingRun
<1>5. Exact(j) /\ Misses(j)
  BY <1>2 DEF Exact, Misses
<1>6. UNCHANGED <<record, tableRow, link, attribute, time, repeated, overlapped>>
  BY DEF RunFails
<1> QED BY <1>1, <1>3, <1>4, <1>5, <1>6, OnlyRunStep

\* A run ends.
LEMMA EndKeeps ==
  ASSUME AirtableInductive, NEW k \in SyncKeys, Finish(k) \/ CutOffRun(k) PROVE AirtableInductive'
<1>1. Working(k) /\ troubles' \in 0..MaxTroubles
  BY WorkingRuns DEF Finish, Finishes, CutOffRun
<1>2. RunHolds(Ended) /\ Exact(Ended) /\ Misses(Ended)
  BY IdleOwesNothing DEF Ended, RunHolds
<1>3. PICK j : j = Ended
  OBVIOUS
<1>4. /\ syncRun' = [syncRun EXCEPT ![k] = j]
      /\ UNCHANGED <<record, tableRow, link, attribute, time, repeated, overlapped>>
  BY <1>3 DEF Finish, CutOffRun
<1> QED BY <1>1, <1>2, <1>3, <1>4, OnlyRunStep

-----------------------------------------------------------------------------
(* The steps.                                                              *)

\* A record is edited.
LEMMA EditCanonicalKeeps ==
  ASSUME AirtableInductive, NEW c \in CanonicalRecords, EditCanonical(c) PROVE AirtableInductive'
<1>1. /\ UNCHANGED <<tableRow, link, attribute, syncRun, time, troubles, repeated, overlapped>>
      /\ record' \in [CanonicalRecords -> RecordContents]
  BY DEF EditCanonical, AirtableInductive, AirtableTyped, AirtableTypeOK
<1>2. AirtableTyped' /\ Leads(link)' /\ NotesTaken' /\ (SingleRows => SingleRows')
  <2>1. AirtableTyped'
    BY <1>1 DEF AirtableInductive, AirtableTyped, AirtableTypeOK, Present, Rows, TableRows,
                Notes, Links, RecordContents
  <2>2. Leads(link)' /\ (SingleRows => SingleRows')
    BY <1>1 DEF AirtableInductive, Present, Rows, Leads, SingleRows
  <2>3. NotesTaken'
    BY <1>1 DEF AirtableInductive, NotesTaken, OnlyRow, Present, Rows
  <2> QED BY <2>1, <2>2, <2>3
<1>3. ASSUME NEW k \in SyncKeys
      PROVE  /\ RunHolds(syncRun[k])'
             /\ Exact(syncRun[k]) => Exact(syncRun[k])'
             /\ Misses(syncRun[k]) => Misses(syncRun[k])'
  <2>1. PICK j : j = syncRun'[k]
    OBVIOUS
  <2>2. RowsKept /\ RunHolds(j) /\ j = syncRun[k]
    BY <1>1, <2>1 DEF RowsKept, RowsStay, EditsAreLate, Present, Rows, AirtableInductive
  <2>3. RunHolds(j)' /\ (Exact(j) => Exact(j)') /\ (Misses(j) => Misses(j)')
    BY <1>1, <2>2, RunStillHolds DEF RowsKept, Exact, Misses, OnlyRow, Present, Rows
  <2> QED BY <2>1, <2>2, <2>3
<1> QED BY <1>1, <1>2, <1>3 DEF AirtableInductive, Working

\* Somebody fills in a note or clears it: an import that has listed it will find it late.
LEMMA EditRowKeeps ==
  ASSUME AirtableInductive, NEW r \in Rows, NEW n \in RowNotes \cup {NoNote}, EditRow(r, n)
  PROVE  AirtableInductive'
<1>1. /\ AirtableTyped /\ r \in Present /\ tableRow[r] \in TableRows /\ time \in Nat
      /\ UNCHANGED <<record, link, attribute, syncRun, troubles, repeated, overlapped>>
  BY RowsArePresent DEF EditRow, AirtableInductive, AirtableTyped
<1>2. PICK row : row = [tableRow[r] EXCEPT !.note = n, !.modifiedAt = time + 1, !.late = Importing]
  OBVIOUS
<1>3. /\ tableRow' = [tableRow EXCEPT ![r] = row] /\ time' = time + 1
      /\ row \in TableRows /\ row.of = tableRow[r].of /\ row.holds = tableRow[r].holds
      /\ row.note = n /\ row.modifiedAt = time + 1 /\ row.late = Importing
  <2>1. Importing \in BOOLEAN
    BY DEF Importing
  <2>2. n \in Notes /\ time + 1 \in Nat
    BY <1>1 DEF Notes
  <2>3. /\ row \in TableRows /\ row.of = tableRow[r].of /\ row.holds = tableRow[r].holds
        /\ row.note = n /\ row.modifiedAt = time + 1 /\ row.late = Importing
    BY <1>1, <1>2, <2>1, <2>2 DEF TableRows
  <2> QED BY <1>2, <2>2, <2>3 DEF EditRow
<1>4. /\ tableRow' \in [Rows -> {NoRow} \cup TableRows]
      /\ tableRow'[r] = row /\ \A s \in Rows : s # r => tableRow'[s] = tableRow[s]
  BY <1>1, <1>3 DEF AirtableTyped
<1>5. Present' = Present
  <2>1. row # NoRow
    <3>1. DOMAIN row = {"of", "holds", "note", "modifiedAt", "late"} /\ DOMAIN NoRow = {"is"}
      BY <1>3 DEF TableRows, NoRow
    <3> QED BY <3>1
  <2> QED BY <1>1, <1>4, <2>1 DEF Present, Rows
<1>6. Present \subseteq Rows
  BY DEF Present
<1>7. \A s \in Present : tableRow'[s].of = tableRow[s].of /\ tableRow'[s].holds = tableRow[s].holds
  BY <1>3, <1>4, <1>6
<1>9. \A s \in Present : OnlyRow(s)' <=> OnlyRow(s)
  BY <1>5, <1>7 DEF OnlyRow
<1>10. AirtableTyped'
  <2>1. \A s \in Present : tableRow'[s].of \in CanonicalRecords /\ tableRow'[s].modifiedAt \in 0..(time + 1)
    BY <1>1, <1>3, <1>4, <1>6, <1>7 DEF AirtableTyped, AirtableTypeOK, TableRows
  <2>2. \A c \in CanonicalRecords : attribute[c].updatedAt \in 0..(time + 1)
    BY <1>1 DEF AirtableTyped, AirtableTypeOK
  <2> QED BY <1>1, <1>3, <1>4, <1>5, <2>1, <2>2
          DEF AirtableTyped, AirtableTypeOK, RecordContents, Rows, TableRows, Notes, Links
<1>11. Leads(link)'
  BY <1>1, <1>5, <1>7 DEF AirtableInductive, Leads, Rows
<1>12. NotesTaken'
  <2>1. \A c \in CanonicalRecords : attribute[c].note # NoNote =>
          \E s \in Present : tableRow'[s].of = c
    BY <1>7 DEF AirtableInductive, NotesTaken
  <2>2. ASSUME NEW s \in Present, OnlyRow(s), ~tableRow'[s].late,
               attribute[tableRow'[s].of].note # NoNote,
               attribute[tableRow'[s].of].updatedAt > tableRow'[s].modifiedAt
        PROVE  attribute[tableRow'[s].of].note = tableRow'[s].note
    <3>1. s # r
      <4> SUFFICES ASSUME s = r PROVE FALSE
        OBVIOUS
      <4>1. tableRow[r].of \in CanonicalRecords
        BY <1>1 DEF TableRows
      <4>2. attribute[tableRow[r].of].updatedAt \in 0..time
        BY <1>1, <4>1 DEF AirtableTyped, AirtableTypeOK
      <4> QED BY <1>1, <1>3, <1>4, <2>2, <4>2
    <3> QED BY <1>4, <1>6, <2>2, <3>1 DEF AirtableInductive, NotesTaken
  <2> QED BY <1>1, <1>5, <1>9, <2>1, <2>2 DEF NotesTaken, NoNote
<1>13. ASSUME NEW k \in SyncKeys
       PROVE  /\ RunHolds(syncRun[k])'
              /\ Exact(syncRun[k]) => Exact(syncRun[k])'
              /\ Misses(syncRun[k]) => Misses(syncRun[k])'
  <2>1. PICK j : j = syncRun'[k]
    OBVIOUS
  <2>2. RunHolds(j) /\ j = syncRun[k]
    BY <1>1, <2>1 DEF AirtableInductive
  <2>3. (j.at = "import" => ImportingRun(j)) /\ (j.at = "import" => Importing)
    BY <2>2, RunsByStep DEF Importing, Working, ImportingRun
  <2>4. RunHolds(j)'
    <3>1. RowsStay
      BY <1>5, <1>7 DEF RowsStay
    <3>2. Importing => EditsAreLate
      BY <1>3, <1>4, <1>6 DEF EditsAreLate
    <3> QED BY <2>2, <2>3, <3>1, <3>2, RunStillHolds
  <2>5. Exact(j) => Exact(j)'
    <3> SUFFICES ASSUME Exact(j) PROVE Exact(j)'
      OBVIOUS
    <3>1. j.at \in {"export", "link"} => \A c \in j.synced : \E s \in Present :
            link[c] = {s} /\ Shows(tableRow'[s], j.canonical[c])
      BY <1>7 DEF Exact, Shows
    <3>2. j.at = "link" => \A c \in DOMAIN j.place : Shows(tableRow'[j.place[c]], j.canonical[c])
      <4> SUFFICES ASSUME j.at = "link", NEW c \in DOMAIN j.place
                   PROVE  Shows(tableRow'[j.place[c]], j.canonical[c])
        OBVIOUS
      <4>1. LinkingRun(j)
        BY <2>2, RunsByStep
      <4>2. j.place[c] \in Present
        BY <4>1 DEF LinkingRun
      <4> QED BY <1>7, <4>2 DEF Exact, Shows
    <3>3. ASSUME j.at = "import", NEW s \in DOMAIN j.listed \ j.todo,
                 tableRow'[s] = j.listed[s], OnlyRow(s), ~tableRow'[s].late
          PROVE  tableRow'[s].note \in {attribute[tableRow'[s].of].note, NoNote}
      <4>1. Importing /\ s \in Present
        BY <2>3, <3>3 DEF ImportingRun, Sees
      <4>2. tableRow'[s] = tableRow[s]
        BY <1>3, <1>4, <1>6, <3>3, <4>1
      <4> QED BY <3>3, <4>2 DEF Exact
    <3>4. \A s \in DOMAIN j.listed : j.at = "import" => (OnlyRow(s)' <=> OnlyRow(s))
      BY <1>9, <2>3 DEF ImportingRun, Sees
    <3> QED BY <1>1, <1>5, <3>1, <3>2, <3>3, <3>4 DEF Exact, Shows, NoNote
  <2>6. Misses(j) => Misses(j)'
    BY <1>5, <1>7 DEF Misses, Unlinked
  <2> QED BY <2>1, <2>2, <2>4, <2>5, <2>6
<1>14. SingleRows => SingleRows'
  BY <1>5, <1>7 DEF SingleRows
<1> QED BY <1>1, <1>10, <1>11, <1>12, <1>13, <1>14 DEF AirtableInductive, Working

\* A run that begins while others are at work overlaps them.
LEMMA BeginRunKeeps ==
  ASSUME AirtableInductive, NEW k \in SyncKeys, NEW direction \in {"export", "import"},
         BeginRun(k, direction)
  PROVE  AirtableInductive'
<1> DEFINE others == {o \in SyncKeys : Working(o)}
<1>1. PICK j : j = [at |-> "list", direction |-> direction,
                    canonical |-> IF direction = "export" THEN record ELSE NotListed,
                    todo |-> {}, synced |-> {}, failed |-> FALSE]
  OBVIOUS
<1>2. /\ syncRun' = [syncRun EXCEPT ![k] = j] /\ syncRun[k] = Unused
      /\ overlapped' = IF others = {} THEN overlapped ELSE overlapped \cup others \cup {k}
      /\ UNCHANGED <<record, tableRow, link, attribute, time, troubles, repeated>>
  BY <1>1 DEF BeginRun
<1>3. /\ syncRun'[k] = j /\ \A o \in SyncKeys : o # k => syncRun'[o] = syncRun[o]
      /\ syncRun' = [o \in SyncKeys |-> syncRun'[o]]
  BY <1>2 DEF AirtableInductive, AirtableTyped
<1>4. ~Working(k)
  BY <1>2 DEF Working, Unused
<1>5. /\ overlapped \subseteq SyncKeys /\ overlapped' \subseteq SyncKeys
      /\ overlapped \subseteq overlapped' /\ others \subseteq SyncKeys
  BY <1>2 DEF AirtableInductive, AirtableTyped, AirtableTypeOK
<1>6. AirtableTyped'
  BY <1>2, <1>3, <1>5 DEF AirtableInductive, AirtableTyped, AirtableTypeOK, Present, Rows,
     TableRows, Notes, Links, RecordContents
<1>7. Leads(link)' /\ NotesTaken' /\ (SingleRows => SingleRows')
  BY <1>2 DEF AirtableInductive, Leads, NotesTaken, OnlyRow, Present, Rows, SingleRows
<1>8. RowsKept
  BY <1>2 DEF RowsKept, RowsStay, EditsAreLate, Present, Rows
<1>9. RunHolds(j) /\ Exact(j) /\ Misses(j)
  <2>1. ListingRun(j)
    BY <1>1 DEF ListingRun, Canonical, AirtableInductive, AirtableTyped, AirtableTypeOK
  <2> QED BY <1>1, <2>1 DEF RunHolds, Exact, Misses
<1>10. ASSUME NEW o \in SyncKeys
       PROVE  /\ RunHolds(syncRun[o])'
              /\ o = k \/ Exact(syncRun[o]) => Exact(syncRun[o])'
              /\ o = k \/ Misses(syncRun[o]) => Misses(syncRun[o])'
  <2>1. PICK i : i = syncRun'[o]
    OBVIOUS
  <2>2. RunHolds(i) /\ i = IF o = k THEN j ELSE syncRun[o]
    BY <1>3, <1>9, <2>1 DEF AirtableInductive
  <2>3. RunHolds(i)' /\ (Exact(i) => Exact(i)') /\ (Misses(i) => Misses(i)')
    BY <1>2, <1>8, <2>2, RunStillHolds DEF RowsKept, Exact, Misses, OnlyRow, Present, Rows
  <2>4. o = k \/ Exact(syncRun[o]) => Exact(i)'
    BY <1>9, <2>2, <2>3
  <2>5. o = k \/ Misses(syncRun[o]) => Misses(i)'
    BY <1>9, <2>2, <2>3
  <2> QED BY <2>1, <2>3, <2>4, <2>5
<1>11. ASSUME NEW o \in SyncKeys, NEW p \in SyncKeys, Working(o)', Working(p)', o # p
       PROVE  o \in overlapped'
  <2>1. \A q \in SyncKeys : q # k /\ Working(q)' => q \in others
    BY <1>3 DEF Working
  <2> QED BY <1>2, <1>11, <2>1
<1>12. ASSUME NEW o \in SyncKeys \ overlapped' PROVE Exact(syncRun[o])'
  <2>1. o = k \/ Exact(syncRun[o])
    BY <1>5 DEF AirtableInductive
  <2> QED BY <1>10, <2>1
<1>13. ~repeated' /\ overlapped' = {} =>
         SingleRows' /\ \A o \in SyncKeys : Misses(syncRun[o])'
  <2> SUFFICES ASSUME ~repeated', overlapped' = {}
               PROVE  SingleRows' /\ \A o \in SyncKeys : Misses(syncRun[o])'
    OBVIOUS
  <2>1. SingleRows /\ \A o \in SyncKeys : Misses(syncRun[o])
    BY <1>2, <1>5 DEF AirtableInductive
  <2> QED BY <1>7, <1>10, <2>1
<1> QED BY <1>6, <1>7, <1>10, <1>11, <1>12, <1>13 DEF AirtableInductive

\* A run that adopts the rows it listed links every record that has one.
LEMMA AdoptRowsKeeps ==
  ASSUME AirtableInductive, NEW k \in SyncKeys, AdoptRows(k) PROVE AirtableInductive'
<1>1. AdoptingRun(syncRun[k]) /\ Working(k) /\ AirtableTyped
  BY WorkingRuns, RunsByStep DEF AdoptRows
<1>2. PICK new \in [CanonicalRecords -> {{r} : r \in Present} \cup {Unlinked}] :
        /\ \A c \in CanonicalRecords :
             IF Adopted(k, c) = {} THEN new[c] = link[c]
             ELSE \E r \in Adopted(k, c) : new[c] = {r}
        /\ link' = new
        /\ syncRun' = [syncRun EXCEPT ![k] =
             [at |-> "export", direction |-> "export", canonical |-> @.canonical,
              links |-> new, todo |-> CanonicalRecords, synced |-> {}, failed |-> FALSE]]
  BY DEF AdoptRows
<1>3. UNCHANGED <<record, tableRow, attribute, time, troubles, repeated, overlapped>>
  BY DEF AdoptRows
<1>4. PICK j : j = [at |-> "export", direction |-> "export", canonical |-> syncRun[k].canonical,
                    links |-> new, todo |-> CanonicalRecords, synced |-> {}, failed |-> FALSE]
  OBVIOUS
<1>5. syncRun' = [syncRun EXCEPT ![k] = j] /\ syncRun' = [o \in SyncKeys |-> syncRun'[o]]
  BY <1>1, <1>2, <1>4 DEF AirtableTyped
<1>6. \A c \in CanonicalRecords : \A r \in Adopted(k, c) : r \in Present /\ tableRow[r].of = c
  BY <1>1 DEF Adopted, AdoptingRun, Sees
<1>7. Leads(new)
  BY <1>2, <1>6 DEF AirtableInductive, Leads
<1>8. new \in [CanonicalRecords -> Links]
  BY <1>2 DEF Links, Present
<1>9. RunHolds(j)
  <2>1. ExportingRun(j)
    BY <1>1, <1>4, <1>7, <1>8 DEF ExportingRun, AdoptingRun, Canonical
  <2> QED BY <2>1 DEF RunHolds
<1>10. RowsKept
  BY <1>3 DEF RowsKept, RowsStay, EditsAreLate, Present, Rows
<1>11. RunHolds(j)' /\ Leads(link)'
  BY <1>2, <1>7, <1>9, <1>10, RunStillHolds, LeadsStill DEF RowsKept
<1>12. AirtableTyped'
  <2>1. link' \in [CanonicalRecords -> Links]
    BY <1>2, <1>8
  <2> QED BY <1>1, <1>3, <1>5, <2>1 DEF AirtableTyped, AirtableTypeOK, Present, Rows, TableRows,
             Notes, Links, RecordContents
<1>13. NotesTaken' /\ (SingleRows => SingleRows')
  BY <1>3 DEF AirtableInductive, NotesTaken, OnlyRow, Present, Rows, SingleRows
<1>14. Exact(j)'
  BY <1>4 DEF Exact
<1>15. ASSUME ~repeated, overlapped = {} PROVE Misses(j)
  <2>1. DOMAIN syncRun[k].listed = Present
    BY <1>1, <1>15 DEF AirtableInductive, Misses, AdoptingRun
  <2>2. ASSUME NEW c \in CanonicalRecords, NEW r \in Present, new[c] = Unlinked,
               tableRow[r].of = c
        PROVE  FALSE
    <3>1. r \in Adopted(k, c)
      BY <1>1, <2>1, <2>2 DEF Adopted, AdoptingRun, Sees
    <3>2. \E s \in Adopted(k, c) : new[c] = {s}
      BY <1>2, <3>1
    <3> QED BY <2>2, <3>2 DEF Unlinked
  <2> QED BY <1>4, <2>2 DEF Misses
<1>16. ~repeated' /\ overlapped = {} => SingleRows' /\ Misses(j)'
  <2>1. Misses(j) => Misses(j)'
    BY <1>3 DEF Misses, Present, Rows
  <2> QED BY <1>3, <1>13, <1>15, <2>1 DEF AirtableInductive
<1> QED BY <1>1, <1>3, <1>5, <1>10, <1>11, <1>12, <1>13, <1>14, <1>16, RunStep

\* What a request that is carried out leaves of the invariant.
LEMMA WriteKeepsTables ==
  ASSUME AirtableInductive, NEW k \in SyncKeys, Exporting(k), NEW place, Wrote(k, place),
         UNCHANGED <<record, link, attribute, time, overlapped>>,
         syncRun' = [o \in SyncKeys |-> syncRun'[o]],
         troubles' \in 0..MaxTroubles, repeated' \in BOOLEAN
  PROVE  /\ RowsKept /\ AirtableTyped' /\ Leads(link)' /\ NotesTaken'
         /\ ~repeated /\ overlapped = {} => SingleRows'
         /\ \A c \in syncRun[k].synced : Exact(syncRun[k]) =>
              \E r \in Present' : link[c] = {r} /\ Shows(tableRow'[r], syncRun[k].canonical[c])
         /\ \A c \in syncRun[k].todo : \A r \in Present' :
              ~repeated /\ overlapped = {} /\ syncRun[k].links[c] = Unlinked
                /\ tableRow'[r].of = c => c \in NextBatch(k)
<1>1. /\ ExportingRun(syncRun[k]) /\ NextBatch(k) \subseteq syncRun[k].todo
      /\ AirtableTyped /\ syncRun[k].at = "export" /\ syncRun[k].todo \subseteq CanonicalRecords
      /\ IsCreate(k) => \A c \in NextBatch(k) : syncRun[k].links[c] = Unlinked
  BY BatchOfOneKind DEF AirtableInductive, ExportingRun
<1>2. \A r \in Present :
       /\ r \in Present' /\ tableRow'[r] \in TableRows /\ tableRow'[r].of = tableRow[r].of
       /\ tableRow'[r].note = tableRow[r].note /\ tableRow'[r].late = tableRow[r].late
       /\ tableRow'[r].modifiedAt = tableRow[r].modifiedAt
  BY DEF Wrote
<1>3. \A r \in Present' \ Present : \E c \in NextBatch(k) :
        /\ IsCreate(k) /\ place[c] = r /\ tableRow'[r].of = c
        /\ tableRow'[r].modifiedAt = time /\ tableRow'[r].note = NoNote /\ c \in CanonicalRecords
  <2> TAKE r \in Present' \ Present
  <2>1. PICK c \in NextBatch(k) :
          /\ IsCreate(k) /\ place[c] = r
          /\ tableRow'[r] = NewRow(c, syncRun[k].canonical[c], time)
    BY DEF Wrote
  <2>2. \A h : NewRow(c, h, time).of = c /\ NewRow(c, h, time).modifiedAt = time
               /\ NewRow(c, h, time).note = NoNote
    BY DEF NewRow
  <2> QED BY <1>1, <2>1, <2>2
<1>4. RowsKept
  BY <1>2 DEF RowsKept, RowsStay, EditsAreLate
<1>5. AirtableTyped'
  <2>1. \A r \in Present' : tableRow'[r].of \in CanonicalRecords /\ tableRow'[r].modifiedAt \in 0..time
    <3> SUFFICES ASSUME NEW r \in Present'
                 PROVE  tableRow'[r].of \in CanonicalRecords /\ tableRow'[r].modifiedAt \in 0..time
      OBVIOUS
    <3>1. CASE r \in Present
      BY <1>1, <1>2, <3>1 DEF AirtableTyped, AirtableTypeOK
    <3>2. CASE r \notin Present
      BY <1>1, <1>3, <3>2 DEF AirtableTyped
    <3> QED BY <3>1, <3>2
  <2>2. tableRow' \in [Rows -> {NoRow} \cup TableRows]
    BY DEF Wrote
  <2> QED BY <1>1, <2>1, <2>2 DEF AirtableTyped, AirtableTypeOK, Rows, TableRows, Notes, Links,
                                  RecordContents
<1>6. Leads(link)'
  <2>1. PICK to : to = link
    OBVIOUS
  <2>2. Leads(to)'
    BY <1>4, <2>1, LeadsStill DEF AirtableInductive, RowsKept
  <2>3. link' = to
    BY <2>1
  <2> QED BY <2>2, <2>3
<1>7. NotesTaken'
  <2>1. \A c \in CanonicalRecords : attribute[c].note # NoNote =>
          \E r \in Present' : tableRow'[r].of = c
    BY <1>2 DEF AirtableInductive, NotesTaken
  <2>2. ASSUME NEW r \in Present', OnlyRow(r)', ~tableRow'[r].late,
               attribute[tableRow'[r].of].note # NoNote,
               attribute[tableRow'[r].of].updatedAt > tableRow'[r].modifiedAt
        PROVE  attribute[tableRow'[r].of].note = tableRow'[r].note
    <3>1. r \in Present
      <4> SUFFICES ASSUME r \notin Present PROVE FALSE
        OBVIOUS
      <4>1. PICK c \in CanonicalRecords : tableRow'[r].of = c
        BY <1>3
      <4>2. PICK s \in Present : tableRow[s].of = c
        BY <2>2, <4>1 DEF AirtableInductive, NotesTaken
      <4> QED BY <1>2, <2>2, <4>1, <4>2 DEF OnlyRow
    <3>2. OnlyRow(r)
      BY <1>2, <2>2, <3>1 DEF OnlyRow
    <3> QED BY <1>2, <2>2, <3>1, <3>2 DEF AirtableInductive, NotesTaken
  <2> QED BY <2>1, <2>2 DEF NotesTaken, NoNote
<1>8. \A c \in syncRun[k].todo : \A r \in Present' :
        ~repeated /\ overlapped = {} /\ syncRun[k].links[c] = Unlinked
          /\ tableRow'[r].of = c => c \in NextBatch(k)
  <2> SUFFICES ASSUME NEW c \in syncRun[k].todo, NEW r \in Present', ~repeated, overlapped = {},
                      syncRun[k].links[c] = Unlinked, tableRow'[r].of = c
               PROVE  c \in NextBatch(k)
    OBVIOUS
  <2>1. r \notin Present
    <3>1. Misses(syncRun[k])
      BY DEF AirtableInductive
    <3> QED BY <1>1, <1>2, <3>1 DEF Misses
  <2> QED BY <1>3, <2>1
<1>9. ASSUME ~repeated, overlapped = {} PROVE SingleRows'
  <2> SUFFICES ASSUME NEW r \in Present', NEW s \in Present', tableRow'[r].of = tableRow'[s].of
               PROVE  r = s
    BY DEF SingleRows
  <2>1. SingleRows /\ Misses(syncRun[k])
    BY <1>9 DEF AirtableInductive
  <2>2. ASSUME NEW p \in Present' \ Present, NEW q \in Present PROVE tableRow'[p].of # tableRow'[q].of
    <3>1. PICK c \in NextBatch(k) : tableRow'[p].of = c /\ IsCreate(k)
      BY <1>3
    <3> QED BY <1>1, <1>2, <2>1, <3>1 DEF Misses
  <2>3. CASE r \in Present /\ s \in Present
    BY <1>2, <2>1, <2>3 DEF SingleRows
  <2>4. CASE r \notin Present /\ s \notin Present
    BY <1>3, <2>4
  <2> QED BY <2>2, <2>3, <2>4
<1>10. ASSUME NEW c \in syncRun[k].synced, Exact(syncRun[k])
       PROVE  \E r \in Present' : link[c] = {r} /\ Shows(tableRow'[r], syncRun[k].canonical[c])
  <2>1. PICK r \in Present : link[c] = {r} /\ Shows(tableRow[r], syncRun[k].canonical[c])
    BY <1>1, <1>10 DEF Exact
  <2>2. tableRow[r].of = c
    BY <1>1, <2>1 DEF AirtableInductive, Leads, ExportingRun, Present
  <2>3. /\ r \in Present'
        /\ tableRow'[r].holds = tableRow[r].holds
           \/ tableRow'[r].holds = syncRun[k].canonical[tableRow[r].of]
    BY DEF Wrote
  <2> QED BY <2>1, <2>2, <2>3 DEF Shows
<1> QED BY <1>4, <1>5, <1>6, <1>7, <1>8, <1>9, <1>10

\* A batch is sent.
LEMMA SendBatchKeeps ==
  ASSUME AirtableInductive, NEW k \in SyncKeys, SendBatch(k) PROVE AirtableInductive'
<1>1. PICK place \in Places(k) :
        /\ CarryOut(k, place)
        /\ syncRun' = [syncRun EXCEPT ![k] =
            [at |-> "link", direction |-> "export", canonical |-> @.canonical, links |-> @.links,
             todo |-> @.todo, synced |-> @.synced, failed |-> @.failed, place |-> place]]
  BY DEF SendBatch
<1>2. /\ Exporting(k) /\ UNCHANGED <<record, link, attribute, time, troubles, repeated, overlapped>>
      /\ AirtableTyped
  BY DEF SendBatch, AirtableInductive
<1>3. /\ ExportingRun(syncRun[k]) /\ NextBatch(k) \subseteq syncRun[k].todo
      /\ place \in [NextBatch(k) -> Rows] /\ Wrote(k, place) /\ Working(k)
  BY <1>1, <1>2, BatchOfOneKind, PlacesOfOneKind, CarryOutWrites, WorkingRuns DEF Exporting
<1>4. PICK j : j = [at |-> "link", direction |-> "export", canonical |-> syncRun[k].canonical,
                    links |-> syncRun[k].links, todo |-> syncRun[k].todo,
                    synced |-> syncRun[k].synced, failed |-> syncRun[k].failed, place |-> place]
  OBVIOUS
<1>5. syncRun' = [syncRun EXCEPT ![k] = j] /\ syncRun' = [o \in SyncKeys |-> syncRun'[o]]
  BY <1>1, <1>2, <1>4 DEF AirtableTyped
<1>6. troubles' \in 0..MaxTroubles /\ repeated' \in BOOLEAN
  BY <1>2 DEF AirtableTyped, AirtableTypeOK
<1>7. /\ RowsKept /\ AirtableTyped' /\ Leads(link)' /\ NotesTaken'
      /\ ~repeated /\ overlapped = {} => SingleRows'
      /\ \A c \in syncRun[k].synced : Exact(syncRun[k]) =>
           \E r \in Present' : link[c] = {r} /\ Shows(tableRow'[r], syncRun[k].canonical[c])
      /\ \A c \in syncRun[k].todo : \A r \in Present' :
           ~repeated /\ overlapped = {} /\ syncRun[k].links[c] = Unlinked
             /\ tableRow'[r].of = c => c \in NextBatch(k)
  BY <1>2, <1>3, <1>5, <1>6, WriteKeepsTables
<1>8. \A c \in NextBatch(k) :
        /\ place[c] \in Present' /\ tableRow'[place[c]].of = c
        /\ Shows(tableRow'[place[c]], syncRun[k].canonical[c])
  BY <1>3 DEF Wrote
<1>9. RunHolds(j)'
  <2>1. Leads(j.links)'
    BY <1>3, <1>4, <1>7, LeadsStill DEF ExportingRun, RowsKept
  <2>2. LinkingRun(j)'
    BY <1>3, <1>4, <1>8, <2>1 DEF ExportingRun, LinkingRun, Canonical, RecordContents, Links,
                                 Rows, Unlinked
  <2> QED BY <2>2 DEF RunHolds
<1>10. k \notin overlapped => Exact(j)'
  <2> SUFFICES ASSUME k \notin overlapped PROVE Exact(j)'
    OBVIOUS
  <2>1. Exact(syncRun[k]) /\ syncRun[k].at = "export"
    BY <1>3 DEF AirtableInductive, ExportingRun
  <2>2. \A c \in j.synced : \E r \in Present' : link[c] = {r} /\ Shows(tableRow'[r], j.canonical[c])
    BY <1>4, <1>7, <2>1
  <2>3. ~j.failed => CanonicalRecords \subseteq j.todo \cup j.synced
    BY <1>4, <2>1 DEF Exact
  <2>4. \A c \in DOMAIN j.place : Shows(tableRow'[j.place[c]], j.canonical[c])
    BY <1>3, <1>4, <1>8
  <2> QED BY <1>2, <1>4, <2>2, <2>3, <2>4 DEF Exact
<1>11. ~repeated' /\ overlapped = {} => SingleRows' /\ Misses(j)'
  BY <1>2, <1>3, <1>4, <1>7 DEF Misses, Unlinked
<1> QED BY <1>2, <1>3, <1>5, <1>7, <1>9, <1>10, <1>11, RunStep

\* A batch is sent again after its answer was lost.
LEMMA RepeatBatchKeeps ==
  ASSUME AirtableInductive, NEW k \in SyncKeys, RepeatBatch(k) PROVE AirtableInductive'
<1>1. PICK place \in Places(k) : CarryOut(k, place)
  BY DEF RepeatBatch
<1>2. /\ Exporting(k) /\ UNCHANGED <<record, link, attribute, syncRun, time, overlapped>>
      /\ AirtableTyped /\ troubles' \in 0..MaxTroubles
      /\ repeated' = (repeated \/ IsCreate(k)) /\ repeated' \in BOOLEAN
  <2>1. IsCreate(k) \in BOOLEAN
    BY DEF IsCreate
  <2> QED BY <2>1, WorkingRuns DEF RepeatBatch, AirtableInductive, AirtableTyped
<1>3. /\ ExportingRun(syncRun[k]) /\ Wrote(k, place) /\ Working(k)
  BY <1>1, <1>2, BatchOfOneKind, CarryOutWrites, WorkingRuns DEF Exporting
<1>4. PICK j : j = syncRun[k]
  OBVIOUS
<1>5. syncRun' = [syncRun EXCEPT ![k] = j] /\ syncRun' = [o \in SyncKeys |-> syncRun'[o]]
  BY <1>2, <1>4 DEF AirtableTyped
<1>6. /\ RowsKept /\ AirtableTyped' /\ Leads(link)' /\ NotesTaken'
      /\ \A c \in syncRun[k].synced : Exact(syncRun[k]) =>
           \E r \in Present' : link[c] = {r} /\ Shows(tableRow'[r], syncRun[k].canonical[c])
  BY <1>2, <1>3, <1>5, WriteKeepsTables
<1>10. ~repeated' /\ overlapped = {} => SingleRows' /\ Misses(j)'
  <2> SUFFICES ASSUME ~repeated', overlapped = {} PROVE SingleRows' /\ Misses(j)'
    OBVIOUS
  <2>1. ~repeated /\ ~IsCreate(k) /\ j.at = "export"
    BY <1>2, <1>3, <1>4 DEF ExportingRun
  <2>2. /\ SingleRows'
        /\ \A c \in syncRun[k].todo : \A r \in Present' :
             syncRun[k].links[c] = Unlinked /\ tableRow'[r].of = c => c \in NextBatch(k)
    BY <1>2, <1>3, <1>5, <2>1, WriteKeepsTables
  <2>3. \A c \in NextBatch(k) : syncRun[k].links[c] # Unlinked
    BY <1>2, <2>1, BatchOfOneKind
  <2> QED BY <1>4, <2>1, <2>2, <2>3 DEF Misses, Unlinked
<1>7. RunHolds(j) /\ j.at = "export"
  BY <1>3, <1>4 DEF RunHolds, ExportingRun
<1>8. RunHolds(j)'
  BY <1>6, <1>7, RunStillHolds DEF RowsKept
<1>9. k \notin overlapped => Exact(j)'
  <2> SUFFICES ASSUME k \notin overlapped PROVE Exact(j)'
    OBVIOUS
  <2>1. Exact(j)
    BY <1>4 DEF AirtableInductive
  <2>2. \A c \in j.synced : \E r \in Present' : link'[c] = {r} /\ Shows(tableRow'[r], j.canonical[c])
    BY <1>2, <1>4, <1>6, <2>1
  <2> QED BY <1>7, <2>1, <2>2 DEF Exact
<1> QED BY <1>2, <1>3, <1>5, <1>6, <1>8, <1>9, <1>10, RunStep

\* A run fails in a batch.
LEMMA BatchFailsKeeps ==
  ASSUME AirtableInductive, NEW k \in SyncKeys, BatchFails(k) PROVE AirtableInductive'
<1>1. /\ Exporting(k) /\ UNCHANGED <<record, link, attribute, time, repeated, overlapped>>
      /\ AirtableTyped /\ troubles' \in 0..MaxTroubles
  BY WorkingRuns DEF BatchFails, AirtableInductive
<1>2. /\ ExportingRun(syncRun[k]) /\ Working(k) /\ NextBatch(k) \subseteq syncRun[k].todo
  BY <1>1, BatchOfOneKind, WorkingRuns DEF Exporting
<1>4. PICK j : /\ j \in AfterFailure(k, NextBatch(k), syncRun[k].synced)
               /\ syncRun' = [syncRun EXCEPT ![k] = j]
               /\ syncRun' = [o \in SyncKeys |-> syncRun'[o]]
  BY <1>1 DEF AirtableTyped, BatchFails
<1>3. \/ FailingRun(j)
      \/ j = [at |-> "export", direction |-> "export",
              canonical |-> syncRun[k].canonical, links |-> syncRun[k].links,
              todo |-> syncRun[k].todo \ NextBatch(k), synced |-> syncRun[k].synced,
              failed |-> TRUE]
  BY <1>4 DEF AfterFailure, RowsFail, Abandoned, FailingRun
<1>6. RunHolds(j)
  <2>1. ASSUME ~FailingRun(j) PROVE ExportingRun(j)
    <3>1. /\ j.at = "export" /\ j.canonical = syncRun[k].canonical /\ j.failed = TRUE
          /\ j.links = syncRun[k].links /\ j.todo \subseteq syncRun[k].todo
          /\ j.synced = syncRun[k].synced
          /\ j = [at |-> "export", direction |-> "export", canonical |-> j.canonical,
                  links |-> j.links, todo |-> j.todo, synced |-> j.synced, failed |-> j.failed]
      BY <1>3, <2>1
    <3> QED BY <1>2, <3>1 DEF ExportingRun, Canonical
  <2> QED BY <2>1 DEF RunHolds
<1>7. CASE UNCHANGED tableRow
  <2>1. k \notin overlapped => Exact(j)
    <3>1. Exact(syncRun[k]) => Exact(j)
      BY <1>2, <1>3, FailedOwesNothing DEF Exact, ExportingRun
    <3> QED BY <3>1 DEF AirtableInductive
  <2>2. ~repeated /\ overlapped = {} => Misses(j)
    <3>1. Misses(syncRun[k]) => Misses(j)
      BY <1>2, <1>3, FailedOwesNothing DEF Misses, ExportingRun
    <3> QED BY <3>1 DEF AirtableInductive
  <2> QED BY <1>1, <1>2, <1>4, <1>6, <1>7, <2>1, <2>2, OnlyRunStep
<1>8. CASE \E place \in Places(k) : CarryOut(k, place)
  <2>1. PICK place \in Places(k) : CarryOut(k, place)
    BY <1>8
  <2>2. Wrote(k, place) /\ repeated' \in BOOLEAN
    BY <1>1, <2>1, CarryOutWrites DEF AirtableTyped
  <2>3. /\ RowsKept /\ AirtableTyped' /\ Leads(link)' /\ NotesTaken'
        /\ ~repeated /\ overlapped = {} => SingleRows'
        /\ \A c \in syncRun[k].synced : Exact(syncRun[k]) =>
             \E r \in Present' : link[c] = {r} /\ Shows(tableRow'[r], syncRun[k].canonical[c])
        /\ \A c \in syncRun[k].todo : \A r \in Present' :
             ~repeated /\ overlapped = {} /\ syncRun[k].links[c] = Unlinked
               /\ tableRow'[r].of = c => c \in NextBatch(k)
    BY <1>1, <1>4, <2>2, WriteKeepsTables
  <2>4. RunHolds(j)'
    BY <1>6, <2>3, RunStillHolds DEF RowsKept
  <2>5. k \notin overlapped => Exact(j)'
    <3> SUFFICES ASSUME k \notin overlapped, ~FailingRun(j) PROVE Exact(j)'
      BY FailedOwesNothing
    <3>1. Exact(syncRun[k])
      BY DEF AirtableInductive
    <3>2. \A c \in j.synced : \E r \in Present' : link'[c] = {r} /\ Shows(tableRow'[r], j.canonical[c])
      BY <1>1, <1>3, <2>3, <3>1
    <3> QED BY <1>3, <3>2 DEF Exact
  <2>6. ~repeated' /\ overlapped = {} => SingleRows' /\ Misses(j)'
    BY <1>1, <1>3, <2>3, FailedOwesNothing DEF Misses, Unlinked
  <2> QED BY <1>1, <1>2, <1>4, <2>3, <2>4, <2>5, <2>6, RunStep
<1> QED BY <1>7, <1>8 DEF BatchFails

\* Linking some of the records of a batch, and the rest not: every link it makes leads
\* to the row the batch wrote, whether the run goes on or is abandoned.
LEMMA LinksSomeKeeps ==
  ASSUME AirtableInductive, NEW k \in SyncKeys, syncRun[k].at = "link",
         NEW some \in SUBSET DOMAIN syncRun[k].place, NEW j,
         link' = [c \in CanonicalRecords |-> IF c \in some THEN {syncRun[k].place[c]} ELSE link[c]],
         \/ FailingRun(j)
         \/ j = [at |-> "export", direction |-> "export", canonical |-> syncRun[k].canonical,
                 links |-> syncRun[k].links, todo |-> syncRun[k].todo \ DOMAIN syncRun[k].place,
                 synced |-> syncRun[k].synced \cup some, failed |-> j.failed],
         j.failed \in BOOLEAN,
         ~j.failed => ~syncRun[k].failed /\ some = DOMAIN syncRun[k].place,
         syncRun' = [syncRun EXCEPT ![k] = j], troubles' \in 0..MaxTroubles,
         UNCHANGED <<record, tableRow, attribute, time, repeated, overlapped>>
  PROVE  AirtableInductive'
<1>14. \/ FailingRun(j)
       \/ /\ j = [at |-> "export", direction |-> "export", canonical |-> syncRun[k].canonical,
                  links |-> syncRun[k].links, todo |-> syncRun[k].todo \ DOMAIN syncRun[k].place,
                  synced |-> syncRun[k].synced \cup some, failed |-> j.failed]
          /\ j.synced = syncRun[k].synced \cup some /\ j.canonical = syncRun[k].canonical
          /\ j.todo = syncRun[k].todo \ DOMAIN syncRun[k].place /\ j.at = "export"
  OBVIOUS
<1>1. /\ LinkingRun(syncRun[k]) /\ Working(k) /\ AirtableTyped
      /\ syncRun' = [o \in SyncKeys |-> syncRun'[o]]
  BY WorkingRuns, RunsByStep DEF AirtableTyped
<1>2. PICK place : place = syncRun[k].place
  OBVIOUS
<1>3. /\ DOMAIN place \subseteq syncRun[k].todo /\ some \subseteq DOMAIN place
      /\ syncRun[k].todo \subseteq CanonicalRecords /\ syncRun[k].synced \subseteq CanonicalRecords
      /\ \A c \in DOMAIN place : place[c] \in Present /\ tableRow[place[c]].of = c
  BY <1>1, <1>2 DEF LinkingRun
<1>4. \A c \in CanonicalRecords : link'[c] = IF c \in some THEN {place[c]} ELSE link[c]
  BY <1>2
<1>5. RunHolds(j)
  <2>1. FailingRun(j) \/ ExportingRun(j)
    BY <1>1, <1>2, <1>3, <1>14 DEF ExportingRun, LinkingRun, Canonical
  <2> QED BY <2>1 DEF RunHolds
<1>6. RowsKept
  BY DEF RowsKept, RowsStay, EditsAreLate, Present, Rows
<1>7. RunHolds(j)'
  BY <1>5, <1>6, RunStillHolds DEF RowsKept
<1>8. AirtableTyped'
  <2>1. link' \in [CanonicalRecords -> Links]
    BY <1>1, <1>2, <1>3, <1>4 DEF AirtableTyped, Links, Present
  <2> QED BY <1>1, <2>1 DEF AirtableTyped, AirtableTypeOK, Present, Rows, TableRows,
             Notes, Links, RecordContents
<1>9. Leads(link)'
  <2> SUFFICES ASSUME NEW c \in CanonicalRecords, NEW r \in Rows, link'[c] = {r}
               PROVE  r \in Present /\ tableRow[r].of = c
    BY DEF Leads, Present, Rows
  <2>1. CASE c \in some
    <3>1. {place[c]} = {r}
      BY <1>4, <2>1
    <3>2. place[c] = r
      BY <3>1
    <3> QED BY <1>3, <2>1, <3>2
  <2>2. CASE c \notin some
    BY <1>4, <2>2 DEF AirtableInductive, Leads
  <2> QED BY <2>1, <2>2
<1>10. NotesTaken' /\ (SingleRows => SingleRows')
  BY DEF AirtableInductive, NotesTaken, OnlyRow, Present, Rows, SingleRows
<1>11. k \notin overlapped => Exact(j)'
  <2> SUFFICES ASSUME k \notin overlapped, ~FailingRun(j) PROVE Exact(j)'
    BY FailedOwesNothing
  <2>1. Exact(syncRun[k]) /\ syncRun[k].at = "link" /\ j.at = "export"
    BY <1>14 DEF AirtableInductive
  <2>2. \A c \in j.synced : \E r \in Present : link'[c] = {r} /\ Shows(tableRow[r], j.canonical[c])
    <3> SUFFICES ASSUME NEW c \in syncRun[k].synced \cup some
                 PROVE  \E r \in Present : link'[c] = {r} /\ Shows(tableRow[r], syncRun[k].canonical[c])
      BY <1>14
    <3>1. CASE c \in some
      BY <1>2, <1>3, <1>4, <2>1, <3>1 DEF Exact
    <3>2. CASE c \notin some
      BY <1>3, <1>4, <2>1, <3>2 DEF Exact
    <3> QED BY <3>1, <3>2
  <2>3. ~j.failed => CanonicalRecords \subseteq j.todo \cup j.synced
    BY <1>14, <2>1 DEF Exact
  <2> QED BY SMTT(90), <2>1, <2>2, <2>3 DEF Exact, Present, Rows, Shows
<1>12. ~repeated /\ overlapped = {} => Misses(j)
  <2>1. Misses(syncRun[k]) => Misses(j)
    BY <1>2, <1>3, <1>14, FailedOwesNothing DEF Misses
  <2> QED BY <2>1 DEF AirtableInductive
<1>13. ~repeated' /\ overlapped = {} => SingleRows' /\ Misses(j)'
  BY <1>10, <1>12 DEF AirtableInductive, Misses, Present, Rows
<1> QED BY <1>1, <1>6, <1>7, <1>8, <1>9, <1>10, <1>11, <1>13, RunStep

\* A run links the rows of a batch.
LEMMA LinkBatchKeeps ==
  ASSUME AirtableInductive, NEW k \in SyncKeys, LinkBatch(k) \/ LinkFails(k)
  PROVE  AirtableInductive'
<1>1. /\ syncRun[k].at = "link" /\ troubles' \in 0..MaxTroubles
      /\ UNCHANGED <<record, tableRow, attribute, time, repeated, overlapped>>
      /\ LinkingRun(syncRun[k])
  BY WorkingRuns, RunsByStep DEF LinkBatch, LinkFails
<1>2. CASE LinkBatch(k)
  <2>1. PICK j : j = [at |-> "export", direction |-> "export", canonical |-> syncRun[k].canonical,
                      links |-> syncRun[k].links,
                      todo |-> syncRun[k].todo \ DOMAIN syncRun[k].place,
                      synced |-> syncRun[k].synced \cup DOMAIN syncRun[k].place,
                      failed |-> syncRun[k].failed]
    OBVIOUS
  <2>2. /\ syncRun' = [syncRun EXCEPT ![k] = j]
        /\ link' = [c \in CanonicalRecords |->
             IF c \in DOMAIN syncRun[k].place THEN {syncRun[k].place[c]} ELSE link[c]]
    BY <1>2, <2>1 DEF LinkBatch
  <2>3. j.failed = syncRun[k].failed /\ syncRun[k].failed \in BOOLEAN
    BY <1>1, <2>1 DEF LinkingRun
  <2> QED BY <1>1, <2>1, <2>2, <2>3, LinksSomeKeeps
<1>3. CASE LinkFails(k)
  <2>1. PICK some \in SUBSET DOMAIN syncRun[k].place :
          /\ link' = [c \in CanonicalRecords |->
               IF c \in some THEN {syncRun[k].place[c]} ELSE link[c]]
          /\ \E run \in AfterFailure(k, DOMAIN syncRun[k].place, syncRun[k].synced \cup some) :
               syncRun' = [syncRun EXCEPT ![k] = run]
    BY <1>3 DEF LinkFails
  <2>2. PICK j : /\ j \in AfterFailure(k, DOMAIN syncRun[k].place, syncRun[k].synced \cup some)
                 /\ syncRun' = [syncRun EXCEPT ![k] = j]
    BY <2>1
  <2>3. /\ \/ FailingRun(j)
           \/ j = [at |-> "export", direction |-> "export", canonical |-> syncRun[k].canonical,
                   links |-> syncRun[k].links,
                   todo |-> syncRun[k].todo \ DOMAIN syncRun[k].place,
                   synced |-> syncRun[k].synced \cup some, failed |-> j.failed]
        /\ j.failed = TRUE
    BY <2>2 DEF AfterFailure, RowsFail, Abandoned, FailingRun
  <2> QED BY ZenonT(90), <1>1, <2>1, <2>2, <2>3, LinksSomeKeeps
<1> QED BY <1>2, <1>3

\* A row that is taken, skipped or refused.
LEMMA ImportRowKeeps ==
  ASSUME AirtableInductive, NEW k \in SyncKeys, NEW r \in Rows, ImportRow(k, r)
  PROVE  AirtableInductive'
<1>1. /\ syncRun[k].at = "import" /\ r \in syncRun[k].todo /\ ImportingRun(syncRun[k])
      /\ UNCHANGED <<record, tableRow, troubles, repeated, overlapped>>
      /\ Working(k) /\ AirtableTyped
  BY WorkingRuns, RunsByStep DEF ImportRow
<1>2. PICK seen, c : seen = syncRun[k].listed[r] /\ c = seen.of
  OBVIOUS
<1>3. PICK applies, refused :
        /\ applies = (seen.note # NoNote /\ ~LocalValueIsNewer(c, seen))
        /\ refused = (seen.note # NoNote /\ LocalValueIsNewer(c, seen))
  OBVIOUS
<1>4. PICK j : j = [at |-> "import", listed |-> syncRun[k].listed,
                    todo |-> syncRun[k].todo \ {r}, direction |-> "import",
                    canonical |-> syncRun[k].canonical,
                    synced |-> IF applies THEN syncRun[k].synced \cup {c} ELSE syncRun[k].synced,
                    failed |-> syncRun[k].failed \/ refused]
  OBVIOUS
<1>5. /\ syncRun' = [syncRun EXCEPT ![k] = j]
      /\ time' = IF applies THEN time + 1 ELSE time
      /\ attribute' = IF applies
           THEN [attribute EXCEPT ![c] = [note |-> seen.note, updatedAt |-> time + 1]]
           ELSE attribute
      /\ link' = IF applies THEN [link EXCEPT ![c] = {r}] ELSE link
  BY <1>2, <1>3, <1>4 DEF ImportRow
<1>6. /\ r \in DOMAIN syncRun[k].listed /\ r \in Present /\ seen \in TableRows
      /\ tableRow[r].of = c /\ c \in CanonicalRecords /\ seen.note \in Notes
      /\ ~tableRow[r].late => seen.note = tableRow[r].note
  BY <1>1, <1>2 DEF ImportingRun, Sees, TableRows
<1>7. /\ time \in Nat /\ time' \in Nat /\ time <= time'
      /\ syncRun' = [o \in SyncKeys |-> syncRun'[o]]
      /\ link' \in [CanonicalRecords -> Links]
      /\ attribute' \in [CanonicalRecords -> [note : Notes, updatedAt : Nat]]
      /\ \A d \in CanonicalRecords : attribute'[d].updatedAt \in 0..time'
  <2>1. /\ time \in Nat /\ syncRun = [o \in SyncKeys |-> syncRun[o]]
        /\ link \in [CanonicalRecords -> Links]
        /\ attribute \in [CanonicalRecords -> [note : Notes, updatedAt : Nat]]
        /\ \A d \in CanonicalRecords : attribute[d].updatedAt \in 0..time
    BY <1>1 DEF AirtableTyped, AirtableTypeOK
  <2>2. {r} \in Links /\ [note |-> seen.note, updatedAt |-> time + 1] \in [note : Notes, updatedAt : Nat]
    BY <1>6, <2>1 DEF Links
  <2>3. CASE applies
    BY SMTT(90), <1>5, <1>6, <2>1, <2>2, <2>3
  <2>4. CASE ~applies
    BY <1>5, <2>1, <2>4
  <2> QED BY <2>3, <2>4
<1>8. RowsKept
  BY <1>1 DEF RowsKept, RowsStay, EditsAreLate, Present, Rows
<1>9. AirtableTyped'
  <2>1. \A s \in Present : tableRow[s].of \in CanonicalRecords /\ tableRow[s].modifiedAt \in 0..time'
    BY <1>1, <1>7 DEF AirtableTyped, AirtableTypeOK
  <2> QED BY <1>1, <1>7, <2>1 DEF AirtableTyped, AirtableTypeOK, Present, Rows, TableRows, Notes,
             Links, RecordContents
<1>10. Leads(link)'
  <2> SUFFICES ASSUME NEW d \in CanonicalRecords, NEW s \in Rows, link'[d] = {s}
               PROVE  s \in Present /\ tableRow[s].of = d
    BY <1>1 DEF Leads, Present, Rows
  <2>1. CASE applies /\ d = c
    <3>1. link'[d] = {r}
      BY <1>1, <1>5, <1>6, <2>1 DEF AirtableTyped
    <3> QED BY <1>6, <2>1, <3>1
  <2>2. CASE ~(applies /\ d = c)
    <3>1. link'[d] = link[d]
      BY <1>1, <1>5, <2>2 DEF AirtableTyped
    <3> QED BY <3>1 DEF AirtableInductive, Leads
  <2> QED BY <2>1, <2>2
<1>11. RunHolds(j)'
  <2>1. ImportingRun(j)
    BY <1>1, <1>4 DEF ImportingRun, Sees
  <2> QED BY <1>8, <2>1, RunStillHolds DEF RunHolds, RowsKept
<1>12. \A d \in CanonicalRecords : ~(applies /\ d = c) => attribute'[d] = attribute[d]
  BY <1>1, <1>5 DEF AirtableTyped
<1>13. applies => attribute'[c].note = seen.note /\ attribute'[c].updatedAt = time + 1
  BY <1>1, <1>5, <1>6 DEF AirtableTyped
<1>14. NotesTaken'
  <2>1. ASSUME NEW d \in CanonicalRecords, attribute'[d].note # NoNote
        PROVE  \E s \in Present : tableRow[s].of = d
    <3>1. CASE applies /\ d = c
      BY <1>3, <1>6, <3>1
    <3>2. CASE ~(applies /\ d = c)
      BY <1>12, <2>1, <3>2 DEF AirtableInductive, NotesTaken
    <3> QED BY <3>1, <3>2
  <2>2. ASSUME NEW s \in Present, OnlyRow(s), ~tableRow[s].late,
               attribute'[tableRow[s].of].note # NoNote,
               attribute'[tableRow[s].of].updatedAt > tableRow[s].modifiedAt
        PROVE  attribute'[tableRow[s].of].note = tableRow[s].note
    <3>1. tableRow[s].of \in CanonicalRecords
      BY <1>1 DEF AirtableTyped, AirtableTypeOK
    <3>2. CASE applies /\ tableRow[s].of = c
      <4>1. s = r
        BY <1>6, <2>2, <3>2 DEF OnlyRow
      <4> QED BY <1>6, <1>13, <2>2, <3>2, <4>1
    <3>3. CASE ~(applies /\ tableRow[s].of = c)
      BY <1>12, <2>2, <3>1, <3>3 DEF AirtableInductive, NotesTaken
    <3> QED BY <3>2, <3>3
  <2> QED BY <1>1, <2>1, <2>2 DEF NotesTaken, OnlyRow, Present, Rows, NoNote
<1>15. k \notin overlapped => Exact(j)'
  <2> SUFFICES ASSUME k \notin overlapped PROVE Exact(j)'
    OBVIOUS
  <2>1. Exact(syncRun[k])
    BY DEF AirtableInductive
  <2>2. ASSUME NEW s \in DOMAIN j.listed \ j.todo, tableRow[s] = j.listed[s], OnlyRow(s),
               ~tableRow[s].late
        PROVE  tableRow[s].note \in {attribute'[tableRow[s].of].note, NoNote}
    <3>1. s \in DOMAIN syncRun[k].listed /\ s \in Present /\ tableRow[s].of \in CanonicalRecords
      BY <1>1, <1>4, <2>2 DEF ImportingRun, Sees, AirtableTyped, AirtableTypeOK
    <3>2. CASE s # r
      <4>1. s \in DOMAIN syncRun[k].listed \ syncRun[k].todo /\ tableRow[s] = syncRun[k].listed[s]
        BY <1>4, <2>2, <3>1, <3>2
      <4>2. tableRow[s].note \in {attribute[tableRow[s].of].note, NoNote}
        BY <1>1, <2>1, <2>2, <4>1 DEF Exact
      <4>3. tableRow[s].of # c
        BY <1>6, <2>2, <3>2 DEF OnlyRow
      <4> QED BY <1>12, <3>1, <4>2, <4>3
    <3>3. CASE s = r
      <4>1. tableRow[r] = seen /\ OnlyRow(r)
        BY <1>2, <1>4, <2>2, <3>3
      <4>2. CASE applies
        BY <1>6, <1>13, <3>3, <4>1, <4>2
      <4>3. CASE seen.note = NoNote
        BY <3>3, <4>1, <4>3
      <4>4. CASE seen.note # NoNote /\ ~applies
        <5>1. attribute[c].note # NoNote /\ attribute[c].updatedAt > seen.modifiedAt
          BY <1>3, <4>4 DEF LocalValueIsNewer
        <5>2. attribute[c].note = tableRow[r].note
          BY <1>6, <2>2, <3>3, <4>1, <5>1 DEF AirtableInductive, NotesTaken
        <5> QED BY <1>6, <1>12, <3>3, <4>4, <5>2
      <4> QED BY <4>2, <4>3, <4>4
    <3> QED BY <3>2, <3>3
  <2>3. j.at = "import"
    BY <1>4
  <2> QED BY <1>1, <2>2, <2>3 DEF Exact, OnlyRow, Present, Rows
<1>16. ~repeated' /\ overlapped = {} => SingleRows' /\ Misses(j)'
  BY <1>1, <1>4 DEF AirtableInductive, SingleRows, Misses, Present, Rows
<1> QED BY <1>1, <1>5, <1>8, <1>9, <1>10, <1>11, <1>14, <1>15, <1>16, RunStep

\* The inductive invariant of the synchronizations, which also says what each run
\* has seen, and what it has done if no other overlapped it.
THEOREM AirtableInvariance == AirtableSpec => []AirtableInductive
<1>1. ASSUME AirtableInit PROVE AirtableInductive
  <2>1. /\ record = [c \in CanonicalRecords |-> 1]
        /\ attribute = [c \in CanonicalRecords |-> [note |-> NoNote, updatedAt |-> 0]]
        /\ syncRun = [k \in SyncKeys |-> Unused]
        /\ time = 0 /\ troubles = 0 /\ repeated = FALSE /\ overlapped = {}
    BY <1>1 DEF AirtableInit
  <2>2. /\ link \in [CanonicalRecords -> Links]
        /\ \A c, d \in CanonicalRecords : link[c] = link[d] /\ link[c] # Unlinked => c = d
        /\ tableRow \in [Rows -> {NoRow} \cup TableRows]
        /\ \A r \in Rows : tableRow[r] # NoRow =>
             \E c \in CanonicalRecords : link[c] = {r} /\ tableRow[r] = NewRow(c, 1, 0)
        /\ \A c \in CanonicalRecords, r \in Rows : link[c] = {r} => tableRow[r] # NoRow
    <3>1. CASE /\ link = [c \in CanonicalRecords |-> Unlinked]
               /\ tableRow = [r \in Rows |-> NoRow]
      BY <3>1 DEF Links, Unlinked
    <3>2. CASE /\ link \in [CanonicalRecords -> {{r} : r \in 1..Cardinality(CanonicalRecords)}]
               /\ \A c, d \in CanonicalRecords : link[c] = link[d] => c = d
               /\ tableRow = [r \in Rows |->
                    IF \E c \in CanonicalRecords : link[c] = {r}
                    THEN NewRow(CHOOSE c \in CanonicalRecords : link[c] = {r}, 1, 0) ELSE NoRow]
      <4>1. 1..Cardinality(CanonicalRecords) \subseteq Rows
        BY AirtableAssumption, FS_CardinalityType DEF Rows
      <4>2. link \in [CanonicalRecords -> Links]
        BY <3>2, <4>1 DEF Links
      <4>3. ASSUME NEW r \in Rows, NEW c \in CanonicalRecords, link[c] = {r}
            PROVE  tableRow[r] = NewRow(c, 1, 0)
        <5>1. (CHOOSE d \in CanonicalRecords : link[d] = {r}) = c
          BY <3>2, <4>3
        <5> QED BY <3>2, <4>3, <5>1
      <4>4. ASSUME NEW r \in Rows, ~\E c \in CanonicalRecords : link[c] = {r}
            PROVE  tableRow[r] = NoRow
        BY <3>2, <4>4
      <4>5. ASSUME NEW c \in CanonicalRecords
            PROVE  NewRow(c, 1, 0) \in TableRows /\ NewRow(c, 1, 0) # NoRow
        <5>1. NewRow(c, 1, 0) \in TableRows
          BY DEF NewRow, TableRows, RecordContents, Notes
        <5>2. DOMAIN NewRow(c, 1, 0) = {"of", "holds", "note", "modifiedAt", "late"}
              /\ DOMAIN NoRow = {"is"}
          BY DEF NewRow, NoRow
        <5> QED BY <5>1, <5>2
      <4>6. tableRow \in [Rows -> {NoRow} \cup TableRows]
        <5>1. tableRow = [r \in Rows |-> tableRow[r]]
          BY <3>2
        <5>2. \A r \in Rows : tableRow[r] \in {NoRow} \cup TableRows
          BY <4>3, <4>4, <4>5
        <5> QED BY <5>1, <5>2
      <4>7. \A r \in Rows : tableRow[r] # NoRow =>
              \E c \in CanonicalRecords : link[c] = {r} /\ tableRow[r] = NewRow(c, 1, 0)
        BY <4>3, <4>4
      <4>8. \A c \in CanonicalRecords, r \in Rows : link[c] = {r} => tableRow[r] # NoRow
        BY <4>3, <4>5
      <4> QED BY <3>2, <4>2, <4>6, <4>7, <4>8
    <3> QED BY <1>1, <3>1, <3>2 DEF AirtableInit
  <2>3. \A r \in Present : \E c \in CanonicalRecords :
          /\ link[c] = {r} /\ tableRow[r].of = c /\ tableRow[r].modifiedAt = 0
    <3> SUFFICES ASSUME NEW r \in Present
                 PROVE  \E c \in CanonicalRecords :
                          /\ link[c] = {r} /\ tableRow[r].of = c /\ tableRow[r].modifiedAt = 0
      OBVIOUS
    <3>1. PICK c \in CanonicalRecords : link[c] = {r} /\ tableRow[r] = NewRow(c, 1, 0)
      BY <2>2 DEF Present
    <3> QED BY <3>1 DEF NewRow
  <2>4. AirtableTyped
    <3>1. AirtableTypeOK
      BY <2>1, <2>3, AirtableAssumption DEF AirtableTypeOK, RecordContents
    <3>2. attribute \in [CanonicalRecords -> [note : Notes, updatedAt : Nat]]
      BY <2>1 DEF Notes
    <3> QED BY <2>1, <2>2, <3>1, <3>2 DEF AirtableTyped
  <2>5. Leads(link)
    <3> SUFFICES ASSUME NEW c \in CanonicalRecords, NEW r \in Rows, link[c] = {r}
                 PROVE  r \in Present /\ tableRow[r].of = c
      BY DEF Leads
    <3>1. r \in Present
      BY <2>2 DEF Present
    <3>2. PICK d \in CanonicalRecords : link[d] = {r} /\ tableRow[r].of = d
      BY <2>3, <3>1
    <3>3. link[d] # Unlinked
      BY <3>2 DEF Unlinked
    <3> QED BY <2>2, <3>1, <3>2, <3>3
  <2>6. SingleRows
    BY <2>3 DEF SingleRows
  <2>7. NotesTaken
    BY <2>1, <2>3 DEF NotesTaken
  <2>8. /\ \A k \in SyncKeys : syncRun[k] = Unused
        /\ RunHolds(Unused) /\ Exact(Unused) /\ Misses(Unused) /\ Unused.at = "unused"
    BY <2>1, IdleOwesNothing DEF Unused, RunHolds
  <2> QED BY <2>4, <2>5, <2>6, <2>7, <2>8 DEF AirtableInductive, Working
<1>2. ASSUME AirtableInductive, [AirtableNext]_airtableVars PROVE AirtableInductive'
  <2>1. ASSUME NEW c \in CanonicalRecords, EditCanonical(c) PROVE AirtableInductive'
    BY <1>2, <2>1, EditCanonicalKeeps
  <2>2. ASSUME NEW r \in Rows, NEW n \in RowNotes \cup {NoNote}, EditRow(r, n)
        PROVE  AirtableInductive'
    BY <1>2, <2>2, EditRowKeeps
  <2>3. ASSUME NEW k \in SyncKeys, NEW direction \in {"export", "import"}, BeginRun(k, direction)
        PROVE  AirtableInductive'
    BY <1>2, <2>3, BeginRunKeeps
  <2>4. ASSUME NEW k \in SyncKeys, ListRows(k) PROVE AirtableInductive'
    BY <1>2, <2>4, ListRowsKeeps
  <2>5. ASSUME NEW k \in SyncKeys, RunFails(k) PROVE AirtableInductive'
    BY <1>2, <2>5, RunFailsKeeps
  <2>6. ASSUME NEW k \in SyncKeys, AdoptRows(k) PROVE AirtableInductive'
    BY <1>2, <2>6, AdoptRowsKeeps
  <2>7. ASSUME NEW k \in SyncKeys, SendBatch(k) PROVE AirtableInductive'
    BY <1>2, <2>7, SendBatchKeeps
  <2>8. ASSUME NEW k \in SyncKeys, RepeatBatch(k) PROVE AirtableInductive'
    BY <1>2, <2>8, RepeatBatchKeeps
  <2>9. ASSUME NEW k \in SyncKeys, BatchFails(k) PROVE AirtableInductive'
    BY <1>2, <2>9, BatchFailsKeeps
  <2>10. ASSUME NEW k \in SyncKeys, LinkBatch(k) \/ LinkFails(k) PROVE AirtableInductive'
    BY <1>2, <2>10, LinkBatchKeeps
  <2>11. ASSUME NEW k \in SyncKeys, Finish(k) \/ CutOffRun(k) PROVE AirtableInductive'
    BY <1>2, <2>11, EndKeeps
  <2>12. ASSUME NEW k \in SyncKeys, NEW r \in Rows, ImportRow(k, r) PROVE AirtableInductive'
    BY <1>2, <2>12, ImportRowKeeps
  <2>13. CASE UNCHANGED airtableVars
    <3>1. UNCHANGED <<record, tableRow, link, attribute, syncRun, time, troubles, repeated, overlapped>>
      BY <2>13 DEF airtableVars
    <3>2. AirtableTyped' /\ Leads(link)' /\ NotesTaken' /\ (SingleRows => SingleRows')
      BY <1>2, <3>1 DEF AirtableInductive, AirtableTyped, AirtableTypeOK, Present, Rows, TableRows,
         Notes, Links, RecordContents, Leads, NotesTaken, OnlyRow, SingleRows
    <3>3. ASSUME NEW k \in SyncKeys
          PROVE  /\ RunHolds(syncRun[k])'
                 /\ Exact(syncRun[k]) => Exact(syncRun[k])'
                 /\ Misses(syncRun[k]) => Misses(syncRun[k])'
      <4>1. PICK j : j = syncRun'[k]
        OBVIOUS
      <4>2. RowsKept /\ RunHolds(j) /\ j = syncRun[k]
        BY <1>2, <3>1, <4>1 DEF RowsKept, RowsStay, EditsAreLate, Present, Rows, AirtableInductive
      <4>3. RunHolds(j)' /\ (Exact(j) => Exact(j)') /\ (Misses(j) => Misses(j)')
        BY <3>1, <4>2, RunStillHolds DEF RowsKept, Exact, Misses, OnlyRow, Present, Rows
      <4> QED BY <4>1, <4>2, <4>3
    <3> QED BY <1>2, <3>1, <3>2, <3>3 DEF AirtableInductive, Working
  <2> QED BY <1>2, <2>1, <2>2, <2>3, <2>4, <2>5, <2>6, <2>7, <2>8, <2>9, <2>10, <2>11, <2>12,
             <2>13 DEF AirtableNext
<1> QED BY <1>1, <1>2, PTL DEF AirtableSpec

\* A link leads to a row of its record; and a record has a second row only if an answer
\* was lost and the request repeated, or runs overlapped.
THEOREM AirtableIsSafe == AirtableSpec => []AirtableSafe
<1>1. AirtableInductive => AirtableSafe
  BY DEF AirtableInductive, AirtableTyped, AirtableSafe, Leads, SingleRows
<1> QED BY <1>1, AirtableInvariance, PTL

\* What a run that overlapped no other claims at its end is so: an export that
\* succeeded has put every value it listed, the empty ones apart, into the linked row
\* of its record, and an import has taken the note of every row that has one, has no
\* duplicate and was not edited under an import.
THEOREM ReceiptsHold == AirtableSpec => ReceiptsAreTrue
<1> DEFINE Receipt(k) ==
       Finish(k) =>
       IF syncRun[k].direction = "export"
       THEN StatusOf(k) = "succeeded" =>
              \A c \in CanonicalRecords :
                \E r \in Present : link[c] = {r} /\ Shows(tableRow[r], syncRun[k].canonical[c])
       ELSE syncRun[k].at = "import" =>
              \A r \in DOMAIN syncRun[k].listed :
                tableRow[r] = syncRun[k].listed[r] /\ OnlyRow(r) /\ ~tableRow[r].late =>
                  tableRow[r].note \in {attribute[tableRow[r].of].note, NoNote}
<1>1. ASSUME AirtableInductive, NEW k \in SyncKeys \ overlapped PROVE Receipt(k)
  <2> SUFFICES ASSUME Finish(k) PROVE Receipt(k)
    OBVIOUS
  <2>1. /\ Exact(syncRun[k]) /\ RunHolds(syncRun[k])
        /\ syncRun[k].at \in {"export", "import", "finish"} /\ syncRun[k].todo = {}
    BY <1>1 DEF AirtableInductive, Finish, Finishes
  <2>2. CASE syncRun[k].at = "export"
    <3>1. ExportingRun(syncRun[k])
      BY <2>1, <2>2, RunsByStep
    <3>2. syncRun[k].direction = "export" /\ (StatusOf(k) = "succeeded" => ~syncRun[k].failed)
      BY <3>1 DEF ExportingRun, StatusOf
    <3> QED BY <2>1, <2>2, <3>2 DEF Exact
  <2>3. CASE syncRun[k].at = "import"
    <3>1. ImportingRun(syncRun[k])
      BY <2>1, <2>3, RunsByStep
    <3>2. syncRun[k].direction = "import"
      BY <3>1 DEF ImportingRun
    <3> QED BY <2>1, <2>3, <3>2 DEF Exact
  <2>4. CASE syncRun[k].at = "finish"
    <3>1. FailingRun(syncRun[k])
      BY <2>1, <2>4, RunsByStep
    <3>2. syncRun[k].failed = TRUE
      BY <3>1 DEF FailingRun
    <3> QED BY <2>4, <3>2 DEF StatusOf
  <2> QED BY <2>1, <2>2, <2>3, <2>4
<1>2. ASSUME AirtableInductive PROVE [\A k \in SyncKeys \ overlapped : Receipt(k)]_airtableVars
  BY <1>1, <1>2
<1> QED BY <1>2, AirtableInvariance, PTL DEF ReceiptsAreTrue

-----------------------------------------------------------------------------
(***************************************************************************)
(* Accelevents: records that are mirrored, and the links to what they      *)
(* are mirrored to.                                                        *)
(***************************************************************************)

Ids == {{x} : x \in Externals}
Payloads == [content : Contents, speakers : SUBSET (Ids \cup {{}})]
MirrorLinks == {NoLink} \cup [id : Ids, fingerprint : Payloads]

\* A link leads to what Accelevents has of its record.
LeadsTo(to) == \A r \in Listed, x \in Externals : to[r].id = {x} => external[x].of = {r}

NextJobs == [at : {"next"}, canonical : [Listed -> Contents], selected : SUBSET Listed,
             left : SUBSET Listed, links : [Listed -> MirrorLinks]]
LinkJobs == [at : {"link"}, canonical : [Listed -> Contents], selected : SUBSET Listed,
             left : SUBSET Listed, links : [Listed -> MirrorLinks], record : Listed, id : Ids]

JobTyped(k) ==
  \/ syncJob[k] \in {NotBegun, Over}
  \/ /\ syncJob[k] \in NextJobs \cup LinkJobs
     /\ syncJob[k].left \subseteq syncJob[k].selected /\ LeadsTo(syncJob[k].links)
     /\ syncJob[k].at = "link" =>
          /\ syncJob[k].record \in syncJob[k].left
          /\ \A x \in Externals : syncJob[k].id = {x} => external[x].of = {syncJob[k].record}

AcceleventsTyped ==
  /\ AcceleventsTypeOK
  /\ external = [x \in Externals |-> external[x]]
  /\ \A x \in Externals : external[x] = NoExternal <=> external[x].of = {}
  /\ mirror \in [Listed -> MirrorLinks]
  /\ syncJob = [k \in Jobs |-> syncJob[k]]
  /\ concurrent \in BOOLEAN

\* What the only run at work owes: it knows the links as they are; what it is done
\* with has failed or is linked as it is; it does sessions after speakers; and what
\* it is linking is there as it sent it.
JobExact(k) ==
  /\ syncJob[k].links = mirror
  /\ \A r \in syncJob[k].selected \ syncJob[k].left :
       \/ r \in failures[k]
       \/ mirror[r] # NoLink /\ mirror[r].fingerprint = Payload(k, r)
  /\ (syncJob[k].selected \ syncJob[k].left) \cap Talks # {} => syncJob[k].left \cap Guests = {}
  /\ syncJob[k].at = "link" =>
       /\ syncJob[k].record \in Talks => syncJob[k].left \cap Guests = {}
       /\ mirror[syncJob[k].record] = NoLink \/ mirror[syncJob[k].record].id = syncJob[k].id
       /\ \A x \in Externals : syncJob[k].id = {x} =>
            external[x].holds = Payload(k, syncJob[k].record)

Linking(r, x) == \E k \in Jobs : /\ syncJob[k].at = "link" /\ syncJob[k].record = r
                                 /\ syncJob[k].id = {x}

\* What a link says of its record is so, unless an answer was lost or is on its way.
MirrorTrue ==
  \A r \in Listed, x \in Externals : mirror[r].id = {x} =>
    BeingSent(r) \/ r \in unconfirmed \/ external[x].holds = mirror[r].fingerprint

\* What was created is linked or about to be, unless its link was lost.
NothingStray ==
  \A r \in Listed \ strayed, x \in Externals : external[x].of = {r} =>
    mirror[r].id = {x} \/ Linking(r, x)

\* As long as no runs overlap.
Orderly ==
  /\ \A j, k \in Jobs : Runs(j) /\ Runs(k) => j = k
  /\ \A k \in Jobs : Runs(k) => JobExact(k)
  /\ MirrorTrue /\ NothingStray

AcceleventsInductive ==
  /\ AcceleventsTyped
  /\ LeadsTo(mirror)
  /\ \A k \in Jobs : JobTyped(k)
  /\ ~concurrent => Orderly

-----------------------------------------------------------------------------
(* Jobs, payloads and what is there.                                       *)

\* A job at work is about to take a record or to link one.
LEMMA JobsAtWork ==
  ASSUME AcceleventsInductive, NEW k \in Jobs
  PROVE  /\ Runs(k) <=> syncJob[k].at \in {"next", "link"}
         /\ syncJob[k].at = "next" => syncJob[k] \in NextJobs
         /\ syncJob[k].at = "link" => syncJob[k] \in LinkJobs
         /\ Runs(k) => /\ syncJob[k].left \subseteq syncJob[k].selected
                       /\ syncJob[k].selected \subseteq Listed
                       /\ syncJob[k].canonical \in [Listed -> Contents]
                       /\ syncJob[k].links \in [Listed -> MirrorLinks]
                       /\ LeadsTo(syncJob[k].links)
         /\ AcceleventsTyped
<1>1. JobTyped(k) /\ AcceleventsTyped
  BY DEF AcceleventsInductive
<1>2. /\ NotBegun.at = "not begun" /\ Over.at = "over"
      /\ \A j \in NextJobs : j.at = "next" /\ j.selected \subseteq Listed
           /\ j.canonical \in [Listed -> Contents] /\ j.links \in [Listed -> MirrorLinks]
      /\ \A j \in LinkJobs : j.at = "link" /\ j.selected \subseteq Listed
           /\ j.canonical \in [Listed -> Contents] /\ j.links \in [Listed -> MirrorLinks]
  BY DEF NotBegun, Over, NextJobs, LinkJobs
<1> QED BY <1>1, <1>2 DEF JobTyped, Runs

\* A payload has a content and the identifiers of speakers.
LEMMA PayloadTyped ==
  ASSUME AcceleventsInductive, NEW k \in Jobs, Runs(k), NEW r \in Listed
  PROVE  Payload(k, r) \in Payloads
<1>1. /\ syncJob[k].canonical \in [Listed -> Contents]
      /\ syncJob[k].links \in [Listed -> MirrorLinks]
  BY JobsAtWork
<1>2. ASSUME NEW g \in Guests PROVE syncJob[k].links[g].id \in Ids \cup {{}}
  <2>1. syncJob[k].links[g] \in MirrorLinks
    BY <1>1, <1>2 DEF Listed
  <2> QED BY <2>1 DEF MirrorLinks, NoLink
<1>3. (IF r \in Talks THEN {syncJob[k].links[g].id : g \in Guests} ELSE {})
        \in SUBSET (Ids \cup {{}})
  BY <1>2
<1>4. syncJob[k].canonical[r] \in Contents
  BY <1>1
<1> QED BY <1>3, <1>4 DEF Payload, Payloads, Contents

\* It is the payload of what the job has listed and of the links it knows.
LEMMA PayloadStays ==
  ASSUME NEW k \in Jobs, NEW r, syncJob'[k].canonical = syncJob[k].canonical,
         syncJob'[k].links = syncJob[k].links
  PROVE  Payload(k, r)' = Payload(k, r)
BY DEF Payload

\* What is there stays there, for the record it is of.
OfsStay == \A x \in Externals : external[x].of # {} => external'[x].of = external[x].of

\* A link leads where it led while what it leads to stays of its record.
LEMMA LeadsToStill ==
  ASSUME NEW to, LeadsTo(to), OfsStay PROVE LeadsTo(to)'
<1> SUFFICES ASSUME NEW r \in Listed, NEW x \in Externals, to[r].id = {x}
             PROVE  external'[x].of = {r}
  BY DEF LeadsTo, Listed, Externals
<1>1. external[x].of = {r}
  BY DEF LeadsTo
<1> QED BY <1>1 DEF OfsStay

\* A job that does not move is typed as it was.
LEMMA JobTypedStill ==
  ASSUME NEW k \in Jobs, JobTyped(k), OfsStay, syncJob'[k] = syncJob[k] PROVE JobTyped(k)'
<1>1. CASE syncJob[k] \in {NotBegun, Over}
  BY <1>1 DEF JobTyped, NotBegun, Over
<1>2. CASE syncJob[k] \notin {NotBegun, Over}
  <2>1. PICK j : j = syncJob[k]
    OBVIOUS
  <2>2. /\ j \in NextJobs \cup LinkJobs /\ j.left \subseteq j.selected /\ LeadsTo(j.links)
        /\ j.at = "link" => /\ j.record \in j.left
                            /\ \A x \in Externals : j.id = {x} => external[x].of = {j.record}
    BY <1>2, <2>1 DEF JobTyped
  <2>3. LeadsTo(j.links)'
    BY <2>2, LeadsToStill
  <2>4. j.at = "link" => \A x \in Externals : j.id = {x} => external'[x].of = {j.record}
    BY <2>2 DEF OfsStay
  <2>5. j \in (NextJobs \cup LinkJobs)'
    BY <2>2 DEF NextJobs, LinkJobs, MirrorLinks, NoLink, Ids, Payloads, Contents, Externals, Listed
  <2>6. Externals' = Externals
    BY DEF Externals
  <2> QED BY <2>1, <2>2, <2>3, <2>4, <2>5, <2>6 DEF JobTyped
<1> QED BY <1>1, <1>2

\* A step of a job at work keeps the invariant if it keeps the tables and, unless runs
\* overlap, what is owed: the job is the only one at work.
LEMMA JobStep ==
  ASSUME AcceleventsInductive, NEW k \in Jobs, Runs(k),
         \A o \in Jobs : o # k => syncJob'[o] = syncJob[o],
         UNCHANGED concurrent, OfsStay, AcceleventsTyped', LeadsTo(mirror)', JobTyped(k)',
         ~concurrent => (Runs(k)' => JobExact(k)') /\ MirrorTrue' /\ NothingStray'
  PROVE  AcceleventsInductive'
<1>1. ASSUME NEW o \in Jobs PROVE JobTyped(o)'
  <2>1. CASE o = k
    BY <2>1
  <2>2. CASE o # k
    BY <2>2, JobTypedStill DEF AcceleventsInductive
  <2> QED BY <2>1, <2>2
<1>2. ASSUME ~concurrent PROVE Orderly'
  <2>1. ASSUME NEW o \in Jobs, Runs(o)' PROVE o = k
    <3> SUFFICES ASSUME o # k PROVE FALSE
      OBVIOUS
    <3>1. Runs(o)
      BY <2>1 DEF Runs
    <3> QED BY <1>2, <3>1 DEF AcceleventsInductive, Orderly
  <2>2. \A o \in Jobs : Runs(o)' => JobExact(o)'
    BY <1>2, <2>1
  <2> QED BY <1>2, <2>1, <2>2 DEF Orderly
<1> QED BY <1>1, <1>2 DEF AcceleventsInductive

-----------------------------------------------------------------------------
(* The steps.                                                              *)

\* An edit makes every fingerprint of the record old.
LEMMA EditRecordKeeps ==
  ASSUME AcceleventsInductive, NEW r \in Listed, EditRecord(r) PROVE AcceleventsInductive'
<1>1. /\ content' \in [Listed -> Contents]
      /\ UNCHANGED <<external, mirror, syncJob, failures, mishaps, strayed, unconfirmed, concurrent>>
  BY DEF EditRecord, AcceleventsInductive, AcceleventsTyped, AcceleventsTypeOK
<1>2. OfsStay
  BY <1>1 DEF OfsStay
<1>3. \A k \in Jobs : JobTyped(k)'
  BY <1>1, <1>2, JobTypedStill DEF AcceleventsInductive
<1>4. AcceleventsTyped'
  BY <1>1 DEF AcceleventsInductive, AcceleventsTyped, AcceleventsTypeOK, Externals, Listed,
     MirrorLinks, NoLink, NoExternal, Ids, Payloads
<1>5. LeadsTo(mirror)'
  BY <1>1 DEF AcceleventsInductive, LeadsTo, Externals, Listed
<1>6. Orderly => Orderly'
  <2>1. ASSUME NEW k \in Jobs, JobExact(k) PROVE JobExact(k)'
    BY <1>1, <2>1 DEF JobExact, Payload, Externals, NoLink
  <2>2. (MirrorTrue => MirrorTrue') /\ (NothingStray => NothingStray')
    BY <1>1 DEF MirrorTrue, NothingStray, Linking, BeingSent, Externals, Listed
  <2> QED BY <1>1, <2>1, <2>2 DEF Orderly, Runs
<1> QED BY <1>1, <1>3, <1>4, <1>5, <1>6 DEF AcceleventsInductive

\* A run begins.
LEMMA BeginKeeps ==
  ASSUME AcceleventsInductive, NEW k \in Jobs, NEW selected \in SUBSET Listed, Begin(k, selected)
  PROVE  AcceleventsInductive'
<1> DEFINE j == [at |-> "next", canonical |-> content, selected |-> selected, left |-> selected,
                 links |-> mirror]
<1>1. /\ syncJob[k] = NotBegun /\ syncJob' = [syncJob EXCEPT ![k] = j]
      /\ concurrent' = (concurrent \/ \E o \in Jobs : Runs(o))
      /\ UNCHANGED <<content, external, mirror, failures, mishaps, strayed, unconfirmed>>
      /\ AcceleventsTyped
  BY DEF Begin, AcceleventsInductive
<1>2. /\ syncJob'[k] = j /\ \A o \in Jobs : o # k => syncJob'[o] = syncJob[o]
      /\ syncJob' = [o \in Jobs |-> syncJob'[o]]
  BY <1>1 DEF AcceleventsTyped
<1>3. OfsStay
  BY <1>1 DEF OfsStay
<1>4. AcceleventsTyped'
  <2>1. concurrent' \in BOOLEAN
    BY <1>1 DEF AcceleventsTyped
  <2> QED BY <1>1, <1>2, <2>1 DEF AcceleventsTyped, AcceleventsTypeOK, Externals, Listed,
             MirrorLinks, NoLink, NoExternal, Ids, Payloads, Contents
<1>5. LeadsTo(mirror)'
  BY <1>1 DEF AcceleventsInductive, LeadsTo, Externals, Listed
<1>6. JobTyped(k)'
  <2>1. j \in NextJobs'
    BY <1>1 DEF NextJobs, AcceleventsTyped, AcceleventsTypeOK, Listed, MirrorLinks, NoLink, Ids,
                Payloads, Contents, Externals
  <2>2. j.left = j.selected /\ j.at = "next" /\ j.links = mirror
    OBVIOUS
  <2>3. LeadsTo(syncJob[k].links)'
    BY <1>1, <1>2, <1>5
  <2> HIDE DEF j
  <2> QED BY <1>2, <2>1, <2>2, <2>3 DEF JobTyped
<1>7. \A o \in Jobs : JobTyped(o)'
  BY <1>2, <1>3, <1>6, JobTypedStill DEF AcceleventsInductive
<1>8. ASSUME ~concurrent' PROVE Orderly'
  <2>1. ~concurrent /\ Orderly /\ \A o \in Jobs : ~Runs(o)
    BY <1>1, <1>8 DEF AcceleventsInductive
  <2>2. \A o \in Jobs : Runs(o)' => o = k
    BY <1>2, <2>1 DEF Runs
  <2>3. JobExact(k)'
    BY <1>1, <1>2 DEF JobExact
  <2>4. \A o \in Jobs : syncJob'[o].at # "link" /\ syncJob[o].at # "link"
    <3>1. \A o \in Jobs : syncJob[o].at # "link"
      BY <2>1 DEF Runs
    <3> QED BY <1>2, <3>1
  <2>5. MirrorTrue' /\ NothingStray'
    BY <1>1, <2>1, <2>4 DEF Orderly, MirrorTrue, NothingStray, BeingSent, Linking, Listed, Externals
  <2> QED BY <2>2, <2>3, <2>5 DEF Orderly
<1> QED BY <1>4, <1>5, <1>7, <1>8 DEF AcceleventsInductive

\* A job at work that takes a record off what is left, which failed or is unchanged.
LEMMA TakeOffKeeps ==
  ASSUME AcceleventsInductive, NEW k \in Jobs, NEW r \in Listed, Ready(k, r),
         syncJob' = [syncJob EXCEPT ![k].left = @ \ {r}],
         UNCHANGED <<content, concurrent>>, OfsStay, AcceleventsTyped',
         mirror' = mirror, LeadsTo(mirror)', 
         failures[k] \subseteq failures'[k], r \in failures'[k] \/ Unchanged(k, r),
         ~concurrent => MirrorTrue' /\ NothingStray'
  PROVE  AcceleventsInductive'
<1>1. /\ syncJob[k] \in NextJobs /\ Runs(k) /\ syncJob[k].left \subseteq syncJob[k].selected
      /\ LeadsTo(syncJob[k].links) /\ r \in syncJob[k].left /\ AcceleventsTyped
      /\ syncJob[k].at = "next"
  BY JobsAtWork DEF Ready
<1>2. /\ \A o \in Jobs : o # k => syncJob'[o] = syncJob[o]
      /\ syncJob'[k] = [syncJob[k] EXCEPT !.left = @ \ {r}]
  BY <1>1 DEF AcceleventsTyped
<1>3. /\ syncJob'[k] \in NextJobs
      /\ syncJob'[k].left = syncJob[k].left \ {r} /\ syncJob'[k].selected = syncJob[k].selected
      /\ syncJob'[k].links = syncJob[k].links /\ syncJob'[k].canonical = syncJob[k].canonical
      /\ syncJob'[k].at = "next"
  BY <1>1, <1>2 DEF NextJobs
<1>4. JobTyped(k)'
  <2>1. PICK to : to = syncJob[k].links
    OBVIOUS
  <2>2. LeadsTo(to)'
    BY <1>1, <2>1, LeadsToStill
  <2>3. NextJobs' = NextJobs
    BY DEF NextJobs, MirrorLinks, NoLink, Ids, Payloads, Contents, Externals, Listed
  <2> QED BY <1>1, <1>3, <2>1, <2>2, <2>3 DEF JobTyped
<1>5. ~concurrent => JobExact(k)'
  <2> SUFFICES ASSUME ~concurrent PROVE JobExact(k)'
    OBVIOUS
  <2>1. JobExact(k)
    BY <1>1 DEF AcceleventsInductive, Orderly
  <2>2. \A s : Payload(k, s)' = Payload(k, s)
    BY <1>3, PayloadStays
  <2>3. ASSUME NEW s \in syncJob'[k].selected \ syncJob'[k].left
        PROVE  \/ s \in failures'[k]
               \/ mirror[s] # NoLink /\ mirror[s].fingerprint = Payload(k, s)
    <3>1. CASE s = r
      BY <2>1, <3>1 DEF JobExact, Unchanged
    <3>2. CASE s # r
      BY <1>3, <2>1, <2>3, <3>2 DEF JobExact
    <3> QED BY <3>1, <3>2
  <2>4. (syncJob'[k].selected \ syncJob'[k].left) \cap Talks # {} => syncJob'[k].left \cap Guests = {}
    BY <1>3, <2>1 DEF JobExact, Ready, InOrder
  <2> QED BY <1>3, <2>1, <2>2, <2>3, <2>4 DEF JobExact, NoLink
<1> QED BY <1>1, <1>2, <1>4, <1>5, JobStep

\* As long as no runs overlap, nobody links while a job is between two records, and
\* else nobody but the one job.
LEMMA LinksAlone ==
  ASSUME AcceleventsInductive, NEW k \in Jobs, Runs(k), ~concurrent
  PROVE  /\ JobExact(k) /\ MirrorTrue /\ NothingStray
         /\ \A o \in Jobs : syncJob[o].at = "link" => o = k
<1>1. Orderly
  BY DEF AcceleventsInductive
<1>2. \A o \in Jobs : syncJob[o].at = "link" => Runs(o)
  BY DEF Runs
<1> QED BY <1>1, <1>2 DEF Orderly

\* What a request that is carried out leaves.
LEMMA CarriesOutWrites ==
  ASSUME AcceleventsInductive, NEW k \in Jobs, NEW r \in Listed, NEW x \in Externals,
         CarriesOut(k, r, x)
  PROVE  /\ Runs(k) /\ syncJob[k] \in NextJobs /\ syncJob[k].at = "next" /\ r \in syncJob[k].left
         /\ external'[x].of = {r} /\ external'[x].holds = Payload(k, r)
         /\ external' = [y \in Externals |-> external'[y]]
         /\ \A y \in Externals : y # x => external'[y] = external[y]
         /\ \A y \in Externals : external'[y].of \in {{s} : s \in Listed} \cup {{}}
         /\ \A y \in Externals : external'[y] = NoExternal <=> external'[y].of = {}
         /\ IF syncJob[k].links[r] = NoLink THEN external[x].of = {}
            ELSE syncJob[k].links[r].id = {x} /\ external[x].of = {r}
         /\ OfsStay
<1>1. /\ Runs(k) /\ syncJob[k] \in NextJobs /\ syncJob[k].at = "next" /\ r \in syncJob[k].left
      /\ LeadsTo(syncJob[k].links) /\ AcceleventsTyped
  BY JobsAtWork DEF CarriesOut, Ready
<1>2. PICK e : e = [of |-> {r}, holds |-> Payload(k, r)]
  OBVIOUS
<1>3. e.of = {r} /\ e.holds = Payload(k, r) /\ e # NoExternal /\ e.of # {}
  BY <1>2 DEF NoExternal
<1>4. external' = [external EXCEPT ![x] = e]
  BY <1>2 DEF CarriesOut
<1>5. /\ external'[x] = e /\ external' = [y \in Externals |-> external'[y]]
      /\ \A y \in Externals : y # x => external'[y] = external[y]
  BY <1>1, <1>4 DEF AcceleventsTyped
<1>6. IF syncJob[k].links[r] = NoLink THEN external[x].of = {}
      ELSE syncJob[k].links[r].id = {x} /\ external[x].of = {r}
  <2>1. CASE syncJob[k].links[r] = NoLink
    BY <2>1 DEF CarriesOut, IsNext, Free, NoExternal
  <2>2. CASE syncJob[k].links[r] # NoLink
    BY <1>1, <2>2 DEF CarriesOut, LeadsTo
  <2> QED BY <2>1, <2>2
<1>7. OfsStay
  BY <1>3, <1>5, <1>6 DEF OfsStay
<1>8. \A y \in Externals : external'[y].of \in {{s} : s \in Listed} \cup {{}}
  BY <1>1, <1>3, <1>5 DEF AcceleventsTyped, AcceleventsTypeOK
<1>9. \A y \in Externals : external'[y] = NoExternal <=> external'[y].of = {}
  BY <1>1, <1>3, <1>5 DEF AcceleventsTyped
<1> QED BY <1>1, <1>3, <1>5, <1>6, <1>7, <1>8, <1>9

\* If its answer is lost, the record is one that strayed or is unconfirmed.
LEMMA LosesAnAnswer ==
  ASSUME AcceleventsInductive, NEW k \in Jobs, NEW r \in Listed, NEW x \in Externals,
         CarriesOut(k, r, x), Loses(k, r), mirror' = mirror, ~concurrent,
         \A o \in Jobs : syncJob'[o].at # "link"
  PROVE  MirrorTrue' /\ NothingStray'
<1>1. /\ Runs(k) /\ syncJob[k].at = "next"
      /\ external'[x].of = {r} /\ external'[x].holds = Payload(k, r)
      /\ \A y \in Externals : y # x => external'[y] = external[y]
      /\ IF syncJob[k].links[r] = NoLink THEN external[x].of = {}
         ELSE syncJob[k].links[r].id = {x} /\ external[x].of = {r}
  BY CarriesOutWrites
<1>2. /\ syncJob[k].links = mirror /\ MirrorTrue /\ NothingStray
      /\ \A o \in Jobs : syncJob[o].at # "link"
  BY <1>1, LinksAlone DEF JobExact
<1>3. /\ strayed \subseteq strayed' /\ unconfirmed \subseteq unconfirmed'
      /\ IF mirror[r] = NoLink THEN r \in strayed' ELSE r \in unconfirmed'
  BY <1>2 DEF Loses
<1>4. ASSUME NEW s \in Listed, NEW y \in Externals, mirror[s].id = {y}
      PROVE  s \in unconfirmed' \/ external'[y].holds = mirror[s].fingerprint
  <2>1. external[y].of = {s}
    BY <1>4 DEF AcceleventsInductive, LeadsTo
  <2>2. CASE y = x
    <3>1. s = r /\ mirror[r] # NoLink
      BY <1>1, <1>2, <2>1, <2>2
    <3> QED BY <1>3, <3>1
  <2>3. CASE y # x
    BY <1>1, <1>2, <1>3, <1>4, <2>3 DEF MirrorTrue, BeingSent
  <2> QED BY <2>2, <2>3
<1>5. ASSUME NEW s \in Listed \ strayed', NEW y \in Externals, external'[y].of = {s}
      PROVE  mirror[s].id = {y}
  <2>1. CASE y = x
    BY <1>1, <1>2, <1>3, <1>5, <2>1
  <2>2. CASE y # x
    BY <1>1, <1>2, <1>3, <1>5, <2>2 DEF NothingStray, Linking
  <2> QED BY <2>1, <2>2
<1> QED BY <1>4, <1>5 DEF MirrorTrue, NothingStray, Listed, Externals

\* The tables are typed as they were.
LEMMA ExternalTyped ==
  ASSUME AcceleventsInductive, UNCHANGED <<content, mirror, concurrent>>,
         external' = [y \in Externals |-> external'[y]],
         \A y \in Externals : external'[y].of \in {{s} : s \in Listed} \cup {{}},
         \A y \in Externals : external'[y] = NoExternal <=> external'[y].of = {},
         OfsStay, syncJob' = [o \in Jobs |-> syncJob'[o]],
         failures' \in [Jobs -> SUBSET Listed],
         strayed' \subseteq Listed, unconfirmed' \subseteq Listed, mishaps' \in 0..MaxMishaps
  PROVE  AcceleventsTyped' /\ LeadsTo(mirror)'
<1>1. AcceleventsTyped'
  BY DEF AcceleventsInductive, AcceleventsTyped, AcceleventsTypeOK, Externals, Listed, MirrorLinks,
         NoLink, NoExternal, Ids, Payloads, Contents
<1>2. PICK to : to = mirror
  OBVIOUS
<1>3. LeadsTo(to)'
  BY <1>2, LeadsToStill DEF AcceleventsInductive
<1>4. mirror' = to
  BY <1>2
<1> QED BY <1>1, <1>3, <1>4

\* What the histories and the counter may become.
LEMMA HistoriesTyped ==
  ASSUME AcceleventsInductive
  PROVE  /\ failures \in [Jobs -> SUBSET Listed] /\ syncJob = [o \in Jobs |-> syncJob[o]]
         /\ strayed \subseteq Listed /\ unconfirmed \subseteq Listed /\ mishaps \in 0..MaxMishaps
         /\ Mishap => mishaps' \in 0..MaxMishaps
         /\ \A k \in Jobs, r \in Listed : Loses(k, r) =>
              strayed' \subseteq Listed /\ unconfirmed' \subseteq Listed
         /\ external = [y \in Externals |-> external[y]]
         /\ \A y \in Externals : external[y].of \in {{s} : s \in Listed} \cup {{}}
         /\ \A y \in Externals : external[y] = NoExternal <=> external[y].of = {}
BY AcceleventsAssumption DEF AcceleventsInductive, AcceleventsTyped, AcceleventsTypeOK, Mishap, Loses

\* A run validates its records, or ends when one of them cannot be sent.
LEMMA ValidationKeeps ==
  ASSUME AcceleventsInductive, NEW k \in Jobs, NEW r \in Listed,
         FailValidation(k, r) \/ SkipRecord(k, r)
  PROVE  AcceleventsInductive'
<1>1. /\ Ready(k, r) /\ syncJob' = [syncJob EXCEPT ![k].left = @ \ {r}]
      /\ UNCHANGED <<content, external, mirror, mishaps, strayed, unconfirmed, concurrent>>
      /\ failures' \in [Jobs -> SUBSET Listed] /\ failures[k] \subseteq failures'[k]
      /\ r \in failures'[k] \/ Unchanged(k, r)
      /\ syncJob' = [o \in Jobs |-> syncJob'[o]]
  BY HistoriesTyped DEF FailValidation, SkipRecord
<1>2. /\ Runs(k) /\ syncJob[k] \in NextJobs
  BY <1>1, JobsAtWork DEF Ready
<1>3. OfsStay
  BY <1>1 DEF OfsStay
<1>4. AcceleventsTyped' /\ LeadsTo(mirror)'
  BY <1>1, <1>3, HistoriesTyped, ExternalTyped
<1>5. ASSUME ~concurrent PROVE MirrorTrue' /\ NothingStray'
  <2>1. \A o \in Jobs : syncJob[o].at # "link"
    BY <1>1, <1>2, <1>5, LinksAlone DEF Ready
  <2>2. \A o \in Jobs : syncJob'[o].at # "link"
    BY <1>1, <1>2, <2>1 DEF NextJobs
  <2>3. MirrorTrue /\ NothingStray
    BY <1>2, <1>5, LinksAlone
  <2> QED BY <1>1, <2>1, <2>2, <2>3 DEF MirrorTrue, NothingStray, BeingSent, Linking, Listed, Externals
<1> QED BY <1>1, <1>3, <1>4, <1>5, TakeOffKeeps

\* A record is sent for the first time, or to the identity its link names.
LEMMA SendKeeps ==
  ASSUME AcceleventsInductive, NEW k \in Jobs, NEW r \in Listed, NEW x \in Externals, Send(k, r, x)
  PROVE  AcceleventsInductive'
<1>1. /\ Runs(k) /\ syncJob[k] \in NextJobs /\ syncJob[k].at = "next" /\ r \in syncJob[k].left
      /\ external'[x].of = {r} /\ external'[x].holds = Payload(k, r)
      /\ external' = [y \in Externals |-> external'[y]]
      /\ \A y \in Externals : y # x => external'[y] = external[y]
      /\ \A y \in Externals : external'[y].of \in {{s} : s \in Listed} \cup {{}}
      /\ \A y \in Externals : external'[y] = NoExternal <=> external'[y].of = {}
      /\ IF syncJob[k].links[r] = NoLink THEN external[x].of = {}
         ELSE syncJob[k].links[r].id = {x} /\ external[x].of = {r}
      /\ OfsStay
  BY CarriesOutWrites DEF Send
<1>2. PICK j : j = [at |-> "link", canonical |-> syncJob[k].canonical,
                    selected |-> syncJob[k].selected, left |-> syncJob[k].left,
                    links |-> syncJob[k].links, record |-> r, id |-> {x}]
  OBVIOUS
<1>3. /\ syncJob' = [syncJob EXCEPT ![k] = j] /\ syncJob' = [o \in Jobs |-> syncJob'[o]]
      /\ syncJob'[k] = j /\ \A o \in Jobs : o # k => syncJob'[o] = syncJob[o]
      /\ UNCHANGED <<content, mirror, failures, mishaps, strayed, unconfirmed, concurrent>>
  BY <1>2, HistoriesTyped DEF Send
<1>4. AcceleventsTyped' /\ LeadsTo(mirror)'
  BY <1>1, <1>3, HistoriesTyped, ExternalTyped
<1>5. /\ j.at = "link" /\ j.canonical = syncJob[k].canonical /\ j.selected = syncJob[k].selected
      /\ j.left = syncJob[k].left /\ j.links = syncJob[k].links /\ j.record = r /\ j.id = {x}
  BY <1>2
<1>6. JobTyped(k)'
  <2>1. j \in LinkJobs
    BY <1>1, <1>2 DEF NextJobs, LinkJobs, Ids
  <2>2. PICK to : to = syncJob[k].links
    OBVIOUS
  <2>3. LeadsTo(to)'
    BY <1>1, <2>2, JobsAtWork, LeadsToStill
  <2>4. LinkJobs' = LinkJobs /\ Externals' = Externals
    BY DEF LinkJobs, MirrorLinks, NoLink, Ids, Payloads, Contents, Externals, Listed
  <2>5. syncJob[k].left \subseteq syncJob[k].selected
    BY <1>1, JobsAtWork
  <2>6. \A y \in Externals : j.id = {y} => external'[y].of = {r}
    BY <1>1, <1>5
  <2> QED BY <1>1, <1>3, <1>5, <2>1, <2>2, <2>3, <2>4, <2>5, <2>6 DEF JobTyped
<1>7. ASSUME ~concurrent PROVE JobExact(k)' /\ MirrorTrue' /\ NothingStray'
  <2>1. /\ JobExact(k) /\ MirrorTrue /\ NothingStray
        /\ \A o \in Jobs : syncJob[o].at # "link"
    BY <1>1, <1>7, LinksAlone
  <2>2. \A s : Payload(k, s)' = Payload(k, s)
    BY <1>3, <1>5, PayloadStays
  <2>3. r \in Talks => syncJob[k].left \cap Guests = {}
    BY DEF Send, CarriesOut, Ready, InOrder
  <2>4. mirror[r] = NoLink \/ mirror[r].id = {x}
    BY <1>1, <2>1 DEF JobExact
  <2>5. JobExact(k)'
    <3>1. \A y \in Externals : {x} = {y} => external'[y].holds = Payload(k, r)
      BY <1>1
    <3>2. syncJob'[k].links = mirror'
      BY <1>3, <1>5, <2>1 DEF JobExact
    <3>3. ASSUME NEW s \in syncJob'[k].selected \ syncJob'[k].left
          PROVE  s \in failures'[k] \/ (mirror'[s] # NoLink /\ mirror'[s].fingerprint = Payload(k, s)')
      BY <1>3, <1>5, <2>1, <2>2 DEF JobExact
    <3>4. (syncJob'[k].selected \ syncJob'[k].left) \cap Talks # {} => syncJob'[k].left \cap Guests = {}
      BY <1>3, <1>5, <2>1 DEF JobExact
    <3>5. /\ syncJob'[k].record \in Talks => syncJob'[k].left \cap Guests = {}
          /\ mirror'[syncJob'[k].record] = NoLink \/ mirror'[syncJob'[k].record].id = syncJob'[k].id
      BY <1>3, <1>5, <2>3, <2>4
    <3>6. syncJob'[k].record = r /\ syncJob'[k].id = {x}
      BY <1>3, <1>5
    <3>7. Payload(k, syncJob[k].record)' = Payload(k, r)
      BY <2>2, <3>6 DEF Payload
    <3>8. NoLink' = NoLink /\ Externals' = Externals
      BY DEF NoLink, Externals
    <3> QED BY <3>1, <3>2, <3>3, <3>4, <3>5, <3>6, <3>7, <3>8 DEF JobExact
  <2>6. BeingSent(r)' /\ Linking(r, x)'
    BY <1>3, <1>5 DEF BeingSent, Linking
  <2>7. MirrorTrue'
    <3> SUFFICES ASSUME NEW s \in Listed, NEW y \in Externals, mirror[s].id = {y}
                 PROVE  BeingSent(s)' \/ s \in unconfirmed \/ external'[y].holds = mirror[s].fingerprint
      BY <1>3 DEF MirrorTrue, Listed, Externals
    <3>1. external[y].of = {s}
      BY DEF AcceleventsInductive, LeadsTo
    <3>2. CASE y = x
      <4>1. s = r
        BY <1>1, <3>1, <3>2
      <4> QED BY <2>6, <4>1
    <3>3. CASE y # x
      BY <1>1, <2>1, <3>3 DEF MirrorTrue, BeingSent
    <3> QED BY <3>2, <3>3
  <2>8. NothingStray'
    <3> SUFFICES ASSUME NEW s \in Listed \ strayed, NEW y \in Externals, external'[y].of = {s}
                 PROVE  mirror[s].id = {y} \/ Linking(s, y)'
      BY <1>3 DEF NothingStray, Listed, Externals
    <3>1. CASE y = x
      <4>1. s = r
        BY <1>1, <3>1
      <4> QED BY <2>6, <3>1, <4>1
    <3>2. CASE y # x
      BY <1>1, <2>1, <3>2 DEF NothingStray, Linking
    <3> QED BY <3>1, <3>2
  <2> QED BY <2>5, <2>7, <2>8
<1> QED BY <1>1, <1>3, <1>4, <1>6, <1>7, JobStep

\* A record whose write was lost is sent again.
LEMMA SendAgainKeeps ==
  ASSUME AcceleventsInductive, NEW k \in Jobs, NEW r \in Listed, NEW x \in Externals,
         SendAgain(k, r, x)
  PROVE  AcceleventsInductive'
<1>1. /\ Runs(k) /\ syncJob[k] \in NextJobs /\ syncJob[k].at = "next"
      /\ external' = [y \in Externals |-> external'[y]]
      /\ \A y \in Externals : external'[y].of \in {{s} : s \in Listed} \cup {{}}
      /\ \A y \in Externals : external'[y] = NoExternal <=> external'[y].of = {}
      /\ OfsStay
  BY CarriesOutWrites DEF SendAgain
<1>2. /\ UNCHANGED <<content, mirror, syncJob, failures, concurrent>> /\ Loses(k, r)
      /\ CarriesOut(k, r, x) /\ mishaps' \in 0..MaxMishaps
      /\ strayed' \subseteq Listed /\ unconfirmed' \subseteq Listed
  BY HistoriesTyped DEF SendAgain
<1>3. AcceleventsTyped' /\ LeadsTo(mirror)'
  BY <1>1, <1>2, HistoriesTyped, ExternalTyped
<1>4. JobTyped(k)'
  BY <1>1, <1>2, JobTypedStill DEF AcceleventsInductive
<1>5. ASSUME ~concurrent PROVE JobExact(k)' /\ MirrorTrue' /\ NothingStray'
  <2>1. JobExact(k) /\ \A o \in Jobs : syncJob'[o].at # "link"
    BY <1>1, <1>2, <1>5, LinksAlone
  <2>2. \A s : Payload(k, s)' = Payload(k, s)
    BY <1>2, PayloadStays
  <2>3. JobExact(k)'
    BY <1>1, <1>2, <2>1, <2>2 DEF JobExact, NoLink
  <2> QED BY <1>2, <1>5, <2>1, <2>3, LosesAnAnswer
<1> QED BY <1>1, <1>2, <1>3, <1>4, <1>5, JobStep

\* A run ends because Accelevents refuses a record or the connection breaks.
LEMMA SendingFailsKeeps ==
  ASSUME AcceleventsInductive, NEW k \in Jobs, NEW r \in Listed, SendingFails(k, r)
  PROVE  AcceleventsInductive'
<1>1. /\ Ready(k, r) /\ syncJob' = [syncJob EXCEPT ![k].left = @ \ {r}]
      /\ UNCHANGED <<content, mirror, concurrent>> /\ mishaps' \in 0..MaxMishaps
      /\ failures' \in [Jobs -> SUBSET Listed] /\ failures[k] \subseteq failures'[k]
      /\ r \in failures'[k] /\ syncJob' = [o \in Jobs |-> syncJob'[o]]
  BY HistoriesTyped DEF SendingFails
<1>2. Runs(k) /\ syncJob[k] \in NextJobs /\ syncJob[k].at = "next"
  BY <1>1, JobsAtWork DEF Ready
<1>3. ~concurrent => \A o \in Jobs : syncJob[o].at # "link" /\ syncJob'[o].at # "link"
  BY <1>1, <1>2, LinksAlone DEF NextJobs
<1>4. CASE UNCHANGED <<external, strayed, unconfirmed>>
  <2>1. OfsStay
    BY <1>4 DEF OfsStay
  <2>2. AcceleventsTyped' /\ LeadsTo(mirror)'
    BY <1>1, <1>4, <2>1, HistoriesTyped, ExternalTyped
  <2>3. ASSUME ~concurrent PROVE MirrorTrue' /\ NothingStray'
    <3>1. MirrorTrue /\ NothingStray
      BY <1>2, <2>3, LinksAlone
    <3> QED BY <1>1, <1>3, <1>4, <2>3, <3>1
            DEF MirrorTrue, NothingStray, BeingSent, Linking, Listed, Externals
  <2> QED BY <1>1, <2>1, <2>2, <2>3, TakeOffKeeps
<1>5. CASE Loses(k, r) /\ \E x \in Externals : CarriesOut(k, r, x)
  <2>1. PICK x \in Externals : CarriesOut(k, r, x)
    BY <1>5
  <2>2. /\ external' = [y \in Externals |-> external'[y]] /\ OfsStay
        /\ \A y \in Externals : external'[y].of \in {{s} : s \in Listed} \cup {{}}
        /\ \A y \in Externals : external'[y] = NoExternal <=> external'[y].of = {}
    BY <2>1, CarriesOutWrites
  <2>3. strayed' \subseteq Listed /\ unconfirmed' \subseteq Listed
    BY <1>5, HistoriesTyped
  <2>4. AcceleventsTyped' /\ LeadsTo(mirror)'
    BY <1>1, <2>2, <2>3, ExternalTyped
  <2>5. ~concurrent => MirrorTrue' /\ NothingStray'
    BY <1>1, <1>3, <1>5, <2>1, LosesAnAnswer
  <2> QED BY <1>1, <2>2, <2>4, <2>5, TakeOffKeeps
<1> QED BY <1>4, <1>5 DEF SendingFails

\* What a job that is linking a record has in hand.
LEMMA LinkInHand ==
  ASSUME AcceleventsInductive, NEW k \in Jobs, syncJob[k].at = "link"
  PROVE  /\ Runs(k) /\ syncJob[k] \in LinkJobs /\ syncJob[k].record \in syncJob[k].left
         /\ syncJob[k].record \in Listed
         /\ syncJob[k].left \subseteq syncJob[k].selected /\ syncJob[k].selected \subseteq Listed
         /\ \E x \in Externals : /\ syncJob[k].id = {x}
                                 /\ external[x].of = {syncJob[k].record}
<1>1. /\ Runs(k) /\ syncJob[k] \in LinkJobs /\ syncJob[k].left \subseteq syncJob[k].selected
      /\ syncJob[k].selected \subseteq Listed
  BY JobsAtWork DEF Runs
<1>2. syncJob[k].record \in Listed /\ syncJob[k].id \in Ids
  BY <1>1 DEF LinkJobs
<1>3. /\ syncJob[k].record \in syncJob[k].left
      /\ \A x \in Externals : syncJob[k].id = {x} => external[x].of = {syncJob[k].record}
  <2>1. NotBegun.at # "link" /\ Over.at # "link"
    BY DEF NotBegun, Over
  <2> QED BY <2>1 DEF AcceleventsInductive, JobTyped
<1> QED BY <1>1, <1>2, <1>3 DEF Ids

\* The job goes on with links that lead to what is there.
LEMMA AdvancedTyped ==
  ASSUME AcceleventsInductive, NEW k \in Jobs, syncJob[k].at = "link",
         NEW to \in [Listed -> MirrorLinks], LeadsTo(to), OfsStay,
         syncJob' = [syncJob EXCEPT ![k] = Advanced(k, to)]
  PROVE  /\ JobTyped(k)' /\ syncJob' = [o \in Jobs |-> syncJob'[o]]
         /\ syncJob'[k].at = "next" /\ syncJob'[k].canonical = syncJob[k].canonical
         /\ syncJob'[k].selected = syncJob[k].selected /\ syncJob'[k].links = to
         /\ syncJob'[k].left = syncJob[k].left \ {syncJob[k].record}
         /\ \A o \in Jobs : o # k => syncJob'[o] = syncJob[o]
<1>1. PICK j : j = Advanced(k, to)
  OBVIOUS
<1>2. /\ j.at = "next" /\ j.canonical = syncJob[k].canonical /\ j.selected = syncJob[k].selected
      /\ j.left = syncJob[k].left \ {syncJob[k].record} /\ j.links = to
  BY <1>1 DEF Advanced
<1>3. syncJob[k] \in LinkJobs /\ syncJob[k].left \subseteq syncJob[k].selected
  BY LinkInHand
<1>4. j \in NextJobs
  BY <1>1, <1>3 DEF Advanced, NextJobs, LinkJobs
<1>5. /\ syncJob'[k] = j /\ syncJob' = [o \in Jobs |-> syncJob'[o]]
      /\ \A o \in Jobs : o # k => syncJob'[o] = syncJob[o]
  BY <1>1, HistoriesTyped
<1>6. NextJobs' = NextJobs
  BY DEF NextJobs, MirrorLinks, NoLink, Ids, Payloads, Contents, Externals, Listed
<1>7. LeadsTo(to)'
  BY LeadsToStill
<1>8. LeadsTo(syncJob[k].links)'
  BY <1>2, <1>5, <1>7
<1>9. JobTyped(k)'
  BY <1>2, <1>3, <1>4, <1>5, <1>6, <1>8 DEF JobTyped
<1> QED BY <1>2, <1>5, <1>9

\* A run writes the link of what it sent, whether the record is then marked or not.
LEMMA UpsertLinkKeeps ==
  ASSUME AcceleventsInductive, NEW k \in Jobs, WriteLink(k) \/ LinkedButFailed(k)
  PROVE  AcceleventsInductive'
<1>1. PICK r : r = syncJob[k].record
  OBVIOUS
<1>2. /\ syncJob[k].at = "link" /\ UpsertLink(k)
      /\ failures' \in [Jobs -> SUBSET Listed] /\ mishaps' \in 0..MaxMishaps
      /\ failures[k] \subseteq failures'[k]
  <2>1. syncJob[k].at = "link" /\ UpsertLink(k)
    BY DEF WriteLink, LinkedButFailed, UpsertLink
  <2>2. CASE WriteLink(k)
    BY <2>1, <2>2, HistoriesTyped DEF WriteLink
  <2>3. CASE LinkedButFailed(k)
    <3>1. syncJob[k].record \in Listed
      BY <2>1, LinkInHand
    <3> QED BY <2>1, <2>3, <3>1, HistoriesTyped DEF LinkedButFailed, LinkFailure
  <2> QED BY <2>2, <2>3, <2>1
<1>3. /\ Runs(k) /\ syncJob[k] \in LinkJobs /\ r \in syncJob[k].left /\ r \in Listed
      /\ syncJob[k].left \subseteq syncJob[k].selected /\ syncJob[k].selected \subseteq Listed
      /\ syncJob[k].links \in [Listed -> MirrorLinks] /\ LeadsTo(syncJob[k].links)
      /\ mirror \in [Listed -> MirrorLinks] /\ LeadsTo(mirror)
  BY <1>1, <1>2, LinkInHand, JobsAtWork DEF AcceleventsInductive, AcceleventsTyped
<1>4. PICK x \in Externals : syncJob[k].id = {x} /\ external[x].of = {r}
  BY <1>1, <1>2, LinkInHand
<1>5. PICK made : made = [id |-> {x}, fingerprint |-> Payload(k, r)]
  OBVIOUS
<1>6. made.id = {x} /\ made.fingerprint = Payload(k, r) /\ made \in MirrorLinks /\ made # NoLink
  <2>1. Payload(k, r) \in Payloads /\ {x} \in Ids
    BY <1>3, PayloadTyped DEF Ids
  <2> QED BY <1>5, <2>1 DEF MirrorLinks, NoLink
<1>7. /\ mirror' = [mirror EXCEPT ![r] = made] /\ unconfirmed' = unconfirmed \ {r}
      /\ syncJob' = [syncJob EXCEPT ![k] = Advanced(k, [syncJob[k].links EXCEPT ![r] = made])]
      /\ UNCHANGED <<content, external, strayed, concurrent>>
  BY <1>1, <1>2, <1>4, <1>5 DEF UpsertLink, Fingerprint
<1>8. PICK to : to = [syncJob[k].links EXCEPT ![r] = made]
  OBVIOUS
<1>9. /\ to \in [Listed -> MirrorLinks] /\ to[r] = made
      /\ \A s \in Listed : s # r => to[s] = syncJob[k].links[s]
      /\ mirror' \in [Listed -> MirrorLinks] /\ mirror'[r] = made
      /\ \A s \in Listed : s # r => mirror'[s] = mirror[s]
  BY <1>3, <1>6, <1>7, <1>8
<1>10. OfsStay
  BY <1>7 DEF OfsStay
<1>11. LeadsTo(to)
  BY ZenonT(90), <1>3, <1>4, <1>6, <1>9 DEF LeadsTo
<1>12. LeadsTo(mirror)'
  <2> SUFFICES ASSUME NEW s \in Listed, NEW y \in Externals, mirror'[s].id = {y}
               PROVE  external[y].of = {s}
    BY <1>7 DEF LeadsTo, Listed, Externals
  <2>1. CASE s = r
    BY <1>4, <1>6, <1>9, <2>1
  <2>2. CASE s # r
    BY <1>3, <1>9, <2>2 DEF LeadsTo
  <2> QED BY <2>1, <2>2
<1>13. /\ JobTyped(k)' /\ syncJob' = [o \in Jobs |-> syncJob'[o]]
       /\ syncJob'[k].at = "next" /\ syncJob'[k].canonical = syncJob[k].canonical
       /\ syncJob'[k].selected = syncJob[k].selected /\ syncJob'[k].links = to
       /\ syncJob'[k].left = syncJob[k].left \ {r}
       /\ \A o \in Jobs : o # k => syncJob'[o] = syncJob[o]
  BY <1>1, <1>2, <1>7, <1>8, <1>9, <1>10, <1>11, AdvancedTyped
<1>14. AcceleventsTyped'
  <2>1. unconfirmed' \subseteq Listed
    BY <1>7, HistoriesTyped
  <2>2. mirror' \in [Listed -> MirrorLinks]'
    BY <1>9 DEF MirrorLinks, NoLink, Ids, Payloads, Contents, Externals, Listed
  <2> QED BY <1>2, <1>7, <1>13, <2>1, <2>2
          DEF AcceleventsInductive, AcceleventsTyped, AcceleventsTypeOK, Externals, Listed, NoExternal
<1>15. ASSUME ~concurrent PROVE JobExact(k)' /\ MirrorTrue' /\ NothingStray'
  <2>1. /\ JobExact(k) /\ MirrorTrue /\ NothingStray
        /\ \A o \in Jobs : syncJob[o].at = "link" => o = k
    BY <1>3, <1>15, LinksAlone
  <2>2. /\ syncJob[k].links = mirror /\ to = mirror'
        /\ r \in Talks => syncJob[k].left \cap Guests = {}
        /\ mirror[r] = NoLink \/ mirror[r].id = {x}
        /\ external[x].holds = Payload(k, r)
    BY <1>1, <1>2, <1>4, <1>7, <1>8, <2>1 DEF JobExact
  <2>3. Payload(k, r)' = Payload(k, r)
    <3>1. CASE r \in Talks
      <4>1. \A g \in Guests : g # r /\ g \in Listed
        BY <3>1, AcceleventsAssumption DEF Listed
      <4>2. {syncJob'[k].links[g].id : g \in Guests} = {syncJob[k].links[g].id : g \in Guests}
        BY <1>9, <1>13, <4>1
      <4> QED BY <1>13, <4>2 DEF Payload
    <3>2. CASE r \notin Talks
      BY <1>13, <3>2 DEF Payload
    <3> QED BY <3>1, <3>2
  <2>4. ASSUME NEW s \in syncJob[k].selected \ syncJob[k].left
        PROVE  Payload(k, s)' = Payload(k, s)
    <3>1. CASE s \in Talks
      <4>1. r \notin Guests
        BY <1>3, <2>1, <2>4, <3>1 DEF JobExact
      <4>2. \A g \in Guests : g # r /\ g \in Listed
        BY <4>1 DEF Listed
      <4>3. {syncJob'[k].links[g].id : g \in Guests} = {syncJob[k].links[g].id : g \in Guests}
        BY <1>9, <1>13, <4>2
      <4> QED BY <1>13, <4>3 DEF Payload
    <3>2. CASE s \notin Talks
      BY <1>13, <3>2 DEF Payload
    <3> QED BY <3>1, <3>2
  <2>5. ASSUME NEW s \in syncJob'[k].selected \ syncJob'[k].left
        PROVE  s \in failures'[k] \/ (mirror'[s] # NoLink /\ mirror'[s].fingerprint = Payload(k, s)')
    <3>1. CASE s = r
      <4>1. Payload(k, s)' = Payload(k, r)
        BY <2>3, <3>1 DEF Payload
      <4> QED BY <1>6, <1>9, <3>1, <4>1
    <3>2. CASE s # r
      <4>1. s \in syncJob[k].selected \ syncJob[k].left
        BY <1>13, <2>5, <3>2
      <4> QED BY <1>2, <1>3, <1>7, <1>9, <2>1, <2>4, <3>2, <4>1 DEF JobExact
    <3> QED BY <3>1, <3>2
  <2>6. (syncJob'[k].selected \ syncJob'[k].left) \cap Talks # {} => syncJob'[k].left \cap Guests = {}
    BY <1>13, <2>1, <2>2 DEF JobExact
  <2>7. NoLink' = NoLink
    BY DEF NoLink
  <2>8. JobExact(k)'
    BY <1>13, <2>2, <2>5, <2>6, <2>7 DEF JobExact
  <2>9. \A s \in Listed : \A y : syncJob[k].at = "link" /\ s # r => ~BeingSent(s) /\ ~Linking(s, y)
    BY <1>1, <2>1 DEF BeingSent, Linking
  <2>10. MirrorTrue'
    <3> SUFFICES ASSUME NEW s \in Listed, NEW y \in Externals, mirror'[s].id = {y}
                 PROVE  s \in unconfirmed' \/ external[y].holds = mirror'[s].fingerprint
      BY <1>7 DEF MirrorTrue, Listed, Externals
    <3>1. CASE s = r
      BY <1>6, <1>9, <2>2, <3>1
    <3>2. CASE s # r
      BY <1>2, <1>7, <1>9, <2>1, <2>9, <3>2 DEF MirrorTrue
    <3> QED BY <3>1, <3>2
  <2>11. NothingStray'
    <3> SUFFICES ASSUME NEW s \in Listed \ strayed, NEW y \in Externals, external[y].of = {s}
                 PROVE  mirror'[s].id = {y}
      BY <1>7 DEF NothingStray, Listed, Externals
    <3>1. mirror[s].id = {y} \/ Linking(s, y)
      BY <2>1 DEF NothingStray
    <3>2. CASE s # r
      BY <1>2, <1>9, <2>9, <3>1, <3>2
    <3>3. CASE s = r /\ Linking(s, y)
      BY <1>4, <1>6, <1>9, <2>1, <3>3 DEF Linking
    <3>4. CASE s = r /\ mirror[s].id = {y}
      BY <1>6, <1>9, <2>2, <3>4 DEF NoLink
    <3> QED BY <3>1, <3>2, <3>3, <3>4
  <2> QED BY <2>8, <2>10, <2>11
<1> QED BY <1>3, <1>7, <1>10, <1>12, <1>13, <1>14, <1>15, JobStep

\* If the link is lost, the record is one that strayed or is unconfirmed.
LEMMA LosesALink ==
  ASSUME AcceleventsInductive, NEW k \in Jobs, syncJob[k].at = "link",
         Loses(k, syncJob[k].record), UNCHANGED <<external, mirror>>, ~concurrent
  PROVE  MirrorTrue' /\ NothingStray'
<1>1. PICK r : r = syncJob[k].record
  OBVIOUS
<1>2. /\ JobExact(k) /\ MirrorTrue /\ NothingStray
      /\ \A o \in Jobs : syncJob[o].at = "link" => o = k
  BY LinksAlone, LinkInHand
<1>3. /\ syncJob[k].links = mirror /\ (mirror[r] = NoLink \/ mirror[r].id = syncJob[k].id)
      /\ r \in Listed
  BY <1>1, <1>2, LinkInHand DEF JobExact
<1>4. /\ strayed \subseteq strayed' /\ unconfirmed \subseteq unconfirmed'
      /\ IF syncJob[k].links[r] = NoLink THEN r \in strayed' ELSE r \in unconfirmed'
  BY <1>1 DEF Loses
<1>5. syncJob[k].links = mirror
  BY <1>2 DEF JobExact
<1>6. ASSUME NEW s \in Listed, NEW y \in Externals, mirror[s].id = {y}
      PROVE  s \in unconfirmed' \/ external[y].holds = mirror[s].fingerprint
  <2>1. CASE BeingSent(s)
    <3>1. s = r
      BY <1>1, <1>2, <2>1 DEF BeingSent
    <3> QED BY <1>4, <1>5, <1>6, <3>1 DEF NoLink
  <2>2. CASE ~BeingSent(s)
    BY <1>2, <1>4, <1>6, <2>2 DEF MirrorTrue
  <2> QED BY <2>1, <2>2
<1>7. ASSUME NEW s \in Listed \ strayed', NEW y \in Externals, external[y].of = {s}
      PROVE  mirror[s].id = {y}
  <2>1. mirror[s].id = {y} \/ Linking(s, y)
    BY <1>2, <1>4, <1>7 DEF NothingStray
  <2>2. CASE Linking(s, y)
    <3>1. s = r /\ syncJob[k].id = {y}
      BY <1>1, <1>2, <2>2 DEF Linking
    <3>2. mirror[r] # NoLink
      BY <1>4, <1>5, <1>7, <3>1
    <3>3. mirror[r] = NoLink \/ mirror[r].id = syncJob[k].id
      BY <1>1, <1>2 DEF JobExact
    <3> QED BY <3>1, <3>2, <3>3
  <2> QED BY <2>1, <2>2
<1> QED BY <1>6, <1>7 DEF MirrorTrue, NothingStray, Listed, Externals

\* The link of what was sent is not written.
LEMMA LinkIsLostKeeps ==
  ASSUME AcceleventsInductive, NEW k \in Jobs, LinkIsLost(k) PROVE AcceleventsInductive'
<1>1. PICK r : r = syncJob[k].record
  OBVIOUS
<1>2. /\ syncJob[k].at = "link" /\ Mishap /\ Loses(k, r)
      /\ failures' = [failures EXCEPT ![k] = @ \cup {r}]
      /\ syncJob' = [syncJob EXCEPT ![k] = Advanced(k, syncJob[k].links)]
      /\ UNCHANGED <<content, external, mirror, concurrent>>
  BY <1>1 DEF LinkIsLost, LinkFailure
<1>3. /\ Runs(k) /\ syncJob[k] \in LinkJobs /\ r \in syncJob[k].left /\ r \in Listed
      /\ syncJob[k].left \subseteq syncJob[k].selected /\ syncJob[k].selected \subseteq Listed
      /\ syncJob[k].links \in [Listed -> MirrorLinks] /\ LeadsTo(syncJob[k].links)
  BY <1>1, <1>2, LinkInHand, JobsAtWork
<1>4. OfsStay
  BY <1>2 DEF OfsStay
<1>5. /\ JobTyped(k)' /\ syncJob' = [o \in Jobs |-> syncJob'[o]]
      /\ syncJob'[k].at = "next" /\ syncJob'[k].canonical = syncJob[k].canonical
      /\ syncJob'[k].selected = syncJob[k].selected /\ syncJob'[k].links = syncJob[k].links
      /\ syncJob'[k].left = syncJob[k].left \ {r}
      /\ \A o \in Jobs : o # k => syncJob'[o] = syncJob[o]
  BY <1>1, <1>2, <1>3, <1>4, AdvancedTyped
<1>6. /\ failures' \in [Jobs -> SUBSET Listed] /\ failures'[k] = failures[k] \cup {r}
      /\ strayed' \subseteq Listed /\ unconfirmed' \subseteq Listed /\ mishaps' \in 0..MaxMishaps
  BY <1>2, <1>3, HistoriesTyped
<1>7. AcceleventsTyped' /\ LeadsTo(mirror)'
  <2>1. /\ external' = [y \in Externals |-> external'[y]]
        /\ \A y \in Externals : external'[y].of \in {{s} : s \in Listed} \cup {{}}
        /\ \A y \in Externals : external'[y] = NoExternal <=> external'[y].of = {}
    BY <1>2, HistoriesTyped
  <2> QED BY <1>2, <1>4, <1>5, <1>6, <2>1, ExternalTyped
<1>8. ASSUME ~concurrent PROVE JobExact(k)' /\ MirrorTrue' /\ NothingStray'
  <2>1. JobExact(k)
    BY <1>3, <1>8, LinksAlone
  <2>2. \A s : Payload(k, s)' = Payload(k, s)
    BY <1>5, PayloadStays
  <2>3. ASSUME NEW s \in syncJob'[k].selected \ syncJob'[k].left
        PROVE  s \in failures'[k] \/ (mirror'[s] # NoLink /\ mirror'[s].fingerprint = Payload(k, s)')
    BY <1>2, <1>5, <1>6, <2>1, <2>2 DEF JobExact
  <2>4. (syncJob'[k].selected \ syncJob'[k].left) \cap Talks # {} => syncJob'[k].left \cap Guests = {}
    BY <1>1, <1>2, <1>5, <2>1 DEF JobExact
  <2>5. NoLink' = NoLink /\ syncJob'[k].links = mirror'
    BY <1>2, <1>5, <2>1 DEF NoLink, JobExact
  <2>6. JobExact(k)'
    BY <1>5, <2>3, <2>4, <2>5 DEF JobExact
  <2>7. MirrorTrue' /\ NothingStray'
    BY <1>1, <1>2, <1>8, LosesALink
  <2> QED BY <2>6, <2>7
<1> QED BY <1>2, <1>3, <1>4, <1>5, <1>7, <1>8, JobStep

\* A run ends.
LEMMA RunEndsKeeps ==
  ASSUME AcceleventsInductive, NEW k \in Jobs, CompleteRun(k) \/ CutOffJob(k)
  PROVE  AcceleventsInductive'
<1>1. /\ Runs(k) /\ syncJob' = [syncJob EXCEPT ![k] = Over]
      /\ UNCHANGED <<content, external, mirror, failures, concurrent>>
      /\ mishaps' \in 0..MaxMishaps /\ strayed' \subseteq Listed /\ unconfirmed' \subseteq Listed
  <2>1. CASE CompleteRun(k)
    BY <2>1, HistoriesTyped DEF CompleteRun, EndsRun, Runs
  <2>2. CASE CutOffJob(k)
    <3>1. syncJob[k].at = "link" => syncJob[k].record \in Listed
      BY LinkInHand
    <3>2. /\ Runs(k) /\ Mishap /\ syncJob' = [syncJob EXCEPT ![k] = Over]
          /\ UNCHANGED <<content, external, mirror, failures, concurrent>>
          /\ IF syncJob[k].at = "link" THEN Loses(k, syncJob[k].record) ELSE UNCHANGED <<strayed, unconfirmed>>
      BY <2>2 DEF CutOffJob
    <3> QED BY <3>1, <3>2, HistoriesTyped
  <2> QED BY <2>1, <2>2
<1>2. /\ OfsStay /\ syncJob' = [o \in Jobs |-> syncJob'[o]] /\ syncJob'[k] = Over
      /\ \A o \in Jobs : o # k => syncJob'[o] = syncJob[o]
  BY <1>1, HistoriesTyped DEF OfsStay
<1>3. AcceleventsTyped' /\ LeadsTo(mirror)'
  <2>1. /\ external' = [y \in Externals |-> external'[y]]
        /\ \A y \in Externals : external'[y].of \in {{s} : s \in Listed} \cup {{}}
        /\ \A y \in Externals : external'[y] = NoExternal <=> external'[y].of = {}
        /\ failures' \in [Jobs -> SUBSET Listed]
    BY <1>1, HistoriesTyped
  <2> QED BY <1>1, <1>2, <2>1, ExternalTyped
<1>4. JobTyped(k)' /\ ~Runs(k)'
  BY <1>2 DEF JobTyped, Over, NotBegun, Runs
<1>5. ASSUME ~concurrent PROVE MirrorTrue' /\ NothingStray'
  <2>1. /\ MirrorTrue /\ NothingStray
        /\ \A o \in Jobs : syncJob[o].at = "link" => o = k
    BY <1>1, <1>5, LinksAlone
  <2>2. CASE syncJob[k].at = "link"
    <3>1. Loses(k, syncJob[k].record)
      BY <2>2 DEF CompleteRun, EndsRun, CutOffJob
    <3> QED BY <1>1, <1>5, <2>2, <3>1, LosesALink
  <2>3. CASE syncJob[k].at # "link"
    <3>1. UNCHANGED <<strayed, unconfirmed>>
      BY <2>3 DEF CompleteRun, CutOffJob
    <3>2. \A o \in Jobs : syncJob[o].at # "link" /\ syncJob'[o].at # "link"
      BY <1>2, <2>1, <2>3 DEF Over
    <3> QED BY <1>1, <2>1, <3>1, <3>2 DEF MirrorTrue, NothingStray, BeingSent, Linking, Listed, Externals
  <2> QED BY <2>2, <2>3
<1> QED BY <1>1, <1>2, <1>3, <1>4, <1>5, JobStep

-----------------------------------------------------------------------------
(* The theorems.                                                           *)

\* The first state.
LEMMA AcceleventsStarts == AcceleventsInit => AcceleventsInductive
<1> SUFFICES ASSUME AcceleventsInit PROVE AcceleventsInductive
  OBVIOUS
<1>1. AcceleventsTyped
  <2>1. AcceleventsTypeOK
    <3>1. NoExternal.of = {}
      BY DEF NoExternal
    <3> QED BY <3>1, AcceleventsAssumption DEF AcceleventsInit, AcceleventsTypeOK, Contents
  <2>2. mirror \in [Listed -> MirrorLinks]
    BY DEF AcceleventsInit, MirrorLinks
  <2>3. /\ external = [x \in Externals |-> external[x]] /\ syncJob = [k \in Jobs |-> syncJob[k]]
        /\ \A x \in Externals : external[x] = NoExternal <=> external[x].of = {}
        /\ concurrent \in BOOLEAN
    BY DEF AcceleventsInit, NoExternal
  <2> QED BY <2>1, <2>2, <2>3 DEF AcceleventsTyped
<1>2. LeadsTo(mirror)
  BY DEF AcceleventsInit, LeadsTo, NoLink
<1>3. \A k \in Jobs : syncJob[k] = NotBegun /\ ~Runs(k)
  BY DEF AcceleventsInit, Runs, NotBegun
<1>4. \A k \in Jobs : JobTyped(k)
  BY <1>3 DEF JobTyped
<1>5. MirrorTrue /\ NothingStray
  BY DEF AcceleventsInit, MirrorTrue, NothingStray, NoLink, NoExternal
<1> QED BY <1>1, <1>2, <1>3, <1>4, <1>5 DEF AcceleventsInductive, Orderly

\* Nothing happens.
LEMMA AcceleventsStutters ==
  ASSUME AcceleventsInductive, UNCHANGED acceleventsVars PROVE AcceleventsInductive'
<1>1. UNCHANGED <<content, external, mirror, syncJob, failures, mishaps, strayed, unconfirmed, concurrent>>
  BY DEF acceleventsVars
<1>2. OfsStay
  BY <1>1 DEF OfsStay
<1>3. \A k \in Jobs : JobTyped(k)'
  BY <1>1, <1>2, JobTypedStill DEF AcceleventsInductive
<1>4. AcceleventsTyped' /\ LeadsTo(mirror)'
  BY <1>1, <1>2, HistoriesTyped, ExternalTyped
<1>5. Orderly => Orderly'
  <2>1. ASSUME NEW k \in Jobs, JobExact(k) PROVE JobExact(k)'
    BY <1>1, <2>1 DEF JobExact, Payload, Externals, NoLink
  <2>2. (MirrorTrue => MirrorTrue') /\ (NothingStray => NothingStray')
    BY <1>1 DEF MirrorTrue, NothingStray, Linking, BeingSent, Externals, Listed
  <2> QED BY <1>1, <2>1, <2>2 DEF Orderly, Runs
<1> QED BY <1>1, <1>3, <1>4, <1>5 DEF AcceleventsInductive

\* Every step, of any run and with any mishap, keeps the invariant.
LEMMA AcceleventsSteps ==
  AcceleventsInductive /\ [AcceleventsNext]_acceleventsVars => AcceleventsInductive'
<1> SUFFICES ASSUME AcceleventsInductive, [AcceleventsNext]_acceleventsVars
             PROVE  AcceleventsInductive'
  OBVIOUS
<1>1. ASSUME NEW r \in Listed, EditRecord(r) PROVE AcceleventsInductive'
  BY <1>1, EditRecordKeeps
<1>2. ASSUME NEW k \in Jobs, RunManually(k) PROVE AcceleventsInductive'
  BY <1>2, BeginKeeps DEF RunManually
<1>3. ASSUME NEW k \in Jobs, NEW source \in Jobs, Retry(k, source) PROVE AcceleventsInductive'
  <2>1. failures[source] \in SUBSET Listed
    BY HistoriesTyped
  <2> QED BY <1>3, <2>1, BeginKeeps DEF Retry
<1>4. ASSUME NEW k \in Jobs, NEW r \in Listed, FailValidation(k, r) \/ SkipRecord(k, r)
      PROVE  AcceleventsInductive'
  BY <1>4, ValidationKeeps
<1>5. ASSUME NEW k \in Jobs, NEW r \in Listed, SendingFails(k, r) PROVE AcceleventsInductive'
  BY <1>5, SendingFailsKeeps
<1>6. ASSUME NEW k \in Jobs, NEW r \in Listed, NEW x \in Externals, Send(k, r, x)
      PROVE  AcceleventsInductive'
  BY <1>6, SendKeeps
<1>7. ASSUME NEW k \in Jobs, NEW r \in Listed, NEW x \in Externals, SendAgain(k, r, x)
      PROVE  AcceleventsInductive'
  BY <1>7, SendAgainKeeps
<1>8. ASSUME NEW k \in Jobs, WriteLink(k) \/ LinkedButFailed(k) PROVE AcceleventsInductive'
  BY <1>8, UpsertLinkKeeps
<1>9. ASSUME NEW k \in Jobs, LinkIsLost(k) PROVE AcceleventsInductive'
  BY <1>9, LinkIsLostKeeps
<1>10. ASSUME NEW k \in Jobs, CompleteRun(k) \/ CutOffJob(k) PROVE AcceleventsInductive'
  BY <1>10, RunEndsKeeps
<1>11. CASE UNCHANGED acceleventsVars
  BY <1>11, AcceleventsStutters
<1> QED BY <1>1, <1>2, <1>3, <1>4, <1>5, <1>6, <1>7, <1>8, <1>9, <1>10, <1>11 DEF AcceleventsNext

\* Whatever runs overlap and requests fail, links lead to their records; and as long as
\* none overlap, every run has exact knowledge and nothing strays unnoticed.
THEOREM AcceleventsInvariance == AcceleventsSpec => []AcceleventsInductive
<1> QED BY AcceleventsStarts, AcceleventsSteps, PTL DEF AcceleventsSpec

\* A record is in Accelevents twice only after a lost answer or overlapping runs.
LEMMA AcceleventsIsOnce ==
  ASSUME AcceleventsInductive, NEW x \in Externals, NEW y \in Externals,
         external[x].of = external[y].of, external[x] # NoExternal
  PROVE  x = y \/ concurrent \/ external[x].of \subseteq strayed
<1> SUFFICES ASSUME ~concurrent, ~(external[x].of \subseteq strayed) PROVE x = y
  OBVIOUS
<1>1. PICK r \in Listed : external[x].of = {r}
  BY DEF AcceleventsInductive, AcceleventsTyped, AcceleventsTypeOK
<1>2. r \in Listed \ strayed /\ external[y].of = {r}
  BY <1>1
<1>3. /\ Orderly
      /\ mirror[r].id = {x} \/ Linking(r, x)
      /\ mirror[r].id = {y} \/ Linking(r, y)
  BY <1>1, <1>2 DEF AcceleventsInductive, Orderly, NothingStray
<1>4. CASE mirror[r].id = {x} /\ mirror[r].id = {y}
  BY <1>4
<1>5. ASSUME NEW u \in Externals, NEW v \in Externals, Linking(r, u), mirror[r].id = {v}
      PROVE  u = v
  <2>1. PICK k \in Jobs : syncJob[k].at = "link" /\ syncJob[k].record = r /\ syncJob[k].id = {u}
    BY <1>5 DEF Linking
  <2>2. JobExact(k)
    BY <1>3, <2>1 DEF Orderly, Runs
  <2>3. mirror[r] = NoLink \/ mirror[r].id = {u}
    BY <2>1, <2>2 DEF JobExact
  <2> QED BY <1>5, <2>3 DEF NoLink
<1>6. CASE Linking(r, x) /\ Linking(r, y)
  <2>1. PICK k \in Jobs : syncJob[k].at = "link" /\ syncJob[k].id = {x}
    BY <1>6 DEF Linking
  <2>2. PICK l \in Jobs : syncJob[l].at = "link" /\ syncJob[l].id = {y}
    BY <1>6 DEF Linking
  <2>3. k = l
    BY <1>3, <2>1, <2>2 DEF Orderly, Runs
  <2> QED BY <2>1, <2>2, <2>3
<1> QED BY <1>3, <1>4, <1>5, <1>6

\* What names speakers goes on naming them.
LEMMA NamesStill ==
  ASSUME NEW payload, NamesSpeakers(payload), OfsStay PROVE NamesSpeakers(payload)'
<1>1. \A g \in Guests, y \in Externals : external[y].of = {g} => external'[y].of = {g}
  BY DEF OfsStay
<1>2. \A id \in payload.speakers : \E g \in Guests, y \in Externals : id = {y} /\ external'[y].of = {g}
  BY <1>1 DEF NamesSpeakers
<1>3. \A g \in Guests : \E y \in Externals : {y} \in payload.speakers /\ external'[y].of = {g}
  BY <1>1 DEF NamesSpeakers
<1> QED BY <1>2, <1>3 DEF NamesSpeakers, Externals

\* A session that is sent names the records its run knows of its speakers.
LEMMA SentNamesSpeakers ==
  ASSUME AcceleventsInductive, SessionsNameSpeakers, NEW k \in Jobs, NEW r \in Listed,
         NEW x \in Externals, CarriesOut(k, r, x)
  PROVE  SessionsNameSpeakers'
<1>1. /\ Runs(k) /\ external'[x].of = {r} /\ external'[x].holds = Payload(k, r) /\ OfsStay
      /\ \A y \in Externals : y # x => external'[y] = external[y]
  BY CarriesOutWrites
<1>2. syncJob[k].links \in [Listed -> MirrorLinks] /\ LeadsTo(syncJob[k].links)
  BY <1>1, JobsAtWork
<1> SUFFICES ASSUME NEW y \in Externals, NEW t \in Talks, external'[y].of = {t}
             PROVE  NamesSpeakers(external[y].holds)'
  BY DEF SessionsNameSpeakers, Externals
<1>3. PICK h : h = external'[y].holds
  OBVIOUS
<1>4. CASE y # x
  <2>1. NamesSpeakers(h)
    BY <1>1, <1>3, <1>4 DEF SessionsNameSpeakers
  <2>2. NamesSpeakers(h)'
    BY <1>1, <2>1, NamesStill
  <2> QED BY <1>3, <2>2
<1>5. CASE y = x
  <2>1. r = t
    BY <1>1, <1>5
  <2>2. h.speakers = {syncJob[k].links[g].id : g \in Guests}
    BY <1>1, <1>3, <1>5, <2>1 DEF Payload
  <2>3. ASSUME NEW g \in Guests
        PROVE  \E z \in Externals : syncJob[k].links[g].id = {z} /\ external[z].of = {g}
    <3>1. g \in Listed /\ syncJob[k].links[g] # NoLink
      BY <2>1 DEF CarriesOut, Sendable, Listed
    <3>2. syncJob[k].links[g].id \in Ids
      BY <1>2, <3>1 DEF MirrorLinks
    <3> QED BY <1>2, <3>1, <3>2 DEF Ids, LeadsTo
  <2>4. NamesSpeakers(h)
    BY <2>2, <2>3 DEF NamesSpeakers
  <2>5. NamesSpeakers(h)'
    BY <1>1, <2>4, NamesStill
  <2> QED BY <1>3, <2>5
<1> QED BY <1>4, <1>5

\* Whatever records of a run fail, the sessions that were sent name records of all their
\* speakers.
LEMMA SessionsAreNamed == AcceleventsSpec => []SessionsNameSpeakers
<1>1. AcceleventsInit => SessionsNameSpeakers
  BY DEF AcceleventsInit, SessionsNameSpeakers, NoExternal
<1>2. ASSUME AcceleventsInductive, SessionsNameSpeakers, [AcceleventsNext]_acceleventsVars
      PROVE  SessionsNameSpeakers'
  <2>1. ASSUME NEW k \in Jobs, NEW r \in Listed, NEW x \in Externals, CarriesOut(k, r, x)
        PROVE  SessionsNameSpeakers'
    BY <1>2, <2>1, SentNamesSpeakers
  <2>2. ASSUME UNCHANGED external PROVE SessionsNameSpeakers'
    <3> SUFFICES ASSUME NEW y \in Externals, NEW t \in Talks, external'[y].of = {t}
                 PROVE  NamesSpeakers(external[y].holds)'
      BY DEF SessionsNameSpeakers, Externals
    <3>1. PICK h : h = external'[y].holds
      OBVIOUS
    <3>2. NamesSpeakers(h) /\ OfsStay
      BY <1>2, <2>2, <3>1 DEF SessionsNameSpeakers, OfsStay
    <3>3. NamesSpeakers(h)'
      BY <3>2, NamesStill
    <3> QED BY <3>1, <3>3
  <2>3. ASSUME NEW k \in Jobs, NEW r \in Listed, SendingFails(k, r) PROVE SessionsNameSpeakers'
    <3>1. (UNCHANGED external) \/ (\E x \in Externals : CarriesOut(k, r, x))
      BY <2>3 DEF SendingFails
    <3>2. CASE \E x \in Externals : CarriesOut(k, r, x)
      <4>1. PICK x \in Externals : CarriesOut(k, r, x)
        BY <3>2
      <4> QED BY <2>1, <4>1
    <3> QED BY <2>2, <3>1, <3>2
  <2>4. ASSUME NEW k \in Jobs, NEW r \in Listed, NEW x \in Externals, Send(k, r, x) \/ SendAgain(k, r, x)
        PROVE  SessionsNameSpeakers'
    BY <2>1, <2>4 DEF Send, SendAgain
  <2>5. ASSUME NEW k \in Jobs, NEW r \in Listed, FailValidation(k, r) \/ SkipRecord(k, r)
        PROVE  UNCHANGED external
    BY <2>5 DEF FailValidation, SkipRecord
  <2>6. ASSUME NEW k \in Jobs, RunManually(k) \/ \E source \in Jobs : Retry(k, source)
        PROVE  UNCHANGED external
    BY <2>6 DEF RunManually, Retry, Begin
  <2>7. ASSUME NEW k \in Jobs, \/ WriteLink(k) \/ LinkIsLost(k) \/ LinkedButFailed(k)
                               \/ CompleteRun(k) \/ CutOffJob(k)
        PROVE  UNCHANGED external
    BY <2>7 DEF WriteLink, UpsertLink, LinkIsLost, LinkedButFailed, CompleteRun, CutOffJob
  <2>8. (\E r \in Listed : EditRecord(r)) \/ UNCHANGED acceleventsVars => UNCHANGED external
    BY DEF EditRecord, acceleventsVars
  <2> QED BY <1>2, <2>2, <2>3, <2>4, <2>5, <2>6, <2>7, <2>8 DEF AcceleventsNext
<1> QED BY <1>1, <1>2, AcceleventsInvariance, PTL DEF AcceleventsSpec

\* Links lead to their records and tell the truth of them, nothing is created twice, but
\* for what AcceleventsSafe excepts, and sessions name records of their speakers.
THEOREM AcceleventsIsSafe == AcceleventsSpec => []AcceleventsSafe
<1>1. AcceleventsInductive /\ SessionsNameSpeakers => AcceleventsSafe
  <2> SUFFICES ASSUME AcceleventsInductive, SessionsNameSpeakers PROVE AcceleventsSafe
    OBVIOUS
  <2>1. ASSUME NEW r \in Listed, NEW x \in Externals, mirror[r].id = {x}
        PROVE  /\ external[x].of = {r}
               /\ concurrent \/ BeingSent(r) \/ r \in unconfirmed
                    \/ external[x].holds = mirror[r].fingerprint
    BY <2>1 DEF AcceleventsInductive, LeadsTo, Orderly, MirrorTrue
  <2>2. AcceleventsTypeOK
    BY DEF AcceleventsInductive, AcceleventsTyped
  <2>3. \A x, y \in Externals : external[x].of = external[y].of /\ external[x] # NoExternal =>
          x = y \/ concurrent \/ external[x].of \subseteq strayed
    BY AcceleventsIsOnce
  <2> QED BY <2>1, <2>2, <2>3 DEF AcceleventsSafe
<1> QED BY <1>1, AcceleventsInvariance, SessionsAreNamed, PTL

\* A run that completes without a failure has linked all it selected, as it listed it.
THEOREM CompletedIsMirrored == AcceleventsSpec => CompleteIsMirrored
<1> DEFINE Complete == \A k \in Jobs : CompleteRun(k) /\ failures[k] = {} /\ ~concurrent =>
      \A r \in syncJob[k].selected :
        mirror[r] # NoLink /\ mirror[r].fingerprint =
          [content |-> syncJob[k].canonical[r],
           speakers |-> IF r \in Talks THEN {mirror[g].id : g \in Guests} ELSE {}]
<1>1. AcceleventsInductive => Complete
  <2> SUFFICES ASSUME AcceleventsInductive, NEW k \in Jobs, CompleteRun(k), failures[k] = {},
                      ~concurrent, NEW r \in syncJob[k].selected
               PROVE  mirror[r] # NoLink /\ mirror[r].fingerprint =
                        [content |-> syncJob[k].canonical[r],
                         speakers |-> IF r \in Talks THEN {mirror[g].id : g \in Guests} ELSE {}]
    OBVIOUS
  <2>1. Runs(k) /\ syncJob[k].left = {}
    BY DEF CompleteRun, EndsRun, Runs
  <2>2. JobExact(k)
    BY <2>1, LinksAlone
  <2>3. mirror[r] # NoLink /\ mirror[r].fingerprint = Payload(k, r) /\ syncJob[k].links = mirror
    BY <2>1, <2>2 DEF JobExact
  <2> QED BY <2>3 DEF Payload
<1>2. AcceleventsInductive /\ [AcceleventsNext]_acceleventsVars => [Complete]_acceleventsVars
  BY <1>1
<1> QED BY <1>2, AcceleventsInvariance, PTL DEF AcceleventsSpec, CompleteIsMirrored
=============================================================================
