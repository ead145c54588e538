------------------------------- MODULE Files -------------------------------
(***************************************************************************)
(* File requests, uploads and the versions they become                     *)
(* (modules/files-deliverables/service.ts), with the headshot a version    *)
(* may hand to the speaker's profile.  An upload is an authorization, its  *)
(* file object and its object in the private bucket; its idempotency key   *)
(* identifies it here.  The bucket is configured (storage.configured), and *)
(* putQuarantine stores nothing that does not match the authorization, so  *)
(* that the inspection of a stored object never finds a mismatch.          *)
(*                                                                         *)
(* A request reads what it decides on outside its transaction; the         *)
(* transactions run at READ COMMITTED.  Three unique indexes stand between *)
(* two of them: the idempotency key of an authorization, the number of a   *)
(* deliverable's version and the number of a profile's version.            *)
(***************************************************************************)
EXTENDS Naturals, FiniteSets

CONSTANTS
  FileTasks,      \* deliverables of file requests, one per assignment
  HeadshotTasks,  \* those whose file becomes the speaker's headshot
  Containers,     \* deliverables without a task: the profile's own files
  Uploads,        \* upload authorizations of one speaker
  Requests,       \* HTTP requests in progress
  MaxVersion,     \* bound on the versions of a deliverable
  MaxSnapshot     \* bound on the versions of the profile

ASSUME FilesAssumption ==
  /\ HeadshotTasks \subseteq FileTasks /\ FileTasks \cap Containers = {}
  /\ MaxVersion \in Nat \ {0} /\ MaxSnapshot \in Nat \ {0}

VARIABLES
  deliverable,  \* status and latestVersion of each deliverable
  complete,     \* speaker_task_assignments with status complete
  versions,     \* rows of deliverable_versions
  auth,         \* file_upload_authorizations: status and deliverable
  file,         \* file_objects.verificationStatus
  stored,       \* uploads whose object is in the bucket
  lapsed,       \* uploads whose fifteen minutes are over
  headshot,     \* speaker_profiles.headshotFileId
  snapshots,    \* rows of speaker_profile_versions
  request       \* each request: Idle, or its step and what it read

filesVars == <<deliverable, complete, versions, auth, file, stored, lapsed,
               headshot, snapshots, request>>
uploadVars == <<auth, file, stored, lapsed>>
profileVars == <<headshot, snapshots>>

Deliverables == FileTasks \cup Containers
NoUpload == "none"
NoTarget == "none"
NoRequest == [at |-> "idle"]

FilesInit ==
  /\ deliverable = [d \in Deliverables |-> [status |-> "absent", latest |-> 0]]
  /\ complete = {} /\ versions = {}
  /\ auth = [u \in Uploads |-> [status |-> "absent", target |-> NoTarget]]
  /\ file = [u \in Uploads |-> "absent"]
  /\ stored = {} /\ lapsed = {}
  /\ headshot = NoUpload /\ snapshots = {}
  /\ request = [r \in Requests |-> NoRequest]

Goes(r, step) == request' = [request EXCEPT ![r] = step]
Ends(r) == Goes(r, NoRequest)
Exists(d) == deliverable[d].status # "absent"

-----------------------------------------------------------------------------
(* createFileRequest and requestUpload: one transaction each.              *)

CreateFileRequest(d) ==
  /\ d \in FileTasks /\ ~Exists(d)
  /\ deliverable' = [deliverable EXCEPT ![d].status = "pending"]
  /\ UNCHANGED <<complete, versions, uploadVars, profileVars, request>>

\* The quarantined file object and the authorization for it.
Authorized(u, d) ==
  /\ auth[u].status = "absent"
  /\ auth' = [auth EXCEPT ![u] = [status |-> "authorized", target |-> d]]
  /\ file' = [file EXCEPT ![u] = "quarantined"]
  /\ UNCHANGED <<complete, versions, stored, lapsed, profileVars>>

RequestUpload(u, d) ==
  /\ d \in FileTasks /\ Exists(d)
  /\ Authorized(u, d)
  /\ UNCHANGED <<deliverable, request>>

\* requestDirectProfileHeadshotUpload looks for the profile's container
\* first, and creates one in its transaction when it had found none.
HeadshotRead(r, u) ==
  /\ request[r] = NoRequest /\ auth[u].status = "absent"
  /\ \E found \in IF \E c \in Containers : Exists(c)
                  THEN {c \in Containers : Exists(c)} ELSE {NoTarget} :
       Goes(r, [at |-> "contain", upload |-> u, found |-> found])
  /\ UNCHANGED <<deliverable, complete, versions, uploadVars, profileVars>>

HeadshotAuthorize(r) ==
  /\ request[r].at = "contain"
  /\ \E c \in Containers :
       /\ IF request[r].found = NoTarget THEN ~Exists(c) ELSE c = request[r].found
       /\ Authorized(request[r].upload, c)
       /\ deliverable' = IF Exists(c) THEN deliverable
                         ELSE [deliverable EXCEPT ![c].status = "pending"]
  /\ Ends(r)

-----------------------------------------------------------------------------
(* uploadQuarantineObject.                                                 *)

Lapse(u) ==
  /\ auth[u].status # "absent" /\ u \notin lapsed
  /\ lapsed' = lapsed \cup {u}
  /\ UNCHANGED <<deliverable, complete, versions, auth, file, stored, profileVars, request>>

\* Bug: an upload that is through already is not recognized.
BugPutsAgain(status) == status # "absent"

\* What the early return leaves: also rejected and expired authorizations.
MayPut(status) == status \in {"authorized", "rejected", "expired"}

PutRead(r, u) ==
  /\ request[r] = NoRequest /\ MayPut(auth[u].status)
  /\ Goes(r, [at |-> IF u \in lapsed THEN "expire" ELSE "put",
              upload |-> u, seen |-> auth[u].status])
  /\ UNCHANGED <<deliverable, complete, versions, uploadVars, profileVars>>

Expire(r) ==
  /\ request[r].at = "expire"
  /\ auth' = [auth EXCEPT ![request[r].upload].status = "expired"]
  /\ Ends(r)
  /\ UNCHANGED <<deliverable, complete, versions, file, stored, lapsed, profileVars>>

PutOk(r) ==
  /\ request[r].at = "put"
  /\ stored' = stored \cup {request[r].upload}
  /\ Goes(r, [request[r] EXCEPT !.at = "mark"])
  /\ UNCHANGED <<deliverable, complete, versions, auth, file, lapsed, profileVars>>

\* The bytes do not match, or the bucket fails before or after it stored them.
PutFails(r) ==
  /\ request[r].at = "put"
  /\ \E kept \in BOOLEAN : stored' = IF kept THEN stored \cup {request[r].upload} ELSE stored
  /\ Goes(r, [request[r] EXCEPT !.at = "reject"])
  /\ UNCHANGED <<deliverable, complete, versions, auth, file, lapsed, profileVars>>

\* UPDATE ... SET status = 'uploaded', whatever the status is by now.
MarkUploaded(r) ==
  /\ request[r].at = "mark"
  /\ auth' = [auth EXCEPT ![request[r].upload].status = "uploaded"]
  /\ Ends(r)
  /\ UNCHANGED <<deliverable, complete, versions, file, stored, lapsed, profileVars>>

\* The catch: the failed put or UPDATE rejects authorization and file,
\* whatever they are by now.
MarkFails(r) ==
  /\ request[r].at = "mark"
  /\ Goes(r, [request[r] EXCEPT !.at = "reject"])
  /\ UNCHANGED <<deliverable, complete, versions, uploadVars, profileVars>>

Reject(r) ==
  /\ request[r].at = "reject"
  /\ auth' = [auth EXCEPT ![request[r].upload].status = "rejected"]
  /\ file' = [file EXCEPT ![request[r].upload] = "rejected"]
  /\ Ends(r)
  /\ UNCHANGED <<deliverable, complete, versions, stored, lapsed, profileVars>>

-----------------------------------------------------------------------------
(* finalizeUpload.                                                         *)

\* The authorization is read, and the object inspected, before the
\* transaction; an authorization that is finalized returns early.
FinalizeRead(r, u) ==
  /\ request[r] = NoRequest /\ auth[u].status = "uploaded"
  /\ Goes(r, [at |-> "finalize", upload |-> u])
  /\ UNCHANGED <<deliverable, complete, versions, uploadVars, profileVars>>

\* The transaction's SELECT of the deliverable, without a lock.
FinalizeCurrent(r) ==
  /\ request[r].at = "finalize"
  /\ LET d == auth[request[r].upload].target IN
       /\ deliverable[d].latest < MaxVersion
       /\ Goes(r, [at |-> "append", upload |-> request[r].upload, target |-> d,
                   number |-> deliverable[d].latest + 1])
  /\ UNCHANGED <<deliverable, complete, versions, uploadVars, profileVars>>

\* Bug: deliverable_versions has no unique index.
BugNumberFree(d, n) == TRUE

NumberFree(d, n) == ~ \E v \in versions : v.target = d /\ v.number = n

HandsOver(d) == d \in HeadshotTasks \cup Containers
SnapshotCount == Cardinality(snapshots)

\* The rows that make shot the headshot of version n + 1 of the profile; the
\* first change also records the profile it replaces as version 1.
NewSnapshots(shot, seen, n) ==
  (IF n = 0 THEN {[number |-> 1, headshot |-> seen]} ELSE {})
    \cup {[number |-> IF n = 0 THEN 2 ELSE n + 1, headshot |-> shot]}

\* The file becomes the deliverable's next version: its row, the latest
\* version (WHERE latest_version is the one that was read), the assignment,
\* the profile's headshot with its snapshot and the authorization.
FinalizeCommit(r) ==
  LET u == request[r].upload  d == request[r].target  n == request[r].number IN
  /\ request[r].at = "append" /\ NumberFree(d, n)
  /\ file' = [file EXCEPT ![u] = "verified"]
  /\ versions' = versions \cup {[target |-> d, number |-> n, upload |-> u]}
  /\ deliverable' = IF deliverable[d].latest = n - 1
       THEN [deliverable EXCEPT ![d] = [status |-> "submitted", latest |-> n]]
       ELSE deliverable
  /\ complete' = complete \cup ({d} \cap FileTasks)
  /\ IF HandsOver(d)
       THEN /\ SnapshotCount < MaxSnapshot
            /\ headshot' = u
            /\ snapshots' = snapshots \cup NewSnapshots(u, headshot, SnapshotCount)
       ELSE UNCHANGED profileVars
  /\ auth' = [auth EXCEPT ![u].status = "finalized"]
  /\ Ends(r)
  /\ UNCHANGED <<stored, lapsed>>

-----------------------------------------------------------------------------
(* reviewDeliverable: the status is read before and written whatever it is. *)

ReviewRead(r, d) ==
  /\ request[r] = NoRequest /\ deliverable[d].latest > 0
  /\ deliverable[d].status \in {"submitted", "changes_requested"}
  /\ \E verdict \in {"changes_requested", "approved"} :
       Goes(r, [at |-> "review", target |-> d, verdict |-> verdict])
  /\ UNCHANGED <<deliverable, complete, versions, uploadVars, profileVars>>

ReviewCommit(r) ==
  /\ request[r].at = "review"
  /\ deliverable' = [deliverable EXCEPT ![request[r].target].status = request[r].verdict]
  /\ Ends(r)
  /\ UNCHANGED <<complete, versions, uploadVars, profileVars>>

-----------------------------------------------------------------------------
(* updateSpeakerContent and restoreSpeakerVersion: the version that was    *)
(* opened is compared before the transaction, which inserts the next one.  *)

ProfileRead(r) ==
  /\ request[r] = NoRequest /\ SnapshotCount < MaxSnapshot
  /\ Goes(r, [at |-> "profile", version |-> SnapshotCount, headshot |-> headshot])
  /\ UNCHANGED <<deliverable, complete, versions, uploadVars, profileVars>>

RestoreProfileRead(r) ==
  /\ request[r] = NoRequest /\ SnapshotCount < MaxSnapshot
  /\ \E s \in snapshots :
       Goes(r, [at |-> "restore", version |-> SnapshotCount, headshot |-> s.headshot])
  /\ UNCHANGED <<deliverable, complete, versions, uploadVars, profileVars>>

\* The unique (profile, version): nobody has written the next one.
IsNext(r) == ~ \E s \in snapshots : s.number = request[r].version + 1

\* The biography changes; the snapshot repeats the headshot that was read.
ProfileCommit(r) ==
  /\ request[r].at = "profile" /\ IsNext(r)
  /\ snapshots' = snapshots
       \cup NewSnapshots(request[r].headshot, request[r].headshot, request[r].version)
  /\ Ends(r)
  /\ UNCHANGED <<deliverable, complete, versions, uploadVars, headshot>>

RestoreProfileCommit(r) ==
  /\ request[r].at = "restore" /\ IsNext(r)
  /\ headshot' = request[r].headshot
  /\ snapshots' = snapshots \cup NewSnapshots(request[r].headshot, headshot, request[r].version)
  /\ Ends(r)
  /\ UNCHANGED <<deliverable, complete, versions, uploadVars>>

\* A unique index refuses the transaction, or the invocation is cut off.
GiveUp(r) ==
  /\ request[r] # NoRequest /\ Ends(r)
  /\ UNCHANGED <<deliverable, complete, versions, uploadVars, profileVars>>

FilesNext ==
  \/ \E d \in FileTasks : CreateFileRequest(d)
  \/ \E u \in Uploads : Lapse(u) \/ \E d \in FileTasks : RequestUpload(u, d)
  \/ \E r \in Requests :
       \/ \E u \in Uploads : HeadshotRead(r, u) \/ PutRead(r, u) \/ FinalizeRead(r, u)
       \/ HeadshotAuthorize(r)
       \/ Expire(r) \/ PutOk(r) \/ PutFails(r) \/ MarkUploaded(r) \/ MarkFails(r) \/ Reject(r)
       \/ FinalizeCurrent(r) \/ FinalizeCommit(r)
       \/ \E d \in Deliverables : ReviewRead(r, d)
       \/ ReviewCommit(r)
       \/ ProfileRead(r) \/ RestoreProfileRead(r) \/ ProfileCommit(r) \/ RestoreProfileCommit(r)
       \/ GiveUp(r)

FilesSpec == FilesInit /\ [][FilesNext]_filesVars

-----------------------------------------------------------------------------
(* Properties.                                                             *)

FilesTypeOK ==
  /\ deliverable \in [Deliverables -> [
       status : {"absent", "pending", "submitted", "changes_requested", "approved"},
       latest : 0..MaxVersion]]
  /\ complete \subseteq FileTasks
  /\ versions \subseteq [target : Deliverables, number : 1..MaxVersion, upload : Uploads]
  /\ auth \in [Uploads -> [
       status : {"absent", "authorized", "uploaded", "finalized", "rejected", "expired"},
       target : Deliverables \cup {NoTarget}]]
  /\ file \in [Uploads -> {"absent", "quarantined", "verified", "rejected"}]
  /\ stored \subseteq Uploads /\ lapsed \subseteq Uploads
  /\ headshot \in Uploads \cup {NoUpload}
  /\ snapshots \subseteq [number : 1..(MaxSnapshot + 1), headshot : Uploads \cup {NoUpload}]

\* The versions of a deliverable have the numbers 1 to latestVersion, each
\* once; a deliverable waits for its first file exactly while it has none,
\* and so does the speaker's task.
VersionsInStep ==
  \A d \in Deliverables :
    LET rows == {v \in versions : v.target = d} IN
    /\ Cardinality(rows) = deliverable[d].latest
    /\ {v.number : v \in rows} = 1..deliverable[d].latest
    /\ deliverable[d].status \in {"absent", "pending"} <=> deliverable[d].latest = 0
    /\ d \in complete <=> d \in FileTasks /\ deliverable[d].latest > 0

\* Whatever fails, races or expires in between, what may be finalized and
\* what is a version has its object in the bucket, under the deliverable it
\* was authorized for, and a finalized upload is one of the versions.
VersionsAreStored ==
  /\ \A u \in Uploads : auth[u].status \in {"uploaded", "finalized"} => u \in stored
  /\ \A v \in versions : v.upload \in stored /\ auth[v.upload].target = v.target
  /\ \A u \in Uploads : auth[u].status = "finalized" => \E v \in versions : v.upload = u

\* Two finalizations, an organizer's edit and a restore may overlap: the
\* profile's headshot is the one of its last version, and always a file that
\* went through a finalization.
HeadshotIsVersioned ==
  /\ {s.number : s \in snapshots} = 1..SnapshotCount
  /\ snapshots = {} => headshot = NoUpload
  /\ \A s \in snapshots : s.number = SnapshotCount => s.headshot = headshot
  /\ headshot # NoUpload => \E v \in versions : v.upload = headshot

\* Overlapping uploads, finalizations, edits and restores keep these.
FilesSafe == FilesTypeOK /\ VersionsInStep /\ VersionsAreStored /\ HeadshotIsVersioned

\* A version loses its verified file only to a second upload under the same
\* authorization that had started before the first one was through.
OnlyStaleUploadRejects ==
  [][\A u \in Uploads : file[u] = "verified" /\ file'[u] # "verified" =>
       \E r \in Requests :
         /\ request[r].at = "reject" /\ request[r].upload = u
         /\ request[r].seen \notin {"uploaded", "finalized"}]_filesVars

\* "finalization can only consume the reservation once" (the schema's comment
\* on file_upload_authorizations): no upload becomes two versions.
ConsumedOnce ==
  \A v, w \in versions : v.upload = w.upload => v = w
=============================================================================
