----------------------------- MODULE Publication ----------------------------
(***************************************************************************)
(* What _run_upload and _run_download (remote_ssh_mcp/transfers.py) do to  *)
(* the files: successive attempts to transfer ONE source to ONE            *)
(* destination through its deterministic partial, while other programs     *)
(* rewrite the source and create or remove the destination.  Transfers     *)
(* shows that the attempts do not overlap; here each starts after the last *)
(* one, but the remote publication command of a cancelled upload may still *)
(* run beside the next attempt until its supervisor has ended it.          *)
(*                                                                         *)
(* A file is a prefix of n blocks of some content; "torn" is a mixture, or *)
(* the hash of one.  SHA-256 tells whole contents apart and is modelled as *)
(* equality.  A destination is a file or a directory.                      *)
(***************************************************************************)
EXTENDS Naturals

CONSTANTS
    Contents,     \* contents the source may have
    Size,         \* number of blocks of each content
    MaxSize,      \* bound: blocks of a file
    MaxAttempts,  \* bound: transfers started
    MaxChanges    \* bound: changes made by other programs

ASSUME PublicationAssumption ==
    /\ Size \in [Contents -> 1 .. MaxSize]
    /\ MaxSize \in Nat /\ MaxAttempts \in Nat /\ MaxChanges \in Nat
    /\ Contents \cap {"absent", "odd", "torn", "none", "theirs", "dir"} = {}

VARIABLES
    upload,     \* direction
    src,        \* content of the source
    moved,      \* the source changed while the current step reads it
    part,       \* the partial: content and number of blocks
    dest,       \* the destination
    pc,         \* the await of the running attempt
    overwrite, total, err, state,  \* TransferOperation
    sha,        \* local_hash: the hash that is, or will be, compared
    remote,     \* progress of the remote publication command
    late, lateOw, \* and of the one an earlier attempt left behind, with its overwrite
    linked,     \* partial and destination are two names of one file
    lost,       \* the partial was removed while rsync writes it
    placed,     \* where this attempt has put its partial
    delivered,  \* and what it contained
    clobbered,  \* this attempt replaced something
    srcChanges, destChanges, attempts  \* bounded histories

opVars    == <<overwrite, total, sha, err, state>>
ghostVars == <<placed, delivered, clobbered>>
histVars  == <<srcChanges, destChanges, attempts>>
lateVars  == <<late, lateOw, lost>>
vars == <<upload, src, moved, part, dest, pc, overwrite, total, sha, err, state,
          remote, late, lateOw, linked, lost, placed, delivered, clobbered, srcChanges, destChanges, attempts>>

Absent   == [c |-> "absent", n |-> 0]
Odd      == [c |-> "odd", n |-> 0]      \* a symbolic link, a directory, ...
Whole(c) == [c |-> c, n |-> Size[c]]
Content(p) == IF p.c \in Contents /\ p.n = Size[p.c] THEN p.c ELSE "torn"
Files    == {Absent, Odd} \cup [c : Contents \cup {"torn"}, n : 0 .. MaxSize]

\* The partial may be left over from an earlier run of the server.
Init ==
    /\ upload \in BOOLEAN
    /\ src \in Contents
    /\ moved = FALSE
    /\ part \in {Absent, Odd} \cup {[c |-> src, n |-> k] : k \in 0 .. Size[src]}
    /\ dest \in {"absent", "theirs", "dir"}
    /\ pc = "idle"
    /\ overwrite = FALSE /\ total = 0 /\ sha = "none" /\ err = "none" /\ state = "none"
    /\ remote = "idle" /\ late = "none" /\ lateOw = FALSE /\ linked = FALSE /\ lost = FALSE
    /\ placed = "none" /\ delivered = "none" /\ clobbered = FALSE
    /\ srcChanges = 0 /\ destChanges = 0 /\ attempts = 0

-----------------------------------------------------------------------------
(* An attempt up to rsync.                                                 *)

\* resolve_destination refuses an existing local path, and any directory.
LocalRefused(ow) == dest = "dir" \/ (dest # "absent" /\ ~ow)

\* Environment assumption: of the commands that earlier attempts left behind at
\* most one is still under way.
Start(ow) ==
    /\ pc = "idle" /\ (remote = "idle" \/ late = "none")
    /\ attempts < MaxAttempts
    /\ ~upload => ~LocalRefused(ow)
    /\ attempts' = attempts + 1
    /\ overwrite' = ow
    /\ state' = "running"
    /\ sha' = "none" /\ err' = "none"
    /\ total' = IF upload THEN Size[src] ELSE 0
    /\ placed' = "none" /\ delivered' = "none" /\ clobbered' = FALSE
    /\ pc' = IF upload /\ ~ow THEN "exists" ELSE "prepare"
    /\ remote' = "idle"
    /\ late' = IF remote = "idle" THEN late
               ELSE IF remote \in {"start", "linked", "conflict"} THEN remote ELSE "none"
    /\ lateOw' = IF remote = "idle" THEN lateOw ELSE overwrite
    /\ UNCHANGED <<upload, src, moved, part, dest, linked, lost, srcChanges, destChanges>>

\* An attempt ends in state st with error e.
Ends(st, e) ==
    /\ pc' = "idle"
    /\ state' = st
    /\ err' = e

\* _remote_exists: any status but 0, that of a timeout included, means absent.
RemoteExists ==
    /\ pc = "exists"
    /\ \/ /\ dest # "absent"
          /\ Ends("failed", "remote_path_exists")
       \/ /\ pc' = "prepare"
          /\ UNCHANGED <<state, err>>
    /\ UNCHANGED <<upload, src, moved, part, dest, overwrite, total, sha, remote, lateVars, linked, ghostVars, histVars>>

\* _validate_partial, _prepare_remote_partial: refuse what is no regular file,
\* remove what is larger than the source: for an upload than its size at the
\* start, for a download than the size just read.
SizeLimit == IF upload THEN total ELSE Size[src]
Trimmed   == IF part # Odd /\ part.n > SizeLimit THEN Absent ELSE part

PreparePartial ==
    /\ pc = "prepare"
    /\ total' = SizeLimit
    /\ \/ /\ part = Odd
          /\ Ends("failed", "invalid_transfer_partial")
          /\ UNCHANGED <<part, linked>>
       \/ /\ part # Odd
          /\ part' = Trimmed /\ linked' = (linked /\ Trimmed # Absent)
          /\ pc' = IF upload THEN "hash" ELSE "rsync"
          /\ UNCHANGED <<state, err>>
    /\ moved' = FALSE
    /\ UNCHANGED <<upload, src, dest, overwrite, sha, remote, lateVars, ghostVars, histVars>>

\* _sha256_file of an upload's source, before the copy.
HashSource ==
    /\ pc = "hash"
    /\ sha' \in {src} \cup IF moved THEN {"torn"} ELSE {}
    /\ pc' = "rsync"
    /\ moved' = FALSE
    /\ UNCHANGED <<upload, src, part, dest, overwrite, total, err, state, remote, lateVars, linked, ghostVars, histVars>>

-----------------------------------------------------------------------------
(* rsync --partial --append-verify: a partial that is not shorter than the *)
(* source is left alone; a shorter one is extended, and rewritten in place *)
(* when its beginning does not match.                                      *)

Extends == part = Absent \/ part.n = 0 \/ part.c = src

RsyncResults ==
    IF part.n >= Size[src] THEN {part}
    ELSE {Whole(src)} \cup IF moved THEN {[c |-> "torn", n |-> Size[src]]} ELSE {}

RsyncLeftovers ==
    IF part.n >= Size[src] THEN {part}
    ELSE {part, Whole(src)} \cup
         {[c |-> IF Extends /\ ~moved THEN src ELSE "torn", n |-> k] : k \in part.n .. Size[src]}

\* rsync writes in place: a second name of the partial sees what it writes; a
\* partial that was removed meanwhile may be gone when it ends.
Written(results) ==
    /\ part' \in results \cup (IF lost THEN {Absent} ELSE {})
    /\ dest' = IF linked THEN Content(part') ELSE dest
    /\ lost' = FALSE

MutRsyncDone ==
    /\ pc = "rsync"
    /\ Written(RsyncResults \cup RsyncLeftovers)
    /\ state' = "verifying"
    /\ pc' = "verify"
    /\ moved' = FALSE
    /\ UNCHANGED <<upload, src, overwrite, total, sha, err, remote, late, lateOw, linked, ghostVars, histVars>>
RsyncDone ==
    /\ pc = "rsync"
    /\ Written(RsyncResults)
    /\ state' = "verifying"
    /\ pc' = "verify"
    /\ moved' = FALSE
    /\ UNCHANGED <<upload, src, overwrite, total, sha, err, remote, late, lateOw, linked, ghostVars, histVars>>

\* rsync failed, the connection was lost, or the task was cancelled.
RsyncStops ==
    /\ pc = "rsync"
    /\ Written(RsyncLeftovers)
    /\ Ends("failed", "transfer_failed") \/ Ends("cancelled", "none")
    /\ UNCHANGED <<upload, src, moved, overwrite, total, sha, remote, late, lateOw, linked, ghostVars, histVars>>

-----------------------------------------------------------------------------
(* Verification and publication.                                           *)

\* The hash the partial is compared with: the one an upload took before the
\* copy, or the one a download's source has now.
Expected == IF upload THEN sha ELSE src

MutMatches == Expected \in Contents /\ part.n = Size[Expected]
Matches == Expected \in Contents /\ part = Whole(Expected)

Verify ==
    /\ pc = "verify"
    /\ \/ /\ part # Absent /\ (~Matches \/ (~upload /\ moved))
          /\ Ends("failed", "verification_failed")
          /\ UNCHANGED <<sha, remote>>
       \/ /\ Matches
          /\ sha' = Expected
          /\ pc' = IF upload THEN "publish" ELSE "resolve"
          /\ remote' = IF upload THEN "start" ELSE "idle"
          /\ UNCHANGED <<state, err>>
    /\ UNCHANGED <<upload, src, moved, part, dest, overwrite, total, lateVars, linked, ghostVars, histVars>>

\* What this attempt puts where.
Place(where) ==
    /\ placed' = where
    /\ delivered' = Content(part)
    /\ clobbered' = (where = "dest" /\ dest # "absent")

\* resolve_destination again, just before a download is published.
ResolveDestination ==
    /\ pc = "resolve"
    /\ \/ /\ LocalRefused(overwrite)
          /\ Ends("failed", IF overwrite THEN "invalid_local_path" ELSE "local_path_exists")
       \/ ~LocalRefused(overwrite) /\ pc' = "link" /\ UNCHANGED <<state, err>>
    /\ UNCHANGED <<upload, src, moved, part, dest, overwrite, total, sha, remote, lateVars, linked, ghostVars, histVars>>

\* os.replace, which does nothing to two names of one file, or os.link and
\* unlink, which may fail.
MutMayPlaceLocal == dest # "dir"
MayPlaceLocal == IF overwrite THEN dest # "dir" ELSE dest = "absent"

PublishDownload ==
    /\ pc = "link"
    /\ \/ /\ MayPlaceLocal
          /\ Place("dest") /\ dest' = Content(part)
          /\ \/ Ends("completed", "none") /\ ~(overwrite /\ linked) /\ part' = Absent /\ linked' = FALSE
             \/ Ends("completed", "none") /\ overwrite /\ linked /\ UNCHANGED <<part, linked>>
             \/ ~overwrite /\ Ends("failed", "transfer_publish_failed") /\ linked' = TRUE /\ UNCHANGED part
       \/ /\ \/ Ends("failed", "transfer_publish_failed")
             \/ ~overwrite /\ dest # "absent" /\ Ends("failed", "local_path_exists")
          /\ UNCHANGED <<part, dest, linked, ghostVars>>
    /\ UNCHANGED <<upload, src, moved, overwrite, total, sha, remote, lateVars, histVars>>

\* A step of the command of _publish_upload on the partial p: mv -fT, or ln and
\* rm.  ln follows a destination that is a directory and links inside it.
CommandStep(p, at, ow, next) ==
    \/ /\ at = "start" /\ ow /\ next = "ok"
       /\ p # Absent /\ dest # "dir"
       /\ dest' = Content(p) /\ part' = Absent /\ linked' = FALSE
    \/ /\ at = "start" /\ ~ow /\ next = "linked"
       /\ p # Absent /\ dest \in {"absent", "dir"}
       /\ dest' = IF dest = "dir" THEN dest ELSE Content(p)
       /\ linked' = (dest = "absent") /\ UNCHANGED part
    \/ /\ \/ at = "linked" /\ next = "ok"
          \/ at = "conflict" /\ dest # "absent" /\ next = "exists"
       /\ part' = Absent /\ linked' = FALSE /\ UNCHANGED dest
    \/ /\ \/ at = "start" /\ ow /\ next = "failed"
          \/ at = "start" /\ ~ow /\ next = "conflict"
          \/ at \in {"linked", "conflict"} /\ next = "failed"
       /\ UNCHANGED <<part, dest, linked>>

Outcomes == {"linked", "conflict", "ok", "exists", "failed"}
RemoteStep ==
    /\ \E next \in Outcomes :
          /\ CommandStep(part, remote, overwrite, next) /\ remote' = next
          /\ IF remote = "start" /\ next \in {"ok", "linked"}
             THEN Place(IF dest = "dir" THEN "inside" ELSE "dest") ELSE UNCHANGED ghostVars
    /\ UNCHANGED <<upload, src, moved, pc, opVars, lateVars, histVars>>

\* The command left behind takes the same steps on whatever the partial is now,
\* in the middle of a copy too, and ends with nobody to report to.
LateStep ==
    /\ \E next \in Outcomes, p \in (IF pc = "rsync" THEN RsyncLeftovers ELSE {part}) :
          /\ CommandStep(p, late, lateOw, next)
          /\ late' = IF next \in {"linked", "conflict"} THEN next ELSE "none"
          /\ lost' = (lost \/ (pc = "rsync" /\ next \in {"ok", "exists"}))
    /\ UNCHANGED <<upload, src, moved, pc, opVars, remote, lateOw, ghostVars, histVars>>

Published ==
    \/ remote = "ok" /\ Ends("completed", "none")
    \/ remote = "exists" /\ Ends("failed", "remote_path_exists")
    \/ remote = "failed" /\ Ends("failed", "transfer_publish_failed")

UploadAnswered ==
    /\ pc = "publish"
    /\ Published
    /\ remote' = "idle"
    /\ UNCHANGED <<upload, src, moved, part, dest, overwrite, total, sha, lateVars, linked, ghostVars, histVars>>

\* A remote command, a local read or the check for free space fails, or the
\* task is cancelled, at any other await.  What the remote command does may have
\* happened, and the publication command may still be under way.
Stops ==
    /\ pc \in {"exists", "prepare", "hash", "verify", "publish"}
    /\ Ends("failed", "stopped") \/ Ends("cancelled", "none")
    /\ part' \in IF pc = "prepare" THEN {part, Trimmed} ELSE {part}
    /\ linked' = (linked /\ part' # Absent)
    /\ UNCHANGED <<upload, src, moved, dest, overwrite, total, sha, remote, lateVars, ghostVars, histVars>>

\* The command nobody waits for ended, or was killed by its supervisor.
RemoteEnds ==
    /\ \/ pc = "idle" /\ remote # "idle" /\ remote' = "idle" /\ UNCHANGED late
       \/ late # "none" /\ late' = "none" /\ UNCHANGED remote
    /\ UNCHANGED <<upload, src, moved, part, dest, pc, opVars, lateOw, linked, lost, ghostVars, histVars>>

-----------------------------------------------------------------------------
(* Other programs.                                                         *)

SourceChanges(c) ==
    /\ srcChanges < MaxChanges
    /\ c # src
    /\ src' = c
    /\ moved' = TRUE
    /\ srcChanges' = srcChanges + 1
    /\ UNCHANGED <<upload, part, dest, pc, opVars, remote, lateVars, linked, ghostVars, destChanges, attempts>>

DestinationChanges(d) ==
    /\ destChanges < MaxChanges
    /\ d # dest
    /\ dest' = d /\ linked' = FALSE
    /\ destChanges' = destChanges + 1
    /\ UNCHANGED <<upload, src, moved, part, pc, opVars, remote, lateVars, ghostVars, srcChanges, attempts>>

-----------------------------------------------------------------------------
(* Specification.                                                          *)

AttemptStep ==
    \/ RemoteExists \/ PreparePartial \/ HashSource \/ RsyncDone \/ RsyncStops
    \/ Verify \/ ResolveDestination \/ PublishDownload \/ UploadAnswered \/ Stops

Next ==
    \/ \E ow \in BOOLEAN : Start(ow)
    \/ AttemptStep \/ RemoteStep \/ LateStep \/ RemoteEnds
    \/ \E c \in Contents : SourceChanges(c)
    \/ \E d \in {"absent", "theirs", "dir"} : DestinationChanges(d)

Spec == Init /\ [][Next]_vars

-----------------------------------------------------------------------------
(* Properties.                                                             *)

FlagsOK ==
    /\ upload \in BOOLEAN /\ moved \in BOOLEAN /\ overwrite \in BOOLEAN /\ clobbered \in BOOLEAN
    /\ lateOw \in BOOLEAN /\ linked \in BOOLEAN /\ lost \in BOOLEAN

\* Every variable keeps the shape the code gives it, and the operation is in
\* progress exactly while its task is.
TypeOK ==
    /\ FlagsOK
    /\ src \in Contents
    /\ part \in Files
    /\ dest \in {"absent", "theirs", "dir", "torn"} \cup Contents
    /\ pc \in {"idle", "exists", "prepare", "hash", "rsync", "verify", "resolve", "link", "publish"}
    /\ total \in 0 .. MaxSize
    /\ sha \in Contents \cup {"none", "torn"}
    /\ err \in {"none", "remote_path_exists", "local_path_exists", "invalid_local_path",
                "invalid_transfer_partial",
                "transfer_failed", "verification_failed", "transfer_publish_failed", "stopped"}
    /\ state \in {"none", "running", "verifying", "completed", "failed", "cancelled"}
    /\ remote \in {"idle", "start"} \cup Outcomes /\ late \in {"none", "start", "linked", "conflict"}
    /\ placed \in {"none", "dest", "inside"}
    /\ delivered \in Contents \cup {"none", "torn"}
    /\ srcChanges \in 0 .. MaxChanges /\ destChanges \in 0 .. MaxChanges
    /\ attempts \in 0 .. MaxAttempts
    /\ pc # "idle" <=> state \in {"running", "verifying"}

\* _run_download, _run_upload: whatever an attempt publishes, however it ends,
\* is the whole content whose SHA-256 it compared, never a mixture of a source
\* that changed or the remains of an earlier attempt.
PublishedIsVerified == placed # "none" => delivered = sha /\ sha \in Contents

\* Without overwrite nothing that exists is replaced, not even what appears
\* after the checks.
NothingClobbered == clobbered => overwrite

\* A completed upload has published and consumed its partial.  (A completed
\* download may leave one that an earlier attempt had linked: os.replace.)
CompletedConsumesPartial == upload /\ state = "completed" => placed # "none" /\ part = Absent

\* _publish_upload, doc/tools.md: a destination that appears after the initial
\* check is reported only after the useless partial was removed.
LateConflictCleaned ==
    upload /\ err = "remote_path_exists" /\ sha # "none" => part = Absent /\ placed = "none"

\* _validate_partial, _run_rsync: as long as the source does not change, no
\* partial an earlier attempt left behind makes the verification fail.
StableSourceVerifies == err = "verification_failed" => srcChanges > 0

\* doc/security.md: partials are verified by SHA-256 before publication.  Uploads
\* never leave anything but a whole content at the destination.
DestinationWhole == upload => dest # "torn"

=============================================================================
