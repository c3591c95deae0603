-------------------------- MODULE PublicationProofs -------------------------
(***************************************************************************)
(* Proofs about Publication, for every set of contents and every number of *)
(* attempts and changes.  What is published was verified because between   *)
(* the comparison and the publication the partial is the whole content of  *)
(* the recorded hash (PlaceInv); and no remains of an earlier attempt can  *)
(* make the comparison fail because, while the source is unchanged, every  *)
(* partial is a prefix of it (StableInv).                                  *)
(***************************************************************************)
EXTENDS Publication, TLAPS

\* What each stage of the publication knows of the partial.
PlaceInv ==
    /\ remote # "idle" => upload /\ pc \in {"publish", "idle"} /\ state # "completed"
    /\ pc = "publish" => remote # "idle"
    /\ pc \in {"resolve", "link"} => ~upload /\ part = Whole(sha) /\ sha \in Contents
    /\ pc \notin {"idle", "publish"} => placed = "none"
    /\ pc # "idle" => err = "none"
    /\ remote = "start" => part \in {Whole(sha), Absent} /\ sha \in Contents /\ placed = "none"
    /\ remote \in {"conflict", "exists"} => placed = "none"
    /\ remote = "exists" => part = Absent
    /\ remote \in {"linked", "ok"} => placed # "none"
    /\ remote = "ok" => part = Absent
    /\ remote # "idle" => err # "remote_path_exists"
    /\ pc = "exists" => sha = "none"
    /\ placed = "none" => ~clobbered
    /\ late # "none" \/ lost => upload

\* While the source is unchanged every partial is a prefix of it.
StableInv ==
    srcChanges = 0 =>
        /\ ~moved
        /\ part \in {Absent, Odd} \/ (part.c = src /\ part.n <= Size[src])
        /\ pc \in {"hash", "rsync"} => part # Odd
        /\ pc = "verify" => part \in {Whole(src), Absent}
        /\ upload /\ pc \in {"rsync", "verify"} => sha = src

\* What the attempt promises of its end.
Promises ==
    /\ PublishedIsVerified
    /\ NothingClobbered
    /\ CompletedConsumesPartial
    /\ LateConflictCleaned
    /\ StableSourceVerifies

IInv == TypeOK /\ PlaceInv /\ StableInv /\ Promises

-----------------------------------------------------------------------------
USE DEF opVars, ghostVars, histVars, lateVars, Absent, Odd, Files, Whole, Outcomes

\* What a file contains.
LEMMA ContentType == \A p : Content(p) \in Contents \cup {"torn"}
  BY DEF Content
LEMMA ContentWhole == ASSUME NEW c \in Contents PROVE Content(Whole(c)) = c
  BY DEF Content

\* IInv holds initially.
LEMMA InitIInv == Init => IInv
  <1>. SUFFICES ASSUME Init PROVE IInv
    OBVIOUS
  <1>1. Size[src] \in 1 .. MaxSize /\ MaxSize \in Nat /\ src \in Contents
    BY PublicationAssumption DEF Init
  <1>2. part \in Files /\ (part \in {Absent, Odd} \/ (part.c = src /\ part.n <= Size[src]))
    <2>1. CASE part \in {Absent, Odd}
      BY <2>1
    <2>2. ASSUME NEW k \in 0 .. Size[src], part = [c |-> src, n |-> k]
          PROVE  part \in Files /\ part.c = src /\ part.n <= Size[src]
      BY <1>1, <2>2
    <2>. QED
      BY <2>1, <2>2 DEF Init
  <1>3. TypeOK
    <2>1. 0 \in 0 .. MaxSize /\ 0 \in 0 .. MaxChanges /\ 0 \in 0 .. MaxAttempts
      BY PublicationAssumption
    <2>2. FlagsOK
      BY Zenon DEF Init, FlagsOK
    <2>. QED
      BY <1>1, <1>2, <2>1, <2>2 DEF Init, TypeOK
  <1>4. PlaceInv /\ StableInv
    BY <1>2 DEF Init, PlaceInv, StableInv
  <1>. QED
    BY <1>3, <1>4
    DEF Init, IInv, Promises, PublishedIsVerified, NothingClobbered, CompletedConsumesPartial,
        LateConflictCleaned, StableSourceVerifies

\* The flags stay Boolean.
LEMMA FlagsStep == ASSUME IInv, Next PROVE FlagsOK'
  <1>. USE DEF IInv, TypeOK, FlagsOK
  <1>1. ASSUME NEW ow \in BOOLEAN, Start(ow) PROVE FlagsOK'
    BY <1>1, Zenon DEF Start
  <1>2. CASE RemoteExists
    BY <1>2, Zenon DEF RemoteExists
  <1>3. CASE PreparePartial
    BY <1>3, Zenon DEF PreparePartial
  <1>4. CASE HashSource
    BY <1>4, Zenon DEF HashSource
  <1>5. CASE RsyncDone
    BY <1>5, Zenon DEF RsyncDone, Written
  <1>6. CASE RsyncStops
    BY <1>6, Zenon DEF RsyncStops, Written
  <1>7. CASE Verify
    BY <1>7, Zenon DEF Verify
  <1>8. CASE ResolveDestination
    BY <1>8, Zenon DEF ResolveDestination
  <1>9. CASE PublishDownload
    BY <1>9, Zenon DEF PublishDownload, Place
  <1>10. CASE UploadAnswered
    BY <1>10, Zenon DEF UploadAnswered
  <1>11. CASE Stops
    BY <1>11, Zenon DEF Stops
  <1>12. CASE RemoteStep
    BY <1>12, Zenon DEF RemoteStep, CommandStep, Place
  <1>13. CASE LateStep
    BY <1>13, Zenon DEF LateStep, CommandStep
  <1>14. CASE RemoteEnds
    BY <1>14, Zenon DEF RemoteEnds
  <1>15. ASSUME NEW c \in Contents, SourceChanges(c) PROVE FlagsOK'
    BY <1>15, Zenon DEF SourceChanges
  <1>16. ASSUME NEW d \in {"absent", "theirs", "dir"}, DestinationChanges(d) PROVE FlagsOK'
    BY <1>16, Zenon DEF DestinationChanges
  <1>. QED
    BY <1>1, <1>2, <1>3, <1>4, <1>5, <1>6, <1>7, <1>8, <1>9, <1>10, <1>11, <1>12, <1>13, <1>14, <1>15, <1>16
    DEF Next, AttemptStep

\* Facts about sizes that most steps need.
LEMMA Sizes ==
    ASSUME IInv
    PROVE  /\ Size[src] \in 1 .. MaxSize /\ MaxSize \in Nat /\ src \in Contents
           /\ part \in Files /\ part.n \in 0 .. MaxSize
           /\ Size \in [Contents -> 1 .. MaxSize]
  BY PublicationAssumption DEF IInv, TypeOK

\* The steps before the copy.
LEMMA StartIInv ==
    ASSUME IInv, FlagsOK', NEW ow \in BOOLEAN, Start(ow)
    PROVE  IInv'
  <1>1. total' \in 0 .. MaxSize /\ attempts' \in 0 .. MaxAttempts
    BY Sizes, PublicationAssumption DEF Start, IInv, TypeOK
  <1>2. TypeOK'
    BY <1>1 DEF Start, IInv, TypeOK
  <1>3. remote # "idle" => upload
    BY DEF IInv, PlaceInv
  <1>4. PlaceInv'
    BY <1>3 DEF Start, IInv, PlaceInv
  <1>5. StableInv'
    BY DEF Start, IInv, StableInv
  <1>6. Promises'
    BY DEF Start, IInv, Promises, PublishedIsVerified, NothingClobbered, CompletedConsumesPartial,
           LateConflictCleaned, StableSourceVerifies
  <1>. QED
    BY <1>2, <1>4, <1>5, <1>6 DEF IInv

LEMMA BeginIInv ==
    ASSUME IInv, FlagsOK', RemoteExists \/ PreparePartial \/ HashSource
    PROVE  IInv'
  <1>. USE DEF Ends
  <1>1. part' \in Files /\ total' \in 0 .. MaxSize /\ sha' \in Contents \cup {"none", "torn"}
    BY Sizes DEF RemoteExists, PreparePartial, HashSource, SizeLimit, Trimmed, IInv, TypeOK
  <1>2. TypeOK'
    <2>. HIDE DEF Files
    <2>. QED
      BY <1>1 DEF RemoteExists, PreparePartial, HashSource, IInv, TypeOK
  <1>3. placed = "none" /\ remote = "idle" /\ err = "none" /\ pc \in {"exists", "prepare", "hash"}
    BY DEF RemoteExists, PreparePartial, HashSource, IInv, PlaceInv, TypeOK
  <1>4. PlaceInv'
    BY <1>3 DEF RemoteExists, PreparePartial, HashSource, IInv, PlaceInv
  <1>5. StableInv'
    BY Sizes DEF RemoteExists, PreparePartial, HashSource, SizeLimit, Trimmed, IInv, TypeOK, StableInv
  <1>6. Promises'
    BY <1>3 DEF RemoteExists, PreparePartial, HashSource, IInv, PlaceInv, Promises, PublishedIsVerified,
        NothingClobbered, CompletedConsumesPartial, LateConflictCleaned, StableSourceVerifies
  <1>. QED
    BY <1>2, <1>4, <1>5, <1>6 DEF IInv

\* rsync, whether it ends well or not.
LEMMA RsyncIInv ==
    ASSUME IInv, FlagsOK', RsyncDone \/ RsyncStops
    PROVE  IInv'
  <1>. USE DEF Ends
  <1>1. part' \in Files
    BY Sizes DEF RsyncDone, RsyncStops, Written, RsyncResults, RsyncLeftovers, Extends
  <1>2. dest' \in {"absent", "theirs", "dir", "torn"} \cup Contents
    BY ContentType DEF RsyncDone, RsyncStops, Written, IInv, TypeOK
  <1>3. /\ UNCHANGED <<upload, src, overwrite, total, sha, remote, late, lateOw, placed, delivered, clobbered,
                       srcChanges, destChanges, attempts>>
        /\ \/ pc' = "verify" /\ state' = "verifying" /\ err' = err /\ moved' = FALSE
           \/ pc' = "idle" /\ moved' = moved
              /\ <<state', err'>> \in {<<"failed", "transfer_failed">>, <<"cancelled", "none">>}
        /\ pc = "rsync" /\ lost' = FALSE
    BY DEF RsyncDone, RsyncStops, Written
  <1>4. TypeOK'
    <2>. HIDE DEF Files
    <2>. QED
      BY <1>1, <1>2, <1>3 DEF IInv, TypeOK
  <1>5. PlaceInv'
    BY <1>3 DEF IInv, PlaceInv
  <1>6. StableInv'
    <2>1. ASSUME srcChanges = 0
          PROVE  part' = Absent \/ (part'.c = src /\ part'.n <= Size[src])
      BY <2>1, Sizes DEF RsyncDone, RsyncStops, Written, RsyncResults, RsyncLeftovers, Extends, IInv, StableInv
    <2>2. ASSUME srcChanges = 0, RsyncDone
          PROVE  part' \in {Whole(src), Absent}
      BY <2>2, Sizes DEF RsyncDone, Written, RsyncResults, IInv, StableInv
    <2>3. RsyncStops => pc' = "idle"
      BY DEF RsyncStops
    <2>. QED
      BY <1>3, <2>1, <2>2, <2>3 DEF IInv, StableInv
  <1>7. Promises'
    BY <1>3 DEF IInv, PlaceInv, Promises, PublishedIsVerified, NothingClobbered, CompletedConsumesPartial,
                LateConflictCleaned, StableSourceVerifies
  <1>. QED
    BY <1>4, <1>5, <1>6, <1>7 DEF IInv

\* The comparison.
LEMMA VerifyIInv ==
    ASSUME IInv, FlagsOK', Verify
    PROVE  IInv'
  <1>. USE DEF Ends
  <1>1. TypeOK'
    BY DEF Verify, Matches, Expected, IInv, TypeOK
  <1>2. PlaceInv'
    <2>1. pc = "verify" /\ remote = "idle" /\ placed = "none" /\ err = "none" /\ ~clobbered
          /\ UNCHANGED <<upload, part, placed, clobbered, late, lost>>
      BY DEF Verify, IInv, PlaceInv
    <2>2. CASE Matches /\ sha' = Expected /\ err' = err
               /\ (IF upload THEN pc' = "publish" /\ remote' = "start" ELSE pc' = "resolve" /\ remote' = "idle")
      <3>1. part' = Whole(sha') /\ sha' \in Contents
        BY <2>1, <2>2 DEF Matches
      <3>. QED
        BY <2>1, <2>2, <3>1 DEF Verify, IInv, PlaceInv, TypeOK
    <2>3. CASE pc' = "idle" /\ remote' = "idle"
      BY <2>1, <2>3 DEF Verify, IInv, PlaceInv
    <2>. QED
      BY <2>1, <2>2, <2>3 DEF Verify
  <1>3. StableInv'
    BY DEF Verify, IInv, StableInv
  <1>4. ASSUME srcChanges = 0, part # Absent PROVE Matches /\ ~moved
    BY <1>4, Sizes DEF Verify, Matches, Expected, IInv, StableInv
  <1>5. Promises'
    BY <1>4 DEF Verify, IInv, PlaceInv, TypeOK, Promises, PublishedIsVerified, NothingClobbered,
                CompletedConsumesPartial, LateConflictCleaned, StableSourceVerifies
  <1>. QED
    BY <1>1, <1>2, <1>3, <1>5 DEF IInv

\* The attempts that end without publishing, and the second look at the
\* destination of a download.
LEMMA StopsIInv ==
    ASSUME IInv, FlagsOK', Stops \/ RemoteEnds \/ ResolveDestination
    PROVE  IInv'
  <1>. USE DEF Ends
  <1>1. part' = part \/ (part' = Absent /\ pc = "prepare")
    BY DEF Stops, RemoteEnds, ResolveDestination, Trimmed
  <1>2. TypeOK'
    BY <1>1 DEF Stops, RemoteEnds, ResolveDestination, IInv, TypeOK
  <1>3. PlaceInv'
    BY <1>1 DEF Stops, RemoteEnds, ResolveDestination, IInv, PlaceInv
  <1>4. StableInv'
    BY <1>1 DEF Stops, RemoteEnds, ResolveDestination, IInv, StableInv
  <1>5. Promises'
    BY <1>1 DEF Stops, RemoteEnds, ResolveDestination, IInv, PlaceInv, Promises, PublishedIsVerified,
           NothingClobbered, CompletedConsumesPartial, LateConflictCleaned, StableSourceVerifies
  <1>. QED
    BY <1>2, <1>3, <1>4, <1>5 DEF IInv

\* A verified partial that is put somewhere delivers the verified content.
LEMMA PlaceDelivers ==
    ASSUME NEW w \in {"dest", "inside"}, part = Whole(sha), sha \in Contents, Place(w)
    PROVE  /\ placed' = w /\ delivered' = sha
           /\ clobbered' => dest # "absent" /\ w = "dest"
  BY ContentWhole DEF Place

\* The publication of a download.
LEMMA DownloadIInv ==
    ASSUME IInv, FlagsOK', PublishDownload
    PROVE  IInv'
  <1>. USE DEF Ends
  <1>1. part = Whole(sha) /\ sha \in Contents /\ ~upload /\ remote = "idle" /\ placed = "none" /\ err = "none"
    BY DEF PublishDownload, IInv, PlaceInv
  <1>2. part' \in {part, Absent} /\ dest' \in {dest, Content(part)}
    BY DEF PublishDownload
  <1>3. \/ placed' = "dest" /\ delivered' = sha /\ (clobbered' => overwrite)
        \/ UNCHANGED <<placed, delivered, clobbered>>
    BY <1>1, PlaceDelivers DEF PublishDownload, MayPlaceLocal
  <1>4. /\ UNCHANGED <<upload, src, moved, overwrite, total, sha, remote, late, lateOw, lost, srcChanges, destChanges, attempts>>
        /\ pc' = "idle"
        /\ <<state', err'>> \in {"completed", "failed"} \X {"none", "transfer_publish_failed", "local_path_exists"}
    BY DEF PublishDownload
  <1>5. TypeOK'
    BY <1>1, <1>2, <1>3, <1>4, ContentType DEF IInv, TypeOK
  <1>6. PlaceInv'
    BY <1>1, <1>2, <1>3, <1>4 DEF IInv, PlaceInv
  <1>7. StableInv'
    BY <1>1, <1>2, <1>4 DEF IInv, StableInv
  <1>8. Promises'
    BY <1>1, <1>3, <1>4 DEF IInv, PlaceInv, Promises, PublishedIsVerified, NothingClobbered,
                CompletedConsumesPartial, LateConflictCleaned, StableSourceVerifies
  <1>. QED
    BY <1>5, <1>6, <1>7, <1>8 DEF IInv

\* Whatever its step, a publication command only removes the partial.
LEMMA CommandKeeps ==
    ASSUME NEW p, NEW at, NEW ow, NEW next, CommandStep(p, at, ow, next)
    PROVE  part' \in {part, Absent} /\ dest' \in {dest, Content(p)}
  BY DEF CommandStep

\* The publication of an upload.
LEMMA RemoteIInv ==
    ASSUME IInv, FlagsOK', RemoteStep
    PROVE  IInv'
  <1>1. PICK next \in Outcomes :
          /\ CommandStep(part, remote, overwrite, next) /\ remote' = next
          /\ IF remote = "start" /\ next \in {"ok", "linked"}
             THEN Place(IF dest = "dir" THEN "inside" ELSE "dest") ELSE UNCHANGED ghostVars
    BY DEF RemoteStep
  <1>2. UNCHANGED <<upload, src, moved, pc, overwrite, total, sha, err, state, late, lateOw, lost,
                    srcChanges, destChanges, attempts>>
    BY DEF RemoteStep
  <1>3. remote \in {"start", "linked", "conflict"} /\ upload /\ pc \in {"publish", "idle"} /\ state # "completed"
    BY <1>1 DEF CommandStep, IInv, PlaceInv
  <1>4. part' \in {part, Absent} /\ dest' \in {dest, Content(part)}
    BY <1>1, CommandKeeps
  <1>5. next \in {"ok", "exists"} => part' = Absent
    BY <1>1 DEF CommandStep
  <1>6. CASE remote = "start" /\ next \in {"ok", "linked"}
    <2>1. part = Whole(sha) /\ sha \in Contents
      BY <1>1, <1>6 DEF CommandStep, IInv, PlaceInv
    <2>2. placed' \in {"dest", "inside"} /\ delivered' = sha /\ (clobbered' => overwrite)
      BY <1>1, <1>6, <2>1, PlaceDelivers DEF CommandStep
    <2>3. TypeOK'
      BY <1>1, <1>2, <1>4, <2>1, <2>2, ContentType DEF IInv, TypeOK
    <2>4. PlaceInv'
      BY <1>1, <1>2, <1>3, <1>5, <1>6, <2>2 DEF IInv, PlaceInv
    <2>5. StableInv'
      BY <1>2, <1>3, <1>4 DEF IInv, StableInv
    <2>6. Promises'
      BY <1>2, <1>3, <1>6, <2>1, <2>2 DEF IInv, PlaceInv, Promises, PublishedIsVerified, NothingClobbered,
                  CompletedConsumesPartial, LateConflictCleaned, StableSourceVerifies
    <2>. QED
      BY <2>3, <2>4, <2>5, <2>6 DEF IInv
  <1>7. CASE ~(remote = "start" /\ next \in {"ok", "linked"})
    <2>1. UNCHANGED <<placed, delivered, clobbered>>
      BY <1>1, <1>7
    <2>2. TypeOK'
      BY <1>1, <1>2, <1>4, <2>1, ContentType DEF IInv, TypeOK
    <2>3. \/ remote = "start" /\ next \in {"conflict", "failed"}
          \/ remote = "linked" /\ next \in {"ok", "failed"}
          \/ remote = "conflict" /\ next \in {"exists", "failed"}
      BY <1>1, <1>7 DEF CommandStep
    <2>4. PlaceInv'
      BY <1>1, <1>2, <1>3, <1>5, <2>1, <2>3 DEF IInv, PlaceInv
    <2>5. StableInv'
      BY <1>2, <1>3, <1>4 DEF IInv, StableInv
    <2>6. Promises'
      BY <1>2, <1>3, <1>4, <2>1 DEF IInv, PlaceInv, Promises, PublishedIsVerified, NothingClobbered,
                  CompletedConsumesPartial, LateConflictCleaned, StableSourceVerifies
    <2>. QED
      BY <2>2, <2>4, <2>5, <2>6 DEF IInv
  <1>. QED
    BY <1>6, <1>7

LEMMA AnsweredIInv ==
    ASSUME IInv, FlagsOK', UploadAnswered
    PROVE  IInv'
  <1>. USE DEF Ends
  <1>1. TypeOK'
    BY DEF UploadAnswered, Published, IInv, TypeOK
  <1>2. PlaceInv' /\ StableInv'
    BY DEF UploadAnswered, Published, IInv, PlaceInv, StableInv
  <1>3. Promises'
    BY DEF UploadAnswered, Published, IInv, PlaceInv, Promises, PublishedIsVerified, NothingClobbered,
           CompletedConsumesPartial, LateConflictCleaned, StableSourceVerifies
  <1>. QED
    BY <1>1, <1>2, <1>3 DEF IInv

\* The command of an earlier attempt: it may take the partial away, from an
\* upload only, and what it does is no publication of this attempt.
LEMMA LateIInv ==
    ASSUME IInv, FlagsOK', LateStep
    PROVE  IInv'
  <1>1. PICK next \in Outcomes, p \in (IF pc = "rsync" THEN RsyncLeftovers ELSE {part}) :
          /\ CommandStep(p, late, lateOw, next)
          /\ late' = IF next \in {"linked", "conflict"} THEN next ELSE "none"
    BY DEF LateStep
  <1>2. UNCHANGED <<upload, src, moved, pc, overwrite, total, sha, err, state, remote, lateOw,
                    placed, delivered, clobbered, srcChanges, destChanges, attempts>>
    BY DEF LateStep
  <1>3. upload
    BY <1>1 DEF CommandStep, IInv, PlaceInv
  <1>4. part' \in {part, Absent} /\ dest' \in {dest, Content(p)}
    BY <1>1, CommandKeeps
  <1>5. TypeOK'
    BY <1>1, <1>2, <1>4, ContentType DEF IInv, TypeOK
  <1>6. PlaceInv'
    BY <1>2, <1>3, <1>4 DEF IInv, PlaceInv
  <1>7. StableInv'
    BY <1>2, <1>4 DEF IInv, StableInv
  <1>8. Promises'
    BY <1>2, <1>4 DEF IInv, Promises, PublishedIsVerified, NothingClobbered, CompletedConsumesPartial,
                      LateConflictCleaned, StableSourceVerifies
  <1>. QED
    BY <1>5, <1>6, <1>7, <1>8 DEF IInv

\* What other programs do.
LEMMA OthersIInv ==
    ASSUME IInv, FlagsOK',
           \/ \E c \in Contents : SourceChanges(c)
           \/ \E d \in {"absent", "theirs", "dir"} : DestinationChanges(d)
    PROVE  IInv'
  <1>1. srcChanges \in Nat /\ srcChanges' \in 0 .. MaxChanges /\ destChanges' \in 0 .. MaxChanges
    BY PublicationAssumption DEF SourceChanges, DestinationChanges, IInv, TypeOK
  <1>2. TypeOK'
    BY <1>1 DEF SourceChanges, DestinationChanges, IInv, TypeOK
  <1>3. PlaceInv'
    BY DEF SourceChanges, DestinationChanges, IInv, PlaceInv
  <1>4. StableInv'
    BY <1>1 DEF SourceChanges, DestinationChanges, IInv, StableInv
  <1>5. Promises'
    BY <1>1 DEF SourceChanges, DestinationChanges, IInv, Promises, PublishedIsVerified, NothingClobbered,
        CompletedConsumesPartial, LateConflictCleaned, StableSourceVerifies
  <1>. QED
    BY <1>2, <1>3, <1>4, <1>5 DEF IInv

\* IInv is inductive.
LEMMA NextIInv == IInv /\ [Next]_vars => IInv'
  <1>. SUFFICES ASSUME IInv, [Next]_vars PROVE IInv'
    OBVIOUS
  <1>1. CASE UNCHANGED vars
    BY <1>1 DEF vars, IInv, TypeOK, FlagsOK, PlaceInv, StableInv, Promises, PublishedIsVerified,
                NothingClobbered, CompletedConsumesPartial, LateConflictCleaned, StableSourceVerifies
  <1>2. CASE Next
    <2>1. FlagsOK'
      BY <1>2, FlagsStep
    <2>. QED
      BY <1>2, <2>1, StartIInv, BeginIInv, RsyncIInv, VerifyIInv, StopsIInv, DownloadIInv, RemoteIInv,
         AnsweredIInv, LateIInv, OthersIInv
      DEF Next, AttemptStep
  <1>. QED
    BY <1>1, <1>2

\* IInv holds in every reachable state.
THEOREM InvariantHolds == Spec => []IInv
  BY InitIInv, NextIInv, PTL DEF Spec

-----------------------------------------------------------------------------
(* The theorems.                                                           *)

\* Every variable keeps its shape.
THEOREM TypeCorrect == Spec => []TypeOK
  BY InvariantHolds, PTL DEF IInv

\* Only whole, verified content is ever published, however the attempt ends.
THEOREM Verified == Spec => []PublishedIsVerified
  BY InvariantHolds, PTL DEF IInv, Promises

\* Without overwrite nothing is replaced.
THEOREM Unclobbered == Spec => []NothingClobbered
  BY InvariantHolds, PTL DEF IInv, Promises

\* A completed transfer leaves no partial.
THEOREM Consumed == Spec => []CompletedConsumesPartial
  BY InvariantHolds, PTL DEF IInv, Promises

\* A late conflict is reported after the clean-up.
THEOREM ConflictCleaned == Spec => []LateConflictCleaned
  BY InvariantHolds, PTL DEF IInv, Promises

\* A stable source is never found to differ from its partial.
THEOREM StableVerifies == Spec => []StableSourceVerifies
  BY InvariantHolds, PTL DEF IInv, Promises

-----------------------------------------------------------------------------
(* What an upload leaves at the destination.  A run shows that it may be     *)
(* torn; the theorem, that it takes an attempt that starts over what a      *)
(* cancelled publication has left.                                          *)

\* While an attempt runs no command of an earlier one is under way, and the
\* partial is no second name of the destination but by its own publication.
Undisturbed == pc # "idle" => late = "none" /\ (linked => pc \in {"publish", "link"})

LEMMA WholeStep ==
    ASSUME IInv, upload => dest # "torn" /\ late = "none", Undisturbed, Undisturbed', [Next]_vars
    PROVE  (upload => dest # "torn" /\ late = "none")'
  <1>1. ~ ("torn" \in Contents)
    BY PublicationAssumption
  <1>2. CASE UNCHANGED vars
    BY <1>2 DEF vars
  <1>3. ASSUME NEW ow \in BOOLEAN, Start(ow) PROVE (upload => dest # "torn" /\ late = "none")'
    BY <1>3 DEF Start, Undisturbed
  <1>4. CASE RsyncDone \/ RsyncStops
    <2>1. pc = "rsync" /\ dest' = (IF linked THEN Content(part') ELSE dest) /\ late' = late /\ upload' = upload
      BY <1>4 DEF RsyncDone, RsyncStops, Written
    <2>. QED
      BY <2>1 DEF Undisturbed
  <1>5. CASE PublishDownload
    BY <1>5 DEF PublishDownload, IInv, PlaceInv
  <1>6. CASE RemoteStep
    <2>1. PICK next \in Outcomes : CommandStep(part, remote, overwrite, next)
      BY <1>6 DEF RemoteStep
    <2>2. late' = late /\ upload' = upload
      BY <1>6 DEF RemoteStep
    <2>3. dest' = dest \/ (remote = "start" /\ part # Absent /\ dest' = Content(part))
      BY <2>1 DEF CommandStep
    <2>4. remote = "start" /\ part # Absent => Content(part) \in Contents
      <3>1. remote = "start" /\ part # Absent => part = Whole(sha) /\ sha \in Contents
        BY DEF IInv, PlaceInv
      <3>. QED
        BY <3>1, ContentWhole
    <2>. QED
      BY <1>1, <2>2, <2>3, <2>4
  <1>7. CASE LateStep
    BY <1>7 DEF LateStep, CommandStep, IInv, PlaceInv
  <1>8. CASE \/ RemoteExists \/ PreparePartial \/ HashSource \/ Verify \/ ResolveDestination
             \/ UploadAnswered \/ Stops
    BY <1>8 DEF RemoteExists, PreparePartial, HashSource, Verify, ResolveDestination, UploadAnswered, Stops
  <1>9. CASE RemoteEnds
    BY <1>9 DEF RemoteEnds
  <1>10. ASSUME NEW c \in Contents, SourceChanges(c) PROVE (upload => dest # "torn" /\ late = "none")'
    BY <1>10 DEF SourceChanges
  <1>11. ASSUME NEW d \in {"absent", "theirs", "dir"}, DestinationChanges(d)
         PROVE  (upload => dest # "torn" /\ late = "none")'
    BY <1>11 DEF DestinationChanges
  <1>. QED
    BY <1>2, <1>3, <1>4, <1>5, <1>6, <1>7, <1>8, <1>9, <1>10, <1>11 DEF Next, AttemptStep

\* _publish_upload, doc/security.md: as long as every attempt finds the
\* publication of the one before at an end, uploads leave nothing but whole
\* contents at the destination, whatever fails and whatever other programs do.
THEOREM WholeUndisturbed == Spec /\ []Undisturbed => []DestinationWhole
  <1>. DEFINE Inv == upload => dest # "torn" /\ late = "none"
  <1>1. Init => Inv
    BY DEF Init
  <1>2. IInv /\ Undisturbed /\ Undisturbed' /\ Inv /\ [Next]_vars => Inv'
    BY WholeStep
  <1>3. Inv => DestinationWhole
    BY DEF DestinationWhole
  <1>. HIDE DEF Inv
  <1>. QED
    BY InvariantHolds, <1>1, <1>2, <1>3, PTL DEF Spec

=============================================================================
