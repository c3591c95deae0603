------------------------------ MODULE Payload ------------------------------
(***************************************************************************)
(* tools/container_payload.py: a sender (create) that freezes its inputs   *)
(* and streams them as a tar, and a receiver that extracts the stream into *)
(* a new directory or merges it into an existing tree, at the two ends of  *)
(* a pipe, while other programs change the inputs and either end may fail  *)
(* or be killed.                                                           *)
(*                                                                         *)
(* A file is its size in bytes and the time of its last change, which also *)
(* stands for its content: every change has a new time.  Names are         *)
(* 1 .. Members in the order of the archive.                               *)
(***************************************************************************)
EXTENDS Integers, Sequences, FiniteSets

CONSTANTS
    Members,     \* bound: names a payload may have
    Sizes,       \* sizes a file may have
    MaxMembers, MaxBytes,  \* --max-members and --max-bytes
    MaxChanges,  \* bound: changes of the inputs
    None

Names == 1 .. Members
ASSUME PayloadAssumption ==
    Members \in Nat /\ Sizes \subseteq Nat /\ MaxMembers \in Nat \ {0} /\ MaxBytes \in Nat /\ MaxChanges \in Nat

\* ARCHIVE_OVERHEAD_PER_MEMBER, and what tar adds: a header block and padding
\* for every member, an end padded to a whole record.
Overhead == 8192
Block    == 512
Record   == 10240
RoundUp(n, unit) == ((n + unit - 1) \div unit) * unit

VARIABLES
    src,      \* the inputs
    clock,    \* the time of the last change
    spc,      \* progress of write_archive
    frozen,   \* _freeze_entries: the inputs as they were
    si,       \* the member it is at
    stream,   \* the members in the pipe
    ended,    \* how the stream ends: "open", "eof", "cut" or "torn"
    mode,     \* extract or merge
    empty,    \* --allow-empty
    most,     \* --max-members of the receiver
    cpc,      \* progress of the receiver
    ci,       \* members it has read
    total,    \* the sum of their sizes
    count,    \* _BoundedReader: the bytes of the tar so far
    scratch,  \* its partial directory: None, "stale" of a killed run, or the members in it
    fresh,    \* extract: the members at the destination, none until it is there
    tree      \* merge: what is at each name of the destination

senderVars   == <<spc, frozen, si, stream, ended>>
receiverVars == <<mode, empty, most, cpc, ci, total, count, scratch, fresh, tree>>
vars == <<src, clock, spc, frozen, si, stream, ended, mode, empty, most, cpc, ci, total, count, scratch, fresh, tree>>

Missing == [size |-> -1, time |-> 0]
Gone    == -1  \* no member written
Old     == -2  \* a regular file that was there before
Unsafe  == -3  \* a link or a directory

Init ==
    /\ src \in [Names -> {Missing} \cup [size : Sizes, time : {0}]]
    /\ clock = 0
    /\ spc = "idle" /\ frozen = <<>> /\ si = 1 /\ stream = <<>> /\ ended = "open"
    /\ mode \in {"extract", "merge"} /\ empty \in BOOLEAN /\ most \in {1, MaxMembers} /\ cpc = "idle"
    /\ ci = 0 /\ total = 0 /\ count = 0
    /\ scratch \in (IF mode = "extract" THEN {None, "stale"} ELSE {None}) /\ fresh = <<>>
    /\ tree \in [Names -> IF mode = "merge" THEN {Gone, Old, Unsafe} ELSE {Gone}]

\* Another program rewrites, creates or removes an input.
SourceChanges(n) ==
    /\ clock < MaxChanges /\ spc \notin {"idle", "ok", "failed"}
    /\ clock' = clock + 1
    /\ \E size \in Sizes \cup {-1} : src' = [src EXCEPT ![n] = [size |-> size, time |-> clock + 1]]
    /\ UNCHANGED <<senderVars, receiverVars>>

-----------------------------------------------------------------------------
(* write_archive.                                                          *)

\* The running total of the sizes.
Amounts(files) == [n \in Names |-> IF n \in DOMAIN files THEN files[n].size ELSE 0]
Sums(amounts) ==
    LET sum[n \in 0 .. Members] == IF n = 0 THEN 0 ELSE sum[n - 1] + amounts[n] IN sum
Total(files) == Sums(Amounts(files))[Members]
WithinLimits(files) == Cardinality(DOMAIN files) <= MaxMembers /\ Total(files) <= MaxBytes

\* _freeze_entries: each input is a regular file with one link, the limits hold.
Inputs(names) == [n \in names |-> src[n]]
MayFreeze(names) ==
    (\A n \in names : src[n].size >= 0) /\ (empty \/ names # {}) /\ WithinLimits(Inputs(names))
Freeze(names) ==
    /\ spc = "idle"
    /\ IF MayFreeze(names)
       THEN spc' = "next" /\ frozen' = Inputs(names) /\ UNCHANGED ended
       ELSE spc' = "failed" /\ frozen' = <<>> /\ ended' = "cut"
    /\ UNCHANGED <<src, clock, si, stream, receiverVars>>

\* os.open and fstat of the next member; a difference ends the tar without its
\* end blocks, after whole members.
OpenMember ==
    /\ spc = "next" /\ si <= Members
    /\ \/ si \notin DOMAIN frozen /\ si' = si + 1 /\ UNCHANGED <<spc, ended>>
       \/ si \in DOMAIN frozen /\ src[si] = frozen[si] /\ spc' = "opened" /\ UNCHANGED <<si, ended>>
       \/ si \in DOMAIN frozen /\ src[si] # frozen[si] /\ spc' = "failed" /\ ended' = "cut" /\ UNCHANGED si
    /\ UNCHANGED <<src, clock, frozen, stream, receiverVars>>

\* archive.addfile: the header says what was frozen; the data of a file that is
\* changed now are old or new, or too short, which tears the stream.
AddMember ==
    /\ spc = "opened"
    /\ \/ /\ \E time \in {frozen[si].time, src[si].time} :
                stream' = Append(stream, [name |-> si, size |-> frozen[si].size, data |-> time])
          /\ spc' = "next" /\ si' = si + 1 /\ UNCHANGED ended
       \/ /\ src[si].size < frozen[si].size
          /\ spc' = "failed" /\ ended' = "torn" /\ UNCHANGED <<si, stream>>
    /\ UNCHANGED <<src, clock, frozen, receiverVars>>

\* The tar is complete before the inputs are looked at again.
CloseArchive ==
    /\ spc = "next" /\ si > Members
    /\ spc' = "recheck" /\ ended' = "eof"
    /\ UNCHANGED <<src, clock, frozen, si, stream, receiverVars>>
MutUnchanged == \A n \in DOMAIN frozen : src[n].size = frozen[n].size
Unchanged == \A n \in DOMAIN frozen : src[n] = frozen[n]
Recheck ==
    /\ spc = "recheck"
    /\ spc' = IF Unchanged THEN "ok" ELSE "failed"
    /\ UNCHANGED <<src, clock, frozen, si, stream, ended, receiverVars>>

\* The sender is killed, or the pipe breaks, at or within a member.
SenderDies ==
    /\ spc \in {"next", "opened"}
    /\ spc' = "failed" /\ ended' \in {"cut", "torn"}
    /\ UNCHANGED <<src, clock, frozen, si, stream, receiverVars>>

-----------------------------------------------------------------------------
(* extract_archive and merge_archive.                                      *)

\* How the receiver ends: 0, 2 for a PayloadError, 1 for any other exception.
\* The finally blocks remove what it has made, unless it is killed.
Kept(code) == IF code = "killed" \/ scratch = "stale" THEN scratch ELSE None
Leave(code) == cpc' = code /\ scratch' = Kept(code)

\* _new_destination; merge makes its own scratch directory.
Receive ==
    /\ cpc = "idle"
    /\ IF scratch = "stale" THEN Leave("refused") ELSE cpc' = "reading" /\ scratch' = <<>>
    /\ UNCHANGED <<src, clock, senderVars, mode, empty, most, ci, total, count, fresh, tree>>

\* One member, against the limits of the receiver; its header and padding are
\* bytes of the tar too.
MutRawLimit == MaxBytes
RawLimit == MaxBytes + most * Overhead + 10240
Stored(size) == Block + RoundUp(size, Block)
MayRead == ci' <= most /\ total' <= MaxBytes /\ count' <= RawLimit
ReadMember ==
    /\ cpc = "reading" /\ ci < Len(stream)
    /\ LET member == stream[ci + 1] IN
       /\ ci' = ci + 1 /\ total' = total + member.size /\ count' = count + Stored(member.size)
       /\ \/ MayRead /\ scratch' = Append(scratch, member) /\ UNCHANGED cpc
          \/ ~MayRead /\ Leave("limit")
    /\ UNCHANGED <<src, clock, senderVars, mode, empty, most, fresh, tree>>

\* The bytes of the whole tar.
RawBytes == IF ended = "eof" THEN RoundUp(count + 2 * Block, Record) ELSE count

\* A tar that stops between two members is as good as one that was closed; one
\* without any member is not.
Complete == ended \in {"eof", "cut"} /\ (scratch # <<>> \/ (mode = "merge" /\ empty /\ ended = "eof"))
StreamRefused ==
    /\ cpc = "reading" /\ ci = Len(stream) /\ ended # "open"
    /\ IF RawBytes > RawLimit THEN Leave("limit") ELSE ~Complete /\ Leave("refused")
    /\ UNCHANGED <<src, clock, senderVars, mode, empty, most, ci, total, count, fresh, tree>>

\* extract_archive: os.replace of the partial directory; it fails if something
\* has appeared there.
StreamAccepted == cpc = "reading" /\ ci = Len(stream) /\ RawBytes <= RawLimit /\ Complete
Publish ==
    /\ StreamAccepted /\ mode = "extract"
    /\ \/ cpc' = "ok" /\ scratch' = None /\ fresh' = scratch
       \/ Leave("refused") /\ UNCHANGED fresh
    /\ UNCHANGED <<src, clock, senderVars, mode, empty, most, ci, total, count, tree>>

\* merge_archive: every target is looked at, then they are replaced one by one.
TargetsSafe(members) == \A i \in DOMAIN members : tree[members[i].name] # Unsafe
MutCheckTargets ==
    /\ StreamAccepted /\ mode = "merge" /\ scratch # <<>>
    /\ IF tree[scratch[1].name] = Unsafe THEN Leave("refused") /\ UNCHANGED tree
       ELSE /\ tree' = [tree EXCEPT ![scratch[1].name] = scratch[1].data]
            /\ scratch' = Tail(scratch)
            /\ cpc' = IF Len(scratch) = 1 THEN "replacing" ELSE cpc
    /\ UNCHANGED <<src, clock, senderVars, mode, empty, most, ci, total, count, fresh>>
CheckTargets ==
    /\ StreamAccepted /\ mode = "merge"
    /\ IF TargetsSafe(scratch) THEN cpc' = "replacing" /\ UNCHANGED scratch ELSE Leave("refused")
    /\ UNCHANGED <<src, clock, senderVars, mode, empty, most, ci, total, count, fresh, tree>>
ReplaceOne ==
    /\ cpc = "replacing" /\ scratch # <<>>
    /\ \/ /\ tree' = [tree EXCEPT ![scratch[1].name] = scratch[1].data]
          /\ scratch' = Tail(scratch) /\ UNCHANGED cpc
       \/ Leave("error") /\ UNCHANGED tree  \* an OSError
    /\ UNCHANGED <<src, clock, senderVars, mode, empty, most, ci, total, count, fresh>>
Merged ==
    /\ cpc = "replacing" /\ scratch = <<>>
    /\ Leave("ok")
    /\ UNCHANGED <<src, clock, senderVars, mode, empty, most, ci, total, count, fresh, tree>>

ReceiverDies ==
    /\ cpc \in {"reading", "replacing"}
    /\ Leave("killed")
    /\ UNCHANGED <<src, clock, senderVars, mode, empty, most, ci, total, count, fresh, tree>>

Next ==
    \/ \E n \in Names : SourceChanges(n)
    \/ \E names \in SUBSET Names : Freeze(names)
    \/ OpenMember \/ AddMember \/ CloseArchive \/ Recheck \/ SenderDies
    \/ Receive \/ ReadMember \/ StreamRefused \/ Publish
    \/ CheckTargets \/ ReplaceOne \/ Merged \/ ReceiverDies

Spec == Init /\ [][Next]_vars

-----------------------------------------------------------------------------
\* What the receiver has delivered, by name.
Delivered(n) ==
    IF mode = "merge" THEN tree[n]
    ELSE IF ~\E i \in DOMAIN fresh : fresh[i].name = n THEN Gone
    ELSE fresh[CHOOSE i \in DOMAIN fresh : fresh[i].name = n].data

\* write_archive and both receivers: when both ends report success every input
\* is delivered as it was when the sender looked at it first, although other
\* programs may write it at any moment, and nothing else is.
DeliveredIsFrozen ==
    (spc = "ok" /\ cpc = "ok") =>
        \A n \in Names : IF n \in DOMAIN frozen THEN Delivered(n) = frozen[n].time
                         ELSE Delivered(n) \in {Gone, Old, Unsafe}

\* extract_archive, merge_archive: a destination is there, or a file of it
\* replaced, only when the stream has ended, with all the members it carried,
\* and a receiver that reports a PayloadError has delivered nothing.
NothingBeforeCheck ==
    (\E n \in Names : Delivered(n) >= 0) => ended # "open" /\ ci = Len(stream) /\ cpc \notin {"refused", "limit"}

\* raw_limit: a receiver with the limits of the sender never refuses what the
\* sender accepted as too large, blocks, padding and end of the tar included.
LimitsAgree == cpc = "limit" => most < MaxMembers

=============================================================================
