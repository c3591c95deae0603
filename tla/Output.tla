------------------------------- MODULE Output -------------------------------
(***************************************************************************)
(* What a call reports of the output of its remote command: the bounded    *)
(* capture of a stream and its spool file (commands.py, _capture), the     *)
(* start marker of a privileged command and its removal from both          *)
(* (sudo.py), and the reads and listings of RemoteInspector                *)
(* (inspection.py).                                                        *)
(*                                                                         *)
(* One call of one of the tools, on one stream: stderr for sudo_exec,      *)
(* stdout for the inspector.  A byte is a member of Byte or Nul; what a    *)
(* field of a listing says is left out, a field is one byte.               *)
(***************************************************************************)
EXTENDS Integers, Sequences, FiniteSets

CONSTANTS
    Byte,            \* bytes of text
    Nul,             \* the byte that ends a field of find -printf
    Marker,          \* the start marker sudo.execute invents for the call
    MaxOutputBytes,  \* config.max_output_bytes
    Chunk,           \* the size of a read: 65 536
    Noise,           \* texts sudo may write before the command starts
    Texts,           \* texts the privileged command may write
    Files,           \* contents a remote file may have
    MaxEntries,      \* bound: entries of a remote directory
    None

ASSUME OutputAssumption ==
    /\ Nul \notin Byte
    /\ Marker \in Seq(Byte) /\ Marker # <<>>
    /\ MaxOutputBytes \in Nat \ {0} /\ Chunk \in Nat \ {0} /\ MaxEntries \in Nat
    /\ Noise \subseteq Seq(Byte) /\ Texts \subseteq Seq(Byte) /\ Files \subseteq Seq(Byte)

VARIABLES
    pc,       \* progress of the call
    call,     \* its arguments; what stat met and what dd or find saw at the path
    remote,   \* the file or directory at the remote path
    out,      \* what the command writes to the stream
    exit,     \* how it ended: "ok", "failed", "killed" by the deadline
    captured, total,       \* _capture's bytearray and counter
    spool,    \* the spool file, None if there is none
    tmp,      \* the temporary file of _remove_marker_from_file
    pos, pending, found,   \* and its position, buffer and flag
    thread,   \* progress of that function in its worker thread
    answer    \* what the client is told

streamVars == <<out, exit, captured, total>>
removal    == <<tmp, pos, pending, found, thread>>
vars == <<pc, call, remote, out, exit, captured, total, spool, tmp, pos, pending, found, thread, answer>>

FirstN(s, n) == SubSeq(s, 1, IF n < Len(s) THEN n ELSE Len(s))
From(s, n)   == SubSeq(s, n + 1, Len(s))

\* bytes.find, 0-based: where m first occurs in s, Len(s) if it does not.
Occurs(s, m) == { i \in 0 .. (Len(s) - Len(m)) : SubSeq(s, i + 1, i + Len(m)) = m }
Find(s, m) ==
    IF Occurs(s, m) = {} THEN Len(s)
    ELSE CHOOSE i \in Occurs(s, m) : \A j \in Occurs(s, m) : i <= j

\* The reference: s without its first m.
Without(s, m) ==
    IF Occurs(s, m) = {} THEN s ELSE FirstN(s, Find(s, m)) \o From(s, Find(s, m) + Len(m))

\* find -printf: four fields for every entry, each ended by a NUL.
Listing(n) == [i \in 1 .. 8 * n |-> IF i % 2 = 0 THEN Nul ELSE CHOOSE b \in Byte : TRUE]
Missing   == [type |-> "missing"]
Remotes   == {Missing} \cup [type : {"file"}, data : Files]
                       \cup [type : {"directory"}, entries : 0 .. MaxEntries]

NoCall   == [tool |-> "none"]
NoAnswer == [kind |-> "none"]
Error(code) == [kind |-> "error", code |-> code]

Init ==
    /\ pc = "idle" /\ call = NoCall /\ answer = NoAnswer
    /\ remote = Missing
    /\ out = <<>> /\ exit = "ok"
    /\ captured = <<>> /\ total = 0 /\ spool = None
    /\ tmp = None /\ pos = 0 /\ pending = <<>> /\ found = FALSE /\ thread = "none"

Answer(a) == pc' = "done" /\ answer' = a

-----------------------------------------------------------------------------
\* sudo_exec: the script first prints the marker; what sudo itself writes comes
\* before it.  The marker is random: sudo cannot have written it.
Fresh(noise) == Find(noise \o Marker, Marker) = Len(noise)
Sudo(noise, started, text, spooled) ==
    /\ pc = "idle"
    /\ Fresh(noise)
    /\ call' = [tool |-> "sudo", noise |-> noise, started |-> started, text |-> text]
    /\ out' = noise \o (IF started THEN Marker \o text ELSE <<>>)
    /\ \E e \in {"ok", "failed"} : (~started => e = "failed") /\ exit' = e
    /\ spool' = IF spooled THEN <<>> ELSE None
    /\ pc' = "capture"
    /\ UNCHANGED <<remote, captured, total, removal, answer>>

\* execute refuses an empty or NUL-bearing cwd, _remote_path such a path, and
\* read_file_range a window outside of 1 .. max_output_bytes.
ValidRange(offset, max) == offset >= 0 /\ max \in 1 .. MaxOutputBytes
Refuse(tool, offset, max) ==
    /\ pc = "idle"
    /\ call' = [tool |-> tool]
    /\ Answer(Error(IF tool = "sudo" THEN "invalid_command"
                    ELSE IF tool = "range" /\ ~ValidRange(offset, max) THEN "invalid_range"
                    ELSE "invalid_remote_path"))
    /\ UNCHANGED <<remote, streamVars, spool, removal>>

Inspect(tool, offset, max) ==
    /\ pc = "idle"
    /\ tool = "range" => ValidRange(offset, max)
    /\ call' = [tool |-> tool, offset |-> offset, max |-> max, met |-> Missing, seen |-> Missing]
    /\ pc' = "stat"
    /\ UNCHANGED <<remote, streamVars, spool, removal, answer>>

\* GNU stat's %F, which has a name of its own for a file of size 0.
StatType(r) ==
    IF r.type # "file" THEN r.type
    ELSE IF r.data = <<>> THEN "regular_empty_file" ELSE "regular_file"

\* stat: a run_script of its own, whose answer is old when the next one starts.
\* read_file_range compares the name: an empty file has the wrong type, too.
Wanted(tool) == IF tool = "range" THEN "regular_file" ELSE "directory"
Stat ==
    /\ pc = "stat"
    /\ call' = [call EXCEPT !.met = remote]
    /\ \/ StatType(remote) = Wanted(call.tool) /\ pc' = "run" /\ answer' = answer
       \/ remote = Missing /\ Answer(Error("remote_path_not_found"))
       \/ remote # Missing /\ StatType(remote) # Wanted(call.tool) /\ Answer(Error("invalid_remote_type"))
       \/ Answer(Error("remote_path_not_found"))                 \* killed by the deadline
    /\ UNCHANGED <<remote, streamVars, spool, removal>>

\* Other programs replace, rewrite or remove what is at the path.
RemoteChanges ==
    /\ pc \in {"stat", "run"}
    /\ \E r \in Remotes \ {remote} : remote' = r
    /\ UNCHANGED <<pc, call, streamVars, spool, removal, answer>>

\* dd skips offset bytes and copies one more than asked for; find lists.
Window(data, offset, max) == FirstN(From(data, offset), max + 1)
ResultOf(tool, r, offset, max) ==
    IF r.type = "file" THEN [out |-> IF tool = "range" THEN Window(r.data, offset, max) ELSE <<>>, exit |-> "ok"]
    ELSE IF r.type = "directory" /\ tool = "list" THEN [out |-> Listing(r.entries), exit |-> "ok"]
    ELSE [out |-> <<>>, exit |-> "failed"]
RunInspection ==
    /\ pc = "run"
    /\ LET result == ResultOf(call.tool, remote, call.offset, call.max)
       IN  out' = result.out /\ exit' = result.exit
    /\ call' = [call EXCEPT !.seen = remote]
    /\ pc' = "capture"
    /\ UNCHANGED <<remote, captured, total, spool, removal, answer>>

-----------------------------------------------------------------------------
\* _capture: a read returns what is in the pipe, at most a chunk of it.
Kept(chunk) == captured \o FirstN(chunk, MaxOutputBytes - Len(captured))
ReadChunk(n) ==
    LET chunk == SubSeq(out, total + 1, total + n) IN
    /\ pc = "capture"
    /\ n \in 1 .. Chunk /\ total + n <= Len(out)
    /\ total' = total + n
    /\ captured' = Kept(chunk)
    /\ spool' = IF spool = None THEN None ELSE spool \o chunk
    /\ UNCHANGED <<pc, call, remote, out, exit, removal, answer>>

EndOfStream ==
    /\ pc = "capture" /\ total = Len(out)
    /\ pc' = "captured"
    /\ UNCHANGED <<call, remote, streamVars, spool, removal, answer>>

\* The deadline: the process is terminated, the stream ends where it is.
DeadlineCuts ==
    /\ pc = "capture"
    /\ out' = FirstN(out, total) /\ exit' = "killed"
    /\ pc' = "captured"
    /\ UNCHANGED <<call, remote, captured, total, spool, removal, answer>>

\* Writing the spool fails: the error leaves run_script.
CaptureFails ==
    /\ pc = "capture" /\ spool # None
    /\ Answer(Error("internal_error"))
    /\ UNCHANGED <<call, remote, streamVars, spool, removal>>

Truncated == total > Len(captured)

-----------------------------------------------------------------------------
\* execute: without the marker in the captured part the command counts as not
\* started.  The classes of refusal differ in sudo's wording.
Refusals == {"sudo_unavailable", "sudo_password_required", "sudo_not_allowed", "sudo_refused"}
MutMarkerSeen == FirstN(captured, Len(Marker)) = Marker
MarkerSeen == Occurs(captured, Marker) # {}
Refusal ==
    /\ pc = "captured" /\ call.tool = "sudo" /\ ~MarkerSeen
    /\ IF exit = "killed" THEN Answer(Error("sudo_start_timeout"))
       ELSE \E code \in Refusals : Answer(Error(code))
    /\ UNCHANGED <<call, remote, streamVars, spool, removal>>

\* remove_once and the answer of execute; the spool, if any, has been cleaned.
Cleaned == [kind |-> "result", raw |-> Without(captured, Marker),
            total |-> IF MarkerSeen THEN total - Len(Marker) ELSE total, truncated |-> Truncated]
SudoAnswer ==
    /\ pc = "captured" /\ call.tool = "sudo" /\ MarkerSeen
    /\ thread = IF spool = None THEN "none" ELSE "ended"
    /\ Answer(Cleaned)
    /\ UNCHANGED <<call, remote, streamVars, spool, removal>>

\* _strip_marker: asyncio.to_thread(_remove_marker_from_file).
StartRemoval ==
    /\ pc = "captured" /\ call.tool = "sudo" /\ MarkerSeen
    /\ spool # None /\ thread = "none"
    /\ thread' = "copy" /\ tmp' = <<>>
    /\ UNCHANGED <<pc, call, remote, streamVars, spool, pos, pending, found, answer>>

\* One turn of the loop: find the marker in what is held back and the new
\* chunk, write what cannot be part of it.
MutHeldBack == Len(Marker) - 2
HeldBack == Len(Marker)
CopyTurn(buffer) ==
    IF found
    THEN tmp' = tmp \o buffer /\ pending' = <<>> /\ found' = found
    ELSE LET index == Find(buffer, Marker) IN
         IF Occurs(buffer, Marker) # {}
         THEN tmp' = tmp \o FirstN(buffer, index) /\ pending' = From(buffer, index + Len(Marker)) /\ found' = TRUE
         ELSE LET safe == IF Len(buffer) > HeldBack THEN Len(buffer) - HeldBack ELSE 0
              IN  tmp' = tmp \o FirstN(buffer, safe) /\ pending' = From(buffer, safe) /\ found' = found
CopyChunk ==
    LET chunk == FirstN(From(spool, pos), Chunk) IN
    /\ thread = "copy" /\ pos < Len(spool)
    /\ CopyTurn(pending \o chunk)
    /\ pos' = pos + Len(chunk)
    /\ UNCHANGED <<pc, call, remote, streamVars, spool, thread, answer>>

\* The rest is written and synced, then os.replace, or unlink if nothing was found.
MutLastWrite == tmp
LastWrite == tmp \o pending
CopyEnds ==
    /\ thread = "copy" /\ pos = Len(spool)
    /\ tmp' = LastWrite /\ pending' = <<>> /\ thread' = "copied"
    /\ UNCHANGED <<pc, call, remote, streamVars, spool, pos, found, answer>>
Replace ==
    /\ thread = "copied"
    /\ spool' = IF found THEN tmp ELSE spool
    /\ tmp' = None /\ thread' = "ended"
    /\ UNCHANGED <<pc, call, remote, streamVars, pos, pending, found, answer>>

\* An OSError anywhere in the removal.
RemovalFails ==
    /\ thread \in {"copy", "copied"}
    /\ tmp' = None /\ thread' = "failed"
    /\ IF pc = "captured" THEN Answer(Error("internal_error")) ELSE UNCHANGED <<pc, answer>>
    /\ UNCHANGED <<call, remote, streamVars, spool, pos, pending, found>>

\* The request is cancelled, or the connection lost while a command runs; a
\* worker thread goes on.
Abandoned ==
    /\ \/ pc \in {"stat", "run", "capture", "captured"} /\ Answer(Error("cancelled"))
       \/ pc \in {"stat", "run", "capture"} /\ Answer(Error("connection_lost"))
    /\ UNCHANGED <<call, remote, streamVars, spool, removal>>

\* The server is killed.
Crash ==
    /\ pc # "crashed"
    /\ pc' = "crashed" /\ thread' = IF thread \in {"copy", "copied"} THEN "crashed" ELSE thread
    /\ UNCHANGED <<call, remote, streamVars, spool, tmp, pos, pending, found, answer>>

-----------------------------------------------------------------------------
\* read_file_range: exit status, window and eof.
MutEof(max) == Len(captured) <= max
Eof(max) == total <= max
RangeAnswer ==
    /\ pc = "captured" /\ call.tool = "range"
    /\ IF exit # "ok" THEN Answer(Error("remote_path_not_found"))
       ELSE Answer([kind |-> "range", data |-> FirstN(captured, call.max), eof |-> Eof(call.max)])
    /\ UNCHANGED <<call, remote, streamVars, spool, removal>>

\* list_directory: a cut listing is refused; split at NUL, an empty last field
\* dropped, four fields an entry.
MutListTooLong == FALSE
ListTooLong == Truncated
Fields(s) ==
    Cardinality({ i \in 1 .. Len(s) : s[i] = Nul })
        + (IF s = <<>> THEN 0 ELSE IF s[Len(s)] = Nul THEN 0 ELSE 1)
ListAnswer ==
    /\ pc = "captured" /\ call.tool = "list"
    /\ Answer(IF exit # "ok" THEN Error("remote_path_not_found")
              ELSE IF ListTooLong THEN Error("output_limit_exceeded")
              ELSE IF Fields(captured) % 4 # 0 THEN Error("remote_protocol_error")
              ELSE [kind |-> "list", count |-> Fields(captured) \div 4])
    /\ UNCHANGED <<call, remote, streamVars, spool, removal>>

Next ==
    \/ \E noise \in Noise, started \in BOOLEAN, text \in Texts, spooled \in BOOLEAN :
           Sudo(noise, started, text, spooled)
    \/ \E tool \in {"sudo", "range", "list"}, offset \in {-1, 0}, max \in {0, 1, MaxOutputBytes + 1} :
           Refuse(tool, offset, max)
    \/ \E offset \in 0 .. MaxOutputBytes, max \in 0 .. MaxOutputBytes : Inspect("range", offset, max)
    \/ Inspect("list", 0, 0)
    \/ Stat \/ RemoteChanges \/ RunInspection
    \/ \E n \in 1 .. Chunk : ReadChunk(n)
    \/ EndOfStream \/ DeadlineCuts \/ CaptureFails
    \/ Refusal \/ SudoAnswer \/ StartRemoval \/ CopyChunk \/ CopyEnds \/ Replace \/ RemovalFails
    \/ Abandoned \/ Crash
    \/ RangeAnswer \/ ListAnswer

Spec == Init /\ [][Next]_vars

-----------------------------------------------------------------------------
\* execute, _capture, _remove_marker_from_file: what a privileged call reports
\* is what was written without the marker: what sudo and the command wrote if
\* the deadline did not cut it; raw is its longest prefix that was captured, the
\* counts are exact, and the spool file is all of it, wherever the chunks of pipe
\* and file were cut.
SudoOutputExact ==
    answer.kind = "result" =>
        LET text == Without(out, Marker) IN
        /\ exit # "killed" => text = call.noise \o call.text
        /\ answer.raw = FirstN(text, MaxOutputBytes - Len(Marker))
        /\ answer.total = Len(text)
        /\ answer.truncated <=> answer.total > Len(answer.raw)
        /\ spool \in {None, text}

\* _remove_marker_from_file: once the output is captured the spool file is at
\* every moment, a failure or a kill of the server included, the whole output
\* with or without the marker; the temporary file outlives the removal only
\* when the server is killed.
SpoolWhole ==
    /\ pc = "captured" \/ thread # "none" => spool \in {None, out, Without(out, Marker)}
    /\ tmp # None => thread \in {"copy", "copied", "crashed"}

\* execute: a refusal means that the command has not started, unless its output
\* was cut before the end of the marker, by the deadline or by the limit.
RefusalSound ==
    (answer.kind = "error" /\ answer.code \in Refusals \cup {"sudo_start_timeout"} /\ call.started)
        => exit = "killed" \/ Len(call.noise) + Len(Marker) > MaxOutputBytes

\* read_file_range: the data of a range are the bytes that were at the offset when
\* dd ran, whatever became of the file since stat, and eof says whether they reach
\* the end, also where the window is as large as the output limit and at every cut
\* by the deadline.  A call is answered only if stat met a regular file with
\* content, and refused for the type only if it met something else: an empty file
\* is refused (doc/tools.md:89-90 announces that of other types only), and answered
\* only when it was emptied after stat.
HasContent(r) == r.type = "file" /\ r.data # <<>>
RangeExact ==
    /\ answer.kind = "range" =>
           LET rest == From(call.seen.data, call.offset) IN
           /\ HasContent(call.met) /\ call.seen.type = "file"
           /\ answer.data = FirstN(rest, call.max)
           /\ answer.eof <=> answer.data = rest
    /\ answer.kind = "error" /\ call.tool = "range" =>
           (answer.code = "invalid_remote_type" => ~HasContent(call.met))

\* list_directory: a listing that is answered is complete.
ListComplete ==
    answer.kind = "list" =>
        answer.count = IF call.seen.type = "directory" THEN call.seen.entries ELSE 0

=============================================================================
