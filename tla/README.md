# Formal models of remote-ssh-mcp-server

TLA+ specifications, TLC configurations and TLAPS proofs for `remote_ssh_mcp/`,
from the command line to the shell program it runs on the server, and for the
container payload transport of its build. Each module is a
translation of the source; the docs are used only for what they promise.
`PROJECT.json` maps every definition to the lines it models and lists the runs,
the mutants that show each property can fail, the findings, the hazards and the
theorems.

## The system

The server is one asyncio process that speaks MCP over standard input and
output. It keeps no SSH connection of its own accord: a client calls `connect`,
gets a session id and a secret key, and passes both to every remote operation.

| Component | State it keeps | Operations | Hard part |
| --- | --- | --- | --- |
| `SessionManager` (`sessions.py`) | registry of sessions, one start task and at most one close task each, authentication lock | `connect`, `authorize`, `list_sessions`, `disconnect`, `close` | several connects to one server, cancellation at any await, close racing start |
| `TransferManager`, `TransferReservations` (`transfers.py`) | operations, their tasks and rsync processes; one set of claimed destinations for all sessions | start, status, list, cancel, close | task, cancel and close all write the state of one operation; rsync that does not stop |
| transfer pipeline (`transfers.py`) | source, partial, destination | stat, prepare, hash, rsync, verify, publish | other programs change the files meanwhile; retries over leftovers |
| `CommandRunner` (`commands.py`) | set of local ssh processes, process lock, closed flag | `run_script`, `close` | deadline, cancellation and close reach one process in any order |
| remote supervisor (`commands.py`, a shell program) | child and watcher PIDs, private directory with three FIFOs | start-up, copy of the script, arming of the watcher, clean-up | signals and channel loss during start-up, processes that stop each other |
| output capture (`commands.py`), `SudoRunner` (`sudo.py`), `RemoteInspector` (`inspection.py`) | captured bytes, spool file | bounded capture, start marker and its removal, stat, list, read range | chunks, limits and the marker meet at any byte; the remote path changes between two commands; the removal runs in a thread that outlives the call |
| server and models (`server.py`, `mcp_models.py`) | lifespan, requests | validation, dispatch, teardown | signals in every phase; a teardown that is itself interrupted |
| command line and configuration (`cli.py`, `config.py`, `machine.py`) | none that changes | start-up checks, exit codes | |
| container payload (`tools/container_payload.py`) | a frozen list of inputs, a tar stream, a partial directory | create, extract, merge | inputs change while they are streamed; two processes that fail independently |
| `LocalPathPolicy` (`local_paths.py`) | none | containment of local paths | path rules |
| `OpenSSHMaster` (`master.py`) | adapter of the external `ssh_wrapper` | start, ensure_ready, close | modelled from its use |
| other build, release and CI tools | none that changes | | |

Interaction: `server.py` authorizes a call and hands it a session's services;
`SudoRunner`, `RemoteInspector` and `TransferManager` run their remote steps
through `CommandRunner.run_script`; a session's close task closes its
`TransferManager`, then its `CommandRunner`, then the master; all transfer
managers share one `TransferReservations`; `run_script` starts the remote
supervisor at the far end of an ssh channel, whose loss is the only message
the supervisor gets from a cancelled call.

## Modules

| Module | Models | Composes |
| --- | --- | --- |
| `ServerLease` | what sessions promise about servers (abstract) | |
| `Sessions` | `SessionManager` with disconnects, shutdown and keyed tool calls | refines `ServerLease` |
| `Transfers` | managers, tasks, rsync processes and reservations of all sessions | |
| `Publication` | what the attempts of one transfer do to the files | assumes what `Transfers` shows (attempts for one destination do not overlap), and takes from `Supervisor` that a remote command outlives its call |
| `Commands` | `run_script` calls of one session and `close()` | |
| `Supervisor` | supervisor, command and watcher on the server | |
| `Output` | one privileged command, range read or listing: its stream, capture, spool file and answer | |
| `Server` | the server process: start-up, tool calls, signals, teardown, exit | keeps of a session the position of its close task; `Sessions`, `Transfers` and `Commands` show that each position ends |
| `Payload` | sender and receiver of a container payload | |
| `SessionsProofs`, `TransfersProofs`, `PublicationProofs`, `CommandsProofs`, `SupervisorProofs`, `OutputProofs`, `ServerProofs`, `PayloadProofs` | theorems | extend their component |
| `MCSessions`, ... | symmetry sets and constants for TLC | extend their component |

Common conventions. The Python code runs on one event loop, so an action is the
code a task executes between two awaits, its handlers included; the program
counter of a call or task names the await it is suspended at. `task.cancel()`
only marks the task: the `CancelledError` is raised at that await and hides any
other result there. A request task may be cancelled again while it cleans up.
External programs (ssh, rsync, the remote shell, other users of the files) are
actions of their own, marked external in the map. Operators named `Mut...` are
mutated copies of the definition that follows them; no specification uses them.

### Sessions

One connect call registers at most one session, so calls name sessions and
stand for their ids and keys. `pc[c]` is the await of `connect`, `start[c]` and
`close[c]` the progress of the two tasks, `mstate` and `proc` the external
master, `mgr` the progress of `SessionManager.close`. `Proceed` and `Register`
carry the second check of the limit and of the owner after the resolution.
`Refresh` is the part of `session_list` that changes state. Commands and
transfers appear as work that is authorized, checks the master, is launched and
ends; `TransfersClosed`, `RunnerClosed` and `ServiceClosed` are the flags that
refuse it.

`ServerLease` says the same without tasks: a server is leased to one holder,
authenticated at most once per lease, keys go to holders that authenticated,
the lease ends with the master. The mapping takes registered sessions as leases
and live masters as masters.

### Transfers

`task[o]` follows `_run_download` and `_run_upload` through their awaits,
`proc[o]` the rsync process and the signals it was sent. `_lock` is never held
across an await, so its sections are single steps. `SetFinal` is `_set_state`
with the release of the destination; `TermWaited`, `TermTimeout` and `Unwound`
are `_terminate`. `Cancel`, `CancelReturns`, `CallerCancelled` and
`CallerRaises` are a `transfer_cancel` call, whose own cancellation is passed on
by `gather`; `Close`, `CloseFixup` and `CloseReturns` are `close()`.

### Publication

A file is a number of blocks of a content; `"torn"` is a mixture and hashing is
equality. One attempt follows another over the same partial, in either
direction; the first may find a partial of an earlier run of the server. Other
programs rewrite the source (also while it is hashed, copied or verified) and
create or remove the destination. `RsyncResults` and `RsyncLeftovers` state
what `rsync --partial --append-verify` leaves. `RemoteStep` executes the remote
`mv -fT` or `ln`/`rm` command step by step, also after the attempt was
cancelled; when the next attempt starts, what is left of it becomes `late` and
goes on beside that attempt (`LateStep`) until it has ended or its supervisor
has killed it (`RemoteEnds`). `linked` says that partial and destination are two
names of one file, which rsync then writes in place; `lost` that the partial
was taken away from a running rsync. Assumption: of the commands left behind by
earlier attempts at most one is still under way.

### Commands

`pc[c]` is the await of `run_script`, `why[c]` what made it leave the wait,
`res[c]` how it ended. `_process_lock` is kept only across process creation;
the other sections it guards are single steps, enabled when it is free.
`Terminate`, `TermWaited` and `TermTimeout` are `_terminate`, which `close()`
executes concurrently for the processes it found.

### Supervisor

`sup` is the shell command the supervisor executes next. `Exit` and `Signal`
follow the two traps: in a critical section a signal is recorded, elsewhere it
runs `terminate_child` and exits, and inside the EXIT trap its `exit` skips the
rest of that trap (`cut`). The gate FIFO keeps its line only while somebody has
it open (`Arm`). `leader` is the child on its way from `setsid` through the
child runner to the remote program, `desc` one descendant that may ignore
SIGTERM. A signal is assumed to reach the program the supervisor waits for too,
as signals to a process group do.

### Output

One call on one stream. `ReadChunk` takes any number of bytes up to a chunk from
the pipe, as `read` does, keeps what fits and appends all of it to the spool
file. `CopyChunk`, `CopyEnds` and `Replace` are `_remove_marker_from_file`, in a
thread that goes on when the call is abandoned. `Without`, removal of the first
marker from a whole sequence, is the reference. `Stat` and `RunInspection` are
two remote commands with `RemoteChanges` between them. `StatType` is the name GNU
stat prints for what it meets: a regular file of size 0 has one of its own, which
is not the one `read_file_range` asks for (`inspection.py:127`). Each field of a listing
is one byte and a NUL; text and base64 encodings and the wording that tells
refusals apart are left out.

### Server

`proc` is the phase of the process, `req` each request from call to answer,
`sess[s]` the position of the close task of a session in the chain of `finally`
blocks of `_shutdown`. `Call` takes any tool with any set of argument names, so
`Validates` (the models with their validators) meets `Advertised` (the schema
`list_tools` publishes) on every one. The values of arguments are left out;
`from_alias` and `from_direct` check some that the schema does not state.
`Signal` is `request_shutdown`: while
serving it ends the service; during the teardown its `CancelledError` is
swallowed by `run_stdio`, and `asyncio.run` cancels the close tasks (`AfterCut`).
`Boot` asks for the facts the configuration checks, and for the private
directories.

### Payload

A file is its size and the time of its last change, which stands for its
content. The sender freezes its inputs, compares each at open and all at the
end, and sums their sizes for its limits (`Total`). The receiver counts members,
their sizes (`total`) and the raw bytes of the tar (`count`), which are also one
header block for each member (USTAR), padding and the end of the tar. `ended` tells a closed tar from one cut
between members and one torn within. `Kept` is what the `finally` blocks leave.

## Runs

Passing runs (none takes more than about three minutes):

| Run | Shows |
| --- | --- |
| `sessions_live` | two connects to one server, a disconnect, a transfer and the shutdown: one master per server, refinement of `ServerLease`, empty after shutdown; connects return, close tasks and the shutdown end |
| `sessions_tools` | two servers under a limit of one session; a disconnect, a command and a transfer racing: limit, no session without holder of its key or close task, keys only for usable sessions, released means released, no work in a session that has gone |
| `transfers` | two operations of one or two sessions, a cancel call, its caller cancelled too, and close: exact reservations, final states stay, no unsignalled rsync, nothing active after close; cancel and close end although rsync may ignore SIGTERM |
| `publication` | two attempts over any partial, with the command of a cancelled one running late: published means verified and whole, nothing clobbered, a stable source always verifies |
| `commands` | two calls, up to three cancellations each, and close: no process left or missed, delivered calls end by their deadline, close ends |
| `supervisor` | signals, SIGKILL and channel loss anywhere: nothing outlives the supervisor; signals end it, an armed watcher ends the command and cleans up alone after a SIGKILL |
| `output` | every cut of stream and spool file into chunks: exact output without the marker, a spool file that is whole at every moment, sound refusals, exact ranges and end of file, refusals for the type, complete listings |
| `server` | two calls, two sessions and signals in every phase: schema and validators agree on the names of the arguments given, exit code 0 is clean, an interrupted teardown costs one stage, the process ends |
| `payload` | inputs that change twice and either end killed: what both ends report is what was frozen, nothing is delivered from an incomplete stream or by a receiver that refuses, the limits of both ends agree |

Runs that show a disagreement between the code and what is said of it (details
and quotes under `findings`):

| Run | Shows |
| --- | --- |
| `transfers_writers` | a second cancellation interrupts `_terminate`; the destination is released while rsync may still write |
| `publication_whole` | the publication command of a cancelled upload is not waited for: it publishes the partial the next attempt is rewriting, or leaves it linked to the destination |
| `supervisor_descendants` | after channel loss a descendant that survives SIGTERM never gets SIGKILL |

The behaviour of the supervisor was also reproduced by running the generated
shell program with dash.

The models contain further behaviour that the properties are stated around, and
that a reader of the code should know:

- `State`: `session_list` can show a session as closed between the failure of
  its start and its close task (`doc/tools.md:48` lists four other states).
- `HandlerRaises`: an error inside an error handler of a transfer ends the task
  and leaves the operation active until it is cancelled or its session closes.
- `CancelEnds`: a cancellation in the `finally` block of `run_script` leaves a
  finished call in `_processes`, where it counts as active.
- the deadline of a command starts after its script was written (`DeadlineEndsCall`
  starts there too); before, a process that does not read holds the call.
- `RemoteStep` continues after a cancellation: an upload reported cancelled may
  have been published.
- `CommandStep`: `ln` without `-T` links inside a directory that has appeared at
  the destination, and the upload completes (`placed = "inside"`), where
  `doc/tools.md:108` expects `remote_path_exists`.
- `PublishDownload`: `os.replace` of a partial that an earlier attempt had linked
  to the destination does nothing; the partial stays.
- `Copy`: a command that ends before `dd` has copied its script (an early exit, a
  refused sudo) makes `dd` fail, and the supervisor exits with 74 instead of the
  status of the command. This was also seen with dash.
- `Arm`: the line that arms the watcher is lost when the launcher opens the gate
  after the supervisor has closed it; the command then runs unwatched. This was
  also seen with dash and a delayed launcher.
- `Refusal`: a privileged command that did start is reported as refused when what
  sudo wrote before it (its lecture) leaves no room for the marker in the
  captured part.
- `Stat`: `read_file_range` refuses every empty regular file with
  `invalid_remote_type`. It compares the `%F` of GNU stat with `regular file`
  (`inspection.py:127`), and stat prints `regular empty file` for size 0, also for
  files of `/proc` that have content to read. `doc/tools.md:89-90` says that
  "`read_file_range` rejects a non-regular-file source". `RangeExact` states what
  the code does, empty files included. The output of stat was also seen on a
  machine with GNU coreutils.
- `Signal`: a signal during the teardown costs the stage it interrupts, a running
  `master.close()` for instance, and the exit code is 0 all the same; one more
  signal kills the process.
- `Kept`: the partial directory of a killed extract refuses the next one until
  somebody removes it.
- `Complete`: a tar that stops between two members is accepted, so a delivery
  counts only if both ends exit with 0 (`DeliveredIsFrozen` asks for both).
- `ReplaceOne`: an `OSError` in the middle of a merge leaves a tree that is partly
  merged, with exit code 1.

### Bounds

Two concurrent actors per kind are enough to have every pair race: two connects
to one server give an owner and a waiter, two connects to two servers under a
limit of one a conflict between sessions; two operations in two managers give a
conflict across sessions and one with the limit. Limits (`MaxSessions`, `MaxTransfers`) are one or two so that
they are reached. `MaxCancels = 3` lets a call be cancelled at its wait, in its
handler and in its `finally` block. Two attempts and two changes of source and
destination let a retry meet the leftovers of a failed attempt whose source
changed before and changes again; contents of one and two blocks give equal,
smaller and larger sizes. `MaxSignals = 2` covers a signal during the handling
of another. In `Output` reads of three bytes against a marker of three put the
marker at every place of a chunk and across two; the limit of eight bytes is the
length of one directory entry and shorter than the longest text before the
marker; files reach from empty to one byte past the largest window and offset. An
empty file is refused by `Stat`; `dd` meets one that was emptied after it.
In `Payload` two members of 513 bytes need two blocks each and exhaust the limit
of 1026 exactly; `Server` has two requests, so a disconnect or a cancelled
connect meets a second session. The proofs remove these bounds for every safety
property of a passing run. Symmetry is used only in runs without temporal properties other than step properties.
`CHECK_DEADLOCK FALSE` is used where the system comes to rest: `Publication`
(attempts and changes used up), `Output` and `Payload` (one call, one transport)
and `Supervisor` (it is one process tree that ends, or hangs where the code
hangs).

### Fairness

`Sessions`: the event loop runs every ready task, and the library bounds
authentication and close by timeouts, so every step of a task is weakly fair.
`Transfers`: tasks, callers and an rsync that was sent SIGKILL; not an rsync that
runs or was only sent SIGTERM. `Commands`: likewise; the deadline step is fair
because `wait_for` has a timer, the end of a process and the delivery of a
script are not. `Supervisor`: running shells are scheduled; nothing is assumed
of the command, of the channel, or of the steps that wait for somebody else.
`Server`: handlers end or are cancelled once the input has ended (the library's
task group cancels them), and the stages of a close task end because each has a
time limit; nothing is assumed of the client or of signals.

## Proofs

Every theorem holds for all values of the constants under the named assumptions
of its module (constants distinct, sets of calls or operations finite where
cardinalities are compared, limits positive). In each proof module the
properties are conjuncts or consequences of one inductive invariant `IInv`,
which TLC has checked before it was proved; each action has its own step.

- `SessionsProofs`: `CallInv` relates the connect call, start task and close
  task of one session; `Exclusive`, `LockInv`, `SessionLimit` and `MgrInv`
  relate sessions. Exclusive ownership is not inductive alone: it needs that a
  session is registered exactly from the creation of its start task to the end
  of its close task. `LeaseRefinement` proves the step simulation of
  `ServerLease`.
- `TransfersProofs`: `OpInv` ties the state of an operation to its task, process
  and reservation; `CloseInv` says that `close()` gathers every active operation
  there will ever be. `FinalStays` is an action property.
- `PublicationProofs`: `PlaceInv` says what each stage of publication knows of
  the partial, `StableInv` that every partial is a prefix of an unchanged
  source; both hold beside a late command because that can only remove the
  partial or name it a second time.
- `CommandsProofs`: `CallInv` says where the process of a call may be at each
  await, `StopInv` what `close()` knows of it; processes are created under the
  lock, so those `close()` finds are all there will be.
- `SupervisorProofs`: before the watcher leaves the command's group the kill of
  the group stops it, afterwards its registered PID (`WatcherInv`).
- `OutputProofs`: `CaptureInv` says that what a call keeps is a prefix of what was
  written, and that the spool file is all of it; `RemovalInv` with `CopyInv` is the
  loop of `_remove_marker_from_file`: it holds back as many bytes as the marker
  has, so every occurrence that ends in what it has read is known, at every
  cut into chunks. `ToolInv` says what the command of the call writes, `AnswerInv`
  that there is one answer and what it was made from. That a range is answered only
  of a file `stat` met with content, and refused for its type only otherwise, goes
  through `StatType`, for any content. The marker, the chunk size,
  the limits and the texts are arbitrary.
- `ServerProofs`: `MasterInv` says that the master of a session that has gone is
  closed unless its close was the stage a signal cut, or failed; `IdleInv` that
  handlers run only while the server serves or drains, so nothing registers a
  session behind the teardown; `EndInv` that close tasks are cut only by
  `asyncio.run` and that nothing is registered at the exit. `SchemaInv` follows a
  request from its check to its answer; `SchemaIsModel` compares the schema of
  every tool with its validator for every set of argument names.
- `PayloadProofs`: `SenderInv` says of every member on its way that its data are
  what was frozen or its input is newer by now, which the final check of the
  sender would see; `ReceiverInv` that what was read is a prefix of the stream,
  and that a merge has replaced each member or still has it to replace. `LimitInv`
  (inductive relative to `IInv`) says that the members of the stream are accepted
  inputs, each once and in order; so the receiver's total is at most the sender's
  running sum at the last member read, its count at most 1023 bytes more for each
  member, and the end of the tar fits into the rest of `raw_limit`.

Two theorems say how much of a refuted promise holds. `OneWriter` (`Transfers`): if
no task is cancelled again while it waits for the rsync it has signalled, a task
never leaves a running rsync (`Attended`), and no two rsync processes write to one
destination. `WholeUndisturbed` (`Publication`): if each attempt finds the
publication command of the one before at an end, and the partial no second name of
the destination, uploads leave only whole contents there. The premises are part of
the statements (`Spec /\ []P => []Q`) and hold in all behaviours but those of
the two findings: a second cancellation; a publication call that is cancelled or
fails while its command is under way, or whose `rm` fails after `ln`.

Some theorems state what no run checks any more, because the proof says it for
every instance: the type invariants, `NoOrphan`, `Limit` of `Transfers`,
`CancelSound`, `StoppedReported`, `Consumed`, `ConflictCleaned` and `Registered`.

Induction over data cannot be used as a rule with the installed provers. Where a
statement about all lengths or sums needs one (the first marker in a text, the
running totals of a payload), the proofs take the least natural number at which
it would fail: `LeastNat`, from the well-foundedness of `<` on the naturals.

Only model-checked: the liveness properties, because fairness and ENABLED are outside
what the provers handle (`ConnectReturns`, `CloseCompletes` and
`ShutdownCompletes` of `Sessions`, `CancelCallEnds` and `CloseEnds` of
`Transfers`, `DeadlineEndsCall` and `CloseEnds` of `Commands`, `SignalEnds`,
`LossEndsCommand` and `CrashCleaned` of `Supervisor`, `ServerEnds`), and the
violations.

## Not modelled

The containment rules of `LocalPathPolicy` are checks of strings and links; the
private directories and the existence of a destination are in `Server` and
`Publication`. The external master is modelled only by how it is used. Of the
configuration the parsing of options and the hash of the machine ID, of the
server the masking of paths in transfer records and the layout of results, and
of the models the shape of results are left out. The other build, release and CI
tools (`version.py`, `checksums.py`, `license_policy.py`, ...) parse, compare and
print, one step after the other, with no state in between. Wall-clock time is
abstracted to steps that may happen.

## Plan

1. Done: `Sessions` with `ServerLease`, `Transfers`, `Publication`, `Commands`,
   `Supervisor`, `Output`, `Server` and `Payload`, and proofs of every safety
   property their passing runs check.
2. `LocalPaths`: containment of destinations while directories are replaced by
   links.
