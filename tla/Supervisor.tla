----------------------------- MODULE Supervisor -----------------------------
(***************************************************************************)
(* The shell program that CommandRunner runs at the far end of every       *)
(* command channel (_supervised_remote_program, remote_ssh_mcp/commands.py):*)
(* a supervisor, the command's shell in a process group of its own, one    *)
(* descendant of that shell, and the watcher, which is started in the      *)
(* group, is armed through a FIFO and then leaves the group to wait for    *)
(* the end of the channel.                                                 *)
(*                                                                         *)
(* A signal reaches the supervisor together with the foreground program it *)
(* waits for.  A FIFO whose last descriptor is closed forgets its data.    *)
(***************************************************************************)
EXTENDS Naturals

CONSTANT MaxSignals  \* bound: HUP, INT and TERM signals to the supervisor

ASSUME SupervisorAssumption == MaxSignals \in Nat

VARIABLES
    chan,        \* the channel: standard input and descriptor 3
    sup,         \* what the supervisor does next
    pending,     \* interruption_pending
    exiting,     \* the EXIT trap runs
    cut,         \* the EXIT trap was left by the exit of a second trap
    childPid, watcherPid,  \* child_pid, watcher_pid are set
    dir,         \* runtime_dir exists
    gate,        \* watcher_gate
    payload,     \* what the payload pipe has delivered
    leader,      \* the leader of the command's group
    stubborn,    \* the leader ignores SIGTERM
    pidSent,     \* the leader has written the watcher's PID
    desc,        \* a descendant of the leader, in its group
    watcher,
    noticed,     \* the watcher saw the end of the channel
    status,      \* exit status of the supervisor
    signals

supVars   == <<sup, pending, exiting, cut, childPid, watcherPid, status>>
groupVars == <<leader, stubborn, pidSent, desc>>
vars == <<chan, sup, pending, exiting, cut, childPid, watcherPid, dir, gate, payload, leader,
          stubborn, pidSent, desc, watcher, noticed, status, signals>>

Init ==
    /\ chan = "open"
    /\ sup = "size" /\ pending = FALSE /\ exiting = FALSE /\ cut = FALSE
    /\ childPid = FALSE /\ watcherPid = FALSE /\ status = "none"
    /\ dir = FALSE /\ gate = "none" /\ payload = "none"
    /\ leader = "none" /\ stubborn = FALSE /\ pidSent = FALSE /\ desc = "none"
    /\ watcher = "none" /\ noticed = FALSE
    /\ signals = 0

LeaderGone == leader \in {"none", "ended", "killed"}
DescGone   == desc \in {"none", "gone"}
InGroup    == watcher \in {"forked", "reading"}  \* the watcher before setsid

-----------------------------------------------------------------------------
(* Signals to the command's group, as terminate_child and the watcher send *)
(* them.                                                                   *)

TermGroup ==
    /\ leader' = IF LeaderGone \/ (leader = "shell" /\ stubborn) THEN leader ELSE "killed"
    /\ desc' = IF desc = "obeys" THEN "gone" ELSE desc

MutKillGroup ==
    /\ leader' = IF LeaderGone THEN leader ELSE "killed"
    /\ UNCHANGED desc
KillGroup ==
    /\ leader' = IF LeaderGone THEN leader ELSE "killed"
    /\ desc' = IF DescGone THEN desc ELSE "gone"

-----------------------------------------------------------------------------
(* The supervisor up to the command.                                       *)

\* exit s: the EXIT trap runs terminate_child first.
Exit(s) ==
    /\ sup' = IF childPid THEN "term" ELSE "clean"
    /\ exiting' = TRUE
    /\ status' = s
    /\ UNCHANGED <<pending, cut, childPid, watcherPid>>

Proceed(next) ==
    /\ sup' = next
    /\ UNCHANGED <<pending, exiting, cut, childPid, watcherPid, status>>

ReadSize ==
    /\ sup = "size"
    /\ Proceed("mkdir") \/ (chan = "lost" /\ Exit("startup"))
    /\ UNCHANGED <<chan, dir, gate, payload, groupVars, watcher, noticed, signals>>

\* The first critical section.
MakeDir ==
    /\ sup = "mkdir"
    /\ \/ /\ dir' = TRUE
          /\ IF pending THEN Exit("interrupted") ELSE Proceed("fifos")
       \/ /\ UNCHANGED dir
          /\ Exit(IF pending THEN "interrupted" ELSE "startup")
    /\ UNCHANGED <<chan, gate, payload, groupVars, watcher, noticed, signals>>

MakeFifos ==
    /\ sup = "fifos"
    /\ \/ Proceed("fork") /\ gate' = "guarded"
       \/ Exit("startup") /\ UNCHANGED gate
    /\ UNCHANGED <<chan, dir, payload, groupVars, watcher, noticed, signals>>

\* The second critical section: the child and its PID.
MutFork ==
    /\ sup = "fork"
    /\ leader' = "forked"
    /\ childPid' = TRUE
    /\ sup' = "pid"
    /\ UNCHANGED <<exiting, status>>
    /\ UNCHANGED <<chan, pending, cut, watcherPid, dir, gate, payload, stubborn, pidSent, desc,
                   watcher, noticed, signals>>
MutForkUnrecorded ==
    /\ sup = "fork"
    /\ leader' = "forked"
    /\ IF pending
       THEN sup' = "clean" /\ exiting' = TRUE /\ status' = "interrupted" /\ UNCHANGED childPid
       ELSE sup' = "pid" /\ childPid' = TRUE /\ UNCHANGED <<exiting, status>>
    /\ UNCHANGED <<chan, pending, cut, watcherPid, dir, gate, payload, stubborn, pidSent, desc,
                   watcher, noticed, signals>>
Fork ==
    /\ sup = "fork"
    /\ leader' = "forked"
    /\ childPid' = TRUE
    /\ IF pending
       THEN sup' = "term" /\ exiting' = TRUE /\ status' = "interrupted"
       ELSE sup' = "pid" /\ UNCHANGED <<exiting, status>>
    /\ UNCHANGED <<chan, pending, cut, watcherPid, dir, gate, payload, stubborn, pidSent, desc,
                   watcher, noticed, signals>>

\* Descriptor 7 is open for writing too, so this read never sees an end.
ReadPid ==
    /\ sup = "pid" /\ pidSent
    /\ watcherPid' = TRUE
    /\ sup' = "copy"
    /\ UNCHANGED <<pending, exiting, cut, childPid, status>>
    /\ UNCHANGED <<chan, dir, gate, payload, groupVars, watcher, noticed, signals>>

\* dd, byte by byte: it fails when nobody reads the pipe any more, and succeeds
\* at the end of its input even if bytes are missing.
Copy ==
    /\ sup = "copy"
    /\ \/ ~LeaderGone /\ payload = "none" /\ payload' = "some" /\ UNCHANGED supVars
       \/ ~LeaderGone /\ payload' = "whole" /\ Proceed("arm")
       \/ chan = "lost" /\ payload' = "cut" /\ Proceed("arm")
       \/ LeaderGone /\ Exit("copy") /\ UNCHANGED payload
    /\ UNCHANGED <<chan, dir, gate, groupVars, watcher, noticed, signals>>

\* The line for the watcher, and the end of the guard that keeps it.
Arm ==
    /\ sup = "arm"
    /\ gate' = IF watcher = "reading" THEN "armed" ELSE "closed"
    /\ Proceed("wait")
    /\ UNCHANGED <<chan, dir, payload, groupVars, watcher, noticed, signals>>

-----------------------------------------------------------------------------
(* The supervisor after the command.                                       *)

Wait ==
    /\ sup = "wait" /\ LeaderGone
    /\ sup' = "reaped"
    /\ childPid' = FALSE
    /\ status' = "command"
    /\ UNCHANGED <<pending, exiting, cut, watcherPid>>
    /\ UNCHANGED <<chan, dir, gate, payload, groupVars, watcher, noticed, signals>>

StoppedWatcher == IF watcherPid THEN "gone" ELSE watcher

Reaped ==
    /\ sup = "reaped"
    /\ watcher' = StoppedWatcher
    /\ watcherPid' = FALSE
    /\ sup' = "clean"
    /\ exiting' = TRUE
    /\ UNCHANGED <<pending, cut, childPid, status>>
    /\ UNCHANGED <<chan, dir, gate, payload, groupVars, noticed, signals>>

\* terminate_child: SIGTERM to the group, or to a child that has none yet.
Term ==
    /\ sup = "term"
    /\ TermGroup
    /\ watcher' = IF InGroup THEN "gone" ELSE watcher
    /\ Proceed("kill")
    /\ UNCHANGED <<chan, dir, gate, payload, stubborn, pidSent, noticed, signals>>

\* SIGKILL a second later, and the wait for the child.
Kill ==
    /\ sup = "kill"
    /\ KillGroup
    /\ watcher' = IF InGroup THEN "gone" ELSE watcher
    /\ childPid' = FALSE
    /\ sup' = IF cut THEN "done" ELSE "clean"
    /\ exiting' = TRUE
    /\ UNCHANGED <<pending, cut, watcherPid, status>>
    /\ UNCHANGED <<chan, dir, gate, payload, stubborn, pidSent, noticed, signals>>

\* The rest of cleanup.
Clean ==
    /\ sup = "clean"
    /\ watcher' = StoppedWatcher
    /\ watcherPid' = FALSE
    /\ dir' = FALSE
    /\ sup' = "done"
    /\ UNCHANGED <<pending, exiting, cut, childPid, status>>
    /\ UNCHANGED <<chan, gate, payload, groupVars, noticed, signals>>

\* interrupted: recorded in a critical section; an exit inside the EXIT trap
\* leaves the rest of the trap out.
InTrap == exiting \/ sup = "clean"

Signal ==
    /\ sup \notin {"done", "dead"}
    /\ signals < MaxSignals
    /\ signals' = signals + 1
    /\ IF sup \in {"mkdir", "fork"}
       THEN pending' = TRUE /\ UNCHANGED <<sup, cut, status>>
       ELSE /\ sup' = IF childPid THEN "term" ELSE IF InTrap THEN "done" ELSE "clean"
            /\ cut' = InTrap
            /\ status' = "interrupted"
            /\ UNCHANGED pending
    /\ UNCHANGED <<exiting, childPid, watcherPid>>
    /\ UNCHANGED <<chan, dir, gate, payload, groupVars, watcher, noticed>>

\* SIGKILL: its descriptors are closed and nothing is cleaned up.
Crash ==
    /\ sup \notin {"done", "dead"}
    /\ sup' = "dead"
    /\ gate' = IF gate = "guarded" THEN "closed" ELSE gate
    /\ payload' = IF payload \in {"none", "some"} THEN "cut" ELSE payload
    /\ UNCHANGED <<pending, exiting, cut, childPid, watcherPid, status>>
    /\ UNCHANGED <<chan, dir, groupVars, watcher, noticed, signals>>
-----------------------------------------------------------------------------
(* The command.                                                            *)

ChildSetsid ==
    /\ leader = "forked"
    /\ leader' = "runner"
    /\ UNCHANGED <<chan, supVars, dir, gate, payload, stubborn, pidSent, desc, watcher, noticed, signals>>

\* The runner starts the watcher, or has no process left for it.
ChildLaunch ==
    /\ leader = "runner"
    /\ \/ leader' = "launched" /\ watcher' = "forked"
       \/ leader' = "ended" /\ UNCHANGED watcher
    /\ UNCHANGED <<chan, supVars, dir, gate, payload, stubborn, pidSent, desc, noticed, signals>>

\* The PID of the watcher; exec of the remote program.
ChildRegister ==
    /\ leader = "launched" /\ sup \notin {"done", "dead"}
    /\ pidSent' = TRUE
    /\ leader' = "shell"
    /\ UNCHANGED <<chan, supVars, dir, gate, payload, stubborn, desc, watcher, noticed, signals>>

\* The shell executes what it has read so far.
Execute ==
    /\ leader = "shell" /\ payload # "none"
    /\ \/ stubborn' = TRUE /\ UNCHANGED desc
       \/ desc = "none" /\ desc' \in {"obeys", "ignores"} /\ UNCHANGED stubborn
    /\ UNCHANGED <<chan, supVars, dir, gate, payload, leader, pidSent, watcher, noticed, signals>>

\* The program ends, possibly before it has read its input.
LeaderEnds ==
    /\ leader = "shell"
    /\ leader' = "ended"
    /\ UNCHANGED <<chan, supVars, dir, gate, payload, stubborn, pidSent, desc, watcher, noticed, signals>>

DescEnds ==
    /\ ~DescGone
    /\ desc' = "gone"
    /\ UNCHANGED <<chan, supVars, dir, gate, payload, leader, stubborn, pidSent, watcher, noticed, signals>>

-----------------------------------------------------------------------------
(* The watcher.                                                            *)

\* The gate can be opened while somebody has it open for writing.
OpenGate ==
    /\ watcher = "forked" /\ gate = "guarded"
    /\ watcher' = "reading"
    /\ UNCHANGED <<chan, supVars, dir, gate, payload, groupVars, noticed, signals>>

MayDetach    == gate = "armed"

\* The line was read: leave the group.  Or the supervisor was killed.
Detach ==
    /\ watcher = "reading"
    /\ \/ MayDetach /\ watcher' = "watching"
       \/ gate = "closed" /\ watcher' = "gone"
    /\ UNCHANGED <<chan, supVars, dir, gate, payload, groupVars, noticed, signals>>

Notice ==
    /\ watcher = "watching" /\ chan = "lost"
    /\ noticed' = TRUE
    /\ TermGroup
    /\ watcher' = "killing"
    /\ UNCHANGED <<chan, supVars, dir, gate, payload, stubborn, pidSent, signals>>

MutWatcherKills ==
    /\ watcher = "killing"
    /\ watcher' = "removing"
    /\ UNCHANGED <<chan, supVars, dir, gate, payload, groupVars, noticed, signals>>
WatcherKills ==
    /\ watcher = "killing"
    /\ KillGroup
    /\ watcher' = "removing"
    /\ UNCHANGED <<chan, supVars, dir, gate, payload, stubborn, pidSent, noticed, signals>>

WatcherRemoves ==
    /\ watcher = "removing"
    /\ dir' = FALSE
    /\ watcher' = "gone"
    /\ UNCHANGED <<chan, supVars, gate, payload, groupVars, noticed, signals>>

\* The local ssh process, the master or the network is gone.
ChannelLost ==
    /\ chan = "open"
    /\ chan' = "lost"
    /\ UNCHANGED <<supVars, dir, gate, payload, groupVars, watcher, noticed, signals>>

-----------------------------------------------------------------------------
(* Specification.                                                          *)

\* Steps of the supervisor that wait for nobody.
SupervisorMoves == MakeDir \/ MakeFifos \/ Fork \/ Arm \/ Wait \/ Reaped \/ Term \/ Kill \/ Clean
WatcherMoves    == Detach \/ Notice \/ WatcherKills \/ WatcherRemoves

Next ==
    \/ SupervisorMoves \/ ReadSize \/ ReadPid \/ Copy
    \/ WatcherMoves \/ OpenGate
    \/ ChildSetsid \/ ChildLaunch \/ ChildRegister \/ Execute \/ LeaderEnds \/ DescEnds
    \/ Signal \/ Crash \/ ChannelLost

Spec == Init /\ [][Next]_vars

\* Running processes are scheduled.  Nothing is assumed of the command, of the
\* channel, of what the supervisor reads or of how the child gets on.
FairSpec == Spec /\ WF_vars(SupervisorMoves) /\ WF_vars(WatcherMoves)

-----------------------------------------------------------------------------
(* Properties.                                                             *)

FlagsOK ==
    /\ pending \in BOOLEAN /\ exiting \in BOOLEAN /\ cut \in BOOLEAN /\ childPid \in BOOLEAN
    /\ watcherPid \in BOOLEAN /\ dir \in BOOLEAN /\ stubborn \in BOOLEAN /\ pidSent \in BOOLEAN
    /\ noticed \in BOOLEAN

\* Every variable keeps its shape, and child_pid is set exactly from the fork
\* to the end of the child.
TypeOK ==
    /\ chan \in {"open", "lost"}
    /\ sup \in {"size", "mkdir", "fifos", "fork", "pid", "copy", "arm", "wait", "reaped", "term",
                "kill", "clean", "done", "dead"}
    /\ FlagsOK
    /\ gate \in {"none", "guarded", "armed", "closed"}
    /\ payload \in {"none", "some", "cut", "whole"}
    /\ leader \in {"none", "forked", "runner", "launched", "shell", "ended", "killed"}
    /\ desc \in {"none", "obeys", "ignores", "gone"}
    /\ watcher \in {"none", "forked", "reading", "watching", "killing", "removing", "gone"}
    /\ status \in {"none", "startup", "copy", "interrupted", "command"}
    /\ signals \in 0 .. MaxSignals
    /\ sup \in {"pid", "copy", "arm", "wait", "term", "kill"} => childPid
    /\ sup \in {"size", "mkdir", "fifos", "fork", "reaped", "clean", "done"} => ~childPid

\* supervisor: when it ends, at whatever point it was interrupted, no shell, no
\* watcher and no private directory of the command is left, unless another
\* signal cut the EXIT trap short.
NothingOutlives ==
    sup = "done" /\ ~cut => LeaderGone /\ watcher \in {"none", "gone"} /\ ~dir

\* watcher_launcher, doc/architecture.md: a watcher that has left the command's
\* group is known to the supervisor, so it can be stopped.
Detached == watcher \in {"watching", "killing", "removing"}
DetachedIsRegistered == Detached => watcherPid \/ sup = "dead"

\* interrupted: a signal ends the supervisor even if it comes in a critical
\* section, and whatever the command does with its own signals.
SignalEnds == signals > 0 ~> sup \in {"done", "dead"}

\* watcher: once armed, the end of the channel ends the command's shell, even
\* one that ignores SIGTERM, and then the supervisor.
LossEndsCommand ==
    watcher = "watching" /\ chan = "lost" ~> LeaderGone /\ sup \in {"done", "dead"}

\* watcher: if the supervisor was killed the watcher cleans up alone: the whole
\* group and the private directory.
CrashCleaned ==
    watcher = "watching" /\ chan = "lost" /\ sup = "dead" ~> LeaderGone /\ DescGone /\ ~dir

\* doc/architecture.md: the loss of the transport terminates remote descendants.
\* The watcher's SIGTERM ends the shell, and the supervisor that waited for it
\* stops the watcher before its SIGKILL.
LossTerminatesDescendants == noticed /\ sup = "done" /\ watcher = "gone" => DescGone

=============================================================================
