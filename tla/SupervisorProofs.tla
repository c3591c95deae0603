-------------------------- MODULE SupervisorProofs --------------------------
(***************************************************************************)
(* Proofs about Supervisor, for any number of signals.  The invariant says *)
(* who can still stop the watcher: before it has left the command's group  *)
(* the kill of the group, afterwards whoever has its PID.                  *)
(***************************************************************************)
EXTENDS Supervisor, TLAPS

\* Before the fork there is nothing to stop.
EarlyInv ==
    /\ sup \in {"size", "mkdir", "fifos", "fork"} =>
           leader = "none" /\ watcher = "none" /\ gate \in {"none", "guarded"}
    /\ leader \in {"none", "forked", "runner"} => watcher = "none" /\ gate # "armed"
    /\ pidSent \/ watcherPid => leader \notin {"none", "forked", "runner"}

\* A shell runs only while child_pid is set.
ChildInv == ~childPid /\ sup # "dead" => LeaderGone

\* The watcher can be stopped.
WatcherInv ==
    /\ sup \in {"copy", "arm", "wait", "reaped"} => watcherPid
    /\ sup \in {"clean", "done"} => watcher \in {"none", "gone"} \/ watcherPid
    /\ gate = "armed" => watcherPid \/ sup = "dead" \/ watcher \in {"none", "gone"}

TrapInv == cut => sup \in {"term", "kill", "done", "dead"}

IInv ==
    /\ TypeOK
    /\ EarlyInv
    /\ ChildInv
    /\ WatcherInv
    /\ TrapInv
    /\ NothingOutlives
    /\ DetachedIsRegistered

-----------------------------------------------------------------------------
USE DEF supVars, groupVars, LeaderGone, DescGone, InGroup, Detached

\* IInv holds initially.
LEMMA InitIInv == Init => IInv
  <1>1. Init => FlagsOK
    BY DEF Init, FlagsOK
  <1>. QED
    BY <1>1, SupervisorAssumption
    DEF Init, IInv, TypeOK, EarlyInv, ChildInv, WatcherInv, TrapInv, NothingOutlives,
        DetachedIsRegistered

\* The supervisor up to the command.
LEMMA StartIInv ==
    ASSUME IInv, ReadSize \/ MakeDir \/ MakeFifos \/ Fork \/ ReadPid \/ Copy \/ Arm
    PROVE  IInv'
  <1>1. CASE ReadSize
    <2>1. FlagsOK'
      BY <1>1, Zenon DEF ReadSize, Exit, Proceed, IInv, TypeOK, FlagsOK
    <2>. QED
      BY <1>1, <2>1
      DEF ReadSize, Exit, Proceed, IInv, TypeOK, EarlyInv, ChildInv, WatcherInv, TrapInv,
          NothingOutlives, DetachedIsRegistered
  <1>2. CASE MakeDir
    <2>1. FlagsOK'
      BY <1>2, Zenon DEF MakeDir, Exit, Proceed, IInv, TypeOK, FlagsOK
    <2>. QED
      BY <1>2, <2>1
      DEF MakeDir, Exit, Proceed, IInv, TypeOK, EarlyInv, ChildInv, WatcherInv, TrapInv,
          NothingOutlives, DetachedIsRegistered
  <1>3. CASE MakeFifos
    <2>1. FlagsOK'
      BY <1>3, Zenon DEF MakeFifos, Exit, Proceed, IInv, TypeOK, FlagsOK
    <2>. QED
      BY <1>3, <2>1
      DEF MakeFifos, Exit, Proceed, IInv, TypeOK, EarlyInv, ChildInv, WatcherInv, TrapInv,
          NothingOutlives, DetachedIsRegistered
  <1>4. CASE Fork
    <2>1. FlagsOK'
      BY <1>4, Zenon DEF Fork, IInv, TypeOK, FlagsOK
    <2>. QED
      BY <1>4, <2>1
      DEF Fork, IInv, TypeOK, EarlyInv, ChildInv, WatcherInv, TrapInv, NothingOutlives,
          DetachedIsRegistered
  <1>5. CASE ReadPid
    <2>1. FlagsOK'
      BY <1>5, Zenon DEF ReadPid, IInv, TypeOK, FlagsOK
    <2>. QED
      BY <1>5, <2>1
      DEF ReadPid, IInv, TypeOK, EarlyInv, ChildInv, WatcherInv, TrapInv, NothingOutlives,
          DetachedIsRegistered
  <1>6. CASE Copy
    <2>1. FlagsOK'
      BY <1>6, Zenon DEF Copy, Exit, Proceed, IInv, TypeOK, FlagsOK
    <2>2. sup' \in {"copy", "arm", "term"} /\ watcherPid /\ childPid /\ watcherPid' /\ childPid'
      BY <1>6 DEF Copy, Exit, Proceed, IInv, TypeOK, WatcherInv
    <2>3. UNCHANGED <<chan, dir, gate, groupVars, watcher, noticed, signals, cut>>
      BY <1>6 DEF Copy, Exit, Proceed
    <2>4. /\ payload' \in {"none", "some", "cut", "whole"}
          /\ status' \in {"none", "startup", "copy", "interrupted", "command"}
      BY <1>6 DEF Copy, Exit, Proceed, IInv, TypeOK
    <2>5. sup = "copy" /\ ~cut
      BY <1>6 DEF Copy, IInv, TrapInv
    <2>. QED
      BY <2>1, <2>2, <2>3, <2>4, <2>5
      DEF IInv, TypeOK, EarlyInv, ChildInv, WatcherInv, TrapInv, NothingOutlives,
          DetachedIsRegistered
  <1>7. CASE Arm
    <2>1. FlagsOK'
      BY <1>7, Zenon DEF Arm, Proceed, IInv, TypeOK, FlagsOK
    <2>. QED
      BY <1>7, <2>1
      DEF Arm, Proceed, IInv, TypeOK, EarlyInv, ChildInv, WatcherInv, TrapInv,
          NothingOutlives, DetachedIsRegistered
  <1>. QED
    BY <1>1, <1>2, <1>3, <1>4, <1>5, <1>6, <1>7

\* The supervisor after the command, and what interrupts it.
LEMMA EndIInv ==
    ASSUME IInv, Wait \/ Reaped \/ Term \/ Kill \/ Clean \/ Signal \/ Crash
    PROVE  IInv'
  <1>1. CASE Wait
    <2>1. FlagsOK'
      BY <1>1, Zenon DEF Wait, IInv, TypeOK, FlagsOK
    <2>. QED
      BY <1>1, <2>1
      DEF Wait, IInv, TypeOK, EarlyInv, ChildInv, WatcherInv, TrapInv, NothingOutlives,
          DetachedIsRegistered
  <1>2. CASE Reaped
    <2>1. FlagsOK'
      BY <1>2, Zenon DEF Reaped, StoppedWatcher, IInv, TypeOK, FlagsOK
    <2>2. watcher' = "gone"
      BY <1>2 DEF Reaped, StoppedWatcher, IInv, WatcherInv
    <2>. QED
      BY <1>2, <2>1, <2>2
      DEF Reaped, IInv, TypeOK, EarlyInv, ChildInv, WatcherInv, TrapInv, NothingOutlives,
          DetachedIsRegistered
  <1>3. CASE Term
    <2>1. FlagsOK'
      BY <1>3, Zenon DEF Term, TermGroup, Proceed, IInv, TypeOK, FlagsOK
    <2>. QED
      BY <1>3, <2>1
      DEF Term, TermGroup, Proceed, IInv, TypeOK, EarlyInv, ChildInv, WatcherInv, TrapInv,
          NothingOutlives, DetachedIsRegistered
  <1>4. CASE Kill
    <2>1. FlagsOK'
      BY <1>4, Zenon DEF Kill, KillGroup, IInv, TypeOK, FlagsOK
    <2>. QED
      BY <1>4, <2>1
      DEF Kill, KillGroup, IInv, TypeOK, EarlyInv, ChildInv, WatcherInv, TrapInv,
          NothingOutlives, DetachedIsRegistered
  <1>5. CASE Clean
    <2>1. FlagsOK'
      BY <1>5, Zenon DEF Clean, StoppedWatcher, IInv, TypeOK, FlagsOK
    <2>2. /\ watcher' \in {"none", "gone"} /\ ~dir'
          /\ watcher' = watcher \/ watcherPid
      BY <1>5 DEF Clean, StoppedWatcher, IInv, WatcherInv
    <2>3. LeaderGone' /\ ~childPid'
      BY <1>5 DEF Clean, IInv, ChildInv, TypeOK
    <2>. QED
      BY <1>5, <2>1, <2>2, <2>3
      DEF Clean, IInv, TypeOK, EarlyInv, ChildInv, WatcherInv, TrapInv, NothingOutlives,
          DetachedIsRegistered
  <1>6. CASE Signal
    <2>1. FlagsOK'
      BY <1>6, Zenon DEF Signal, InTrap, IInv, TypeOK, FlagsOK
    <2>2. signals' \in 0 .. MaxSignals
      BY <1>6, SupervisorAssumption DEF Signal, IInv, TypeOK
    <2>3. CASE sup \in {"mkdir", "fork"}
      BY <1>6, <2>1, <2>2, <2>3
      DEF Signal, IInv, TypeOK, EarlyInv, ChildInv, WatcherInv, TrapInv, NothingOutlives,
          DetachedIsRegistered
    <2>4. CASE sup \notin {"mkdir", "fork"} /\ childPid
      BY <1>6, <2>1, <2>2, <2>4
      DEF Signal, IInv, TypeOK, EarlyInv, ChildInv, WatcherInv, TrapInv, NothingOutlives,
          DetachedIsRegistered
    <2>5. CASE sup \notin {"mkdir", "fork"} /\ ~childPid
      <3>1. (sup' = "done" /\ cut') \/ (sup' = "clean" /\ ~cut')
        BY <1>6, <2>5 DEF Signal
      <3>2. sup \notin {"done", "dead"} /\ LeaderGone /\ status' = "interrupted" /\ ~childPid'
        BY <1>6, <2>5 DEF Signal, IInv, ChildInv
      <3>3. UNCHANGED <<chan, watcherPid, dir, gate, payload, groupVars, watcher, noticed>>
        BY <1>6 DEF Signal
      <3>4. sup \notin {"pid", "copy", "arm", "wait", "term", "kill"}
        BY <2>5 DEF IInv, TypeOK
      <3>. QED
        BY <2>1, <2>2, <2>5, <3>1, <3>2, <3>3, <3>4
        DEF IInv, TypeOK, EarlyInv, ChildInv, WatcherInv, TrapInv, NothingOutlives,
            DetachedIsRegistered
    <2>. QED
      BY <2>3, <2>4, <2>5
  <1>7. CASE Crash
    <2>1. FlagsOK'
      BY <1>7, Zenon DEF Crash, IInv, TypeOK, FlagsOK
    <2>. QED
      BY <1>7, <2>1
      DEF Crash, IInv, TypeOK, EarlyInv, ChildInv, WatcherInv, TrapInv, NothingOutlives,
          DetachedIsRegistered
  <1>. QED
    BY <1>1, <1>2, <1>3, <1>4, <1>5, <1>6, <1>7

\* The command and the channel.
LEMMA CommandIInv ==
    ASSUME IInv, ChildSetsid \/ ChildLaunch \/ ChildRegister \/ Execute \/ LeaderEnds \/ DescEnds \/ ChannelLost
    PROVE  IInv'
  <1>1. CASE ChildSetsid
    <2>1. FlagsOK'
      BY <1>1, Zenon DEF ChildSetsid, IInv, TypeOK, FlagsOK
    <2>. QED
      BY <1>1, <2>1
      DEF ChildSetsid, IInv, TypeOK, EarlyInv, ChildInv, WatcherInv, TrapInv,
          NothingOutlives, DetachedIsRegistered
  <1>2. CASE ChildLaunch
    <2>1. FlagsOK'
      BY <1>2, Zenon DEF ChildLaunch, IInv, TypeOK, FlagsOK
    <2>. QED
      BY <1>2, <2>1
      DEF ChildLaunch, IInv, TypeOK, EarlyInv, ChildInv, WatcherInv, TrapInv,
          NothingOutlives, DetachedIsRegistered
  <1>3. CASE ChildRegister
    <2>1. FlagsOK'
      BY <1>3, Zenon DEF ChildRegister, IInv, TypeOK, FlagsOK
    <2>. QED
      BY <1>3, <2>1
      DEF ChildRegister, IInv, TypeOK, EarlyInv, ChildInv, WatcherInv, TrapInv,
          NothingOutlives, DetachedIsRegistered
  <1>4. CASE Execute
    <2>1. FlagsOK'
      BY <1>4, Zenon DEF Execute, IInv, TypeOK, FlagsOK
    <2>. QED
      BY <1>4, <2>1
      DEF Execute, IInv, TypeOK, EarlyInv, ChildInv, WatcherInv, TrapInv, NothingOutlives,
          DetachedIsRegistered
  <1>5. CASE LeaderEnds
    <2>1. FlagsOK'
      BY <1>5, Zenon DEF LeaderEnds, IInv, TypeOK, FlagsOK
    <2>. QED
      BY <1>5, <2>1
      DEF LeaderEnds, IInv, TypeOK, EarlyInv, ChildInv, WatcherInv, TrapInv,
          NothingOutlives, DetachedIsRegistered
  <1>6. CASE DescEnds
    <2>1. FlagsOK'
      BY <1>6, Zenon DEF DescEnds, IInv, TypeOK, FlagsOK
    <2>. QED
      BY <1>6, <2>1
      DEF DescEnds, IInv, TypeOK, EarlyInv, ChildInv, WatcherInv, TrapInv, NothingOutlives,
          DetachedIsRegistered
  <1>7. CASE ChannelLost
    <2>1. FlagsOK'
      BY <1>7, Zenon DEF ChannelLost, IInv, TypeOK, FlagsOK
    <2>. QED
      BY <1>7, <2>1
      DEF ChannelLost, IInv, TypeOK, EarlyInv, ChildInv, WatcherInv, TrapInv,
          NothingOutlives, DetachedIsRegistered
  <1>. QED
    BY <1>1, <1>2, <1>3, <1>4, <1>5, <1>6, <1>7

\* The watcher.
LEMMA WatcherIInv ==
    ASSUME IInv, OpenGate \/ Detach \/ Notice \/ WatcherKills \/ WatcherRemoves
    PROVE  IInv'
  <1>1. CASE OpenGate
    <2>1. FlagsOK'
      BY <1>1, Zenon DEF OpenGate, IInv, TypeOK, FlagsOK
    <2>. QED
      BY <1>1, <2>1
      DEF OpenGate, IInv, TypeOK, EarlyInv, ChildInv, WatcherInv, TrapInv, NothingOutlives,
          DetachedIsRegistered
  <1>2. CASE Detach
    <2>1. FlagsOK'
      BY <1>2, Zenon DEF Detach, MayDetach, IInv, TypeOK, FlagsOK
    <2>. QED
      BY <1>2, <2>1
      DEF Detach, MayDetach, IInv, TypeOK, EarlyInv, ChildInv, WatcherInv, TrapInv,
          NothingOutlives, DetachedIsRegistered
  <1>3. CASE Notice
    <2>1. FlagsOK'
      BY <1>3, Zenon DEF Notice, TermGroup, IInv, TypeOK, FlagsOK
    <2>. QED
      BY <1>3, <2>1
      DEF Notice, TermGroup, IInv, TypeOK, EarlyInv, ChildInv, WatcherInv, TrapInv,
          NothingOutlives, DetachedIsRegistered
  <1>4. CASE WatcherKills
    <2>1. FlagsOK'
      BY <1>4, Zenon DEF WatcherKills, KillGroup, IInv, TypeOK, FlagsOK
    <2>. QED
      BY <1>4, <2>1
      DEF WatcherKills, KillGroup, IInv, TypeOK, EarlyInv, ChildInv, WatcherInv, TrapInv,
          NothingOutlives, DetachedIsRegistered
  <1>5. CASE WatcherRemoves
    <2>1. FlagsOK'
      BY <1>5, Zenon DEF WatcherRemoves, IInv, TypeOK, FlagsOK
    <2>. QED
      BY <1>5, <2>1
      DEF WatcherRemoves, IInv, TypeOK, EarlyInv, ChildInv, WatcherInv, TrapInv,
          NothingOutlives, DetachedIsRegistered
  <1>. QED
    BY <1>1, <1>2, <1>3, <1>4, <1>5

\* IInv is inductive.
LEMMA NextIInv == IInv /\ [Next]_vars => IInv'
  <1>. SUFFICES ASSUME IInv, [Next]_vars PROVE IInv'
    OBVIOUS
  <1>1. CASE UNCHANGED vars
    BY <1>1 DEF vars, FlagsOK, IInv, TypeOK, EarlyInv, ChildInv, WatcherInv, TrapInv,
        NothingOutlives, DetachedIsRegistered
  <1>. QED
    BY <1>1, StartIInv, EndIInv, CommandIInv, WatcherIInv DEF Next, SupervisorMoves,
        WatcherMoves

\* IInv holds in every reachable state.
THEOREM InvariantHolds == Spec => []IInv
  BY InitIInv, NextIInv, PTL DEF Spec

-----------------------------------------------------------------------------
(* The theorems.                                                           *)

\* Every variable keeps its shape.
THEOREM TypeCorrect == Spec => []TypeOK
  BY InvariantHolds, PTL DEF IInv

\* A supervisor that ends leaves no shell, no watcher and no directory.
THEOREM CleanServer == Spec => []NothingOutlives
  BY InvariantHolds, PTL DEF IInv

\* A detached watcher is registered.
THEOREM Registered == Spec => []DetachedIsRegistered
  BY InvariantHolds, PTL DEF IInv

=============================================================================
