--------------------------- MODULE CommandsProofs ---------------------------
(***************************************************************************)
(* Proofs about Commands, for every set of calls and every number of       *)
(* cancellations.  The invariant says, for ONE call, where its process may *)
(* be at each await and why (CallInv), and what close() knows of it        *)
(* (StopInv): a process is created under the lock, so the processes that   *)
(* close() finds are all there will ever be.                               *)
(***************************************************************************)
EXTENDS Commands, TLAPS

\* The process, the reason and the lock that belong to each await.
CallInv(c) ==
    /\ pc[c] \in {"idle", "ready", "lock", "spawn"} => proc[c] = "none"
    /\ pc[c] \in {"feed", "wait", "term", "kill", "gather", "stdin", "relock", "drain", "recheck"}
          => proc[c] # "none"
    /\ pc[c] = "term" => proc[c] \in {"termed", "killed", "gone"}
    /\ pc[c] = "kill" => proc[c] \in {"killed", "gone"}
    /\ pc[c] \in {"gather", "drain", "recheck"} => proc[c] = "gone"
    /\ pc[c] \in {"stdin", "relock", "done"} =>
          proc[c] # "alive" /\ (why[c] # "interrupted" => proc[c] \in {"none", "gone"})
    /\ why[c] = "interrupted" => pc[c] \in {"stdin", "relock", "done"}
    /\ pc[c] \in {"idle", "ready", "lock", "spawn", "feed", "wait"} => why[c] = "none"
    /\ pc[c] \in {"drain", "recheck"} => why[c] \notin Raised
    /\ pc[c] \in {"gather"} => why[c] \in {"cancelled", "error"}
    /\ pc[c] \in {"term", "kill"} => why[c] \in {"timed_out", "cancelled", "error"}
    /\ lock = c <=> pc[c] = "spawn"
    /\ proc[c] \in Running => c \in procs \/ why[c] = "interrupted"
    /\ c \in procs =>
          \/ pc[c] \in {"feed", "wait", "term", "kill", "gather", "stdin", "relock"}
          \/ pc[c] = "done" /\ res[c] = "cancelled"
    /\ c \in procs => proc[c] # "none"

\* What close() found, and how far it is with it.
StopInv(c) ==
    /\ c \in csnap <=> cterm[c] # "none"
    /\ c \in csnap => Closed
    /\ Closed => pc[c] # "spawn" /\ (c \in procs => c \in csnap)
    /\ cterm[c] = "term" => proc[c] \in {"termed", "killed", "gone"}
    /\ cterm[c] = "kill" => proc[c] \in {"killed", "gone"}
    /\ cterm[c] = "done" => proc[c] = "gone"
    /\ cpc = "closed" /\ c \in csnap => cterm[c] = "done"
    /\ c \in csnap => pc[c] \notin {"idle", "ready", "lock", "recheck"}
    /\ c \in csnap /\ pc[c] = "done" => res[c] \in {"lost", "cancelled", "error"}

IInv ==
    /\ TypeOK
    /\ \A c \in Calls : CallInv(c)
    /\ \A c \in Calls : StopInv(c)

-----------------------------------------------------------------------------
USE DEF callVars, cancVars, procVars, closeVars, Running, Raised

\* IInv holds initially.
LEMMA InitIInv == Init => IInv
  BY CommandsAssumption DEF Init, IInv, TypeOK, CallInv, StopInv, Closed

\* A step of the call up to its running process.
LEMMA LaunchIInv ==
    ASSUME IInv, NEW c \in Calls,
           Begin(c) \/ MasterReady(c) \/ Acquire(c) \/ Spawned(c) \/ SpawnFails(c)
    PROVE  IInv'
  <1>1. TypeOK /\ CallInv(c) /\ StopInv(c)
    BY DEF IInv
  <1>2. TypeOK'
    BY <1>1 DEF TypeOK, Begin, MasterReady, Acquire, Spawned, SpawnFails, Moves, Ends
  <1>3. ASSUME NEW x \in Calls PROVE CallInv(x)'
    <2>1. CallInv(x)
      BY DEF IInv
    <2>2. CASE Begin(c) \/ MasterReady(c)
      BY <1>1, <2>1, <2>2 DEF TypeOK, CallInv, Begin, MasterReady, Moves, Ends
    <2>3. CASE Acquire(c)
      BY <1>1, <2>1, <2>3, CommandsAssumption DEF TypeOK, CallInv, Acquire, Moves, Ends
    <2>4. CASE Spawned(c)
      BY <1>1, <2>1, <2>4, CommandsAssumption DEF TypeOK, CallInv, Spawned, Moves
    <2>5. CASE SpawnFails(c)
      BY <1>1, <2>1, <2>5, CommandsAssumption DEF TypeOK, CallInv, SpawnFails, Moves, Ends
    <2>. QED
      BY <2>2, <2>3, <2>4, <2>5
  <1>4. ASSUME NEW x \in Calls PROVE StopInv(x)'
    <2>1. StopInv(x) /\ CallInv(x)
      BY DEF IInv
    <2>. QED
      BY <1>1, <2>1
      DEF TypeOK, CallInv, StopInv, Closed, MayLaunch, Begin, MasterReady, Acquire, Spawned,
          SpawnFails, Moves, Ends
  <1>. QED
    BY <1>2, <1>3, <1>4 DEF IInv

\* A step of the call while its process runs or is being terminated.
LEMMA RunIInv ==
    ASSUME IInv, NEW c \in Calls,
           \/ FeedEnds(c) \/ FeedFails(c) \/ ProcessEnds(c) \/ Deadline(c)
           \/ TermWaited(c) \/ TermTimeout(c) \/ Gathered(c) \/ ProcessExits(c)
    PROVE  IInv'
  <1>1. TypeOK /\ CallInv(c) /\ StopInv(c)
    BY DEF IInv
  <1>2. TypeOK'
    BY <1>1 DEF TypeOK, FeedEnds, FeedFails, ProcessEnds, Deadline, TermWaited, TermTimeout,
                Gathered, ProcessExits, Terminate, Termed, Moves
  <1>3. ASSUME NEW x \in Calls PROVE CallInv(x)'
    <2>1. CallInv(x)
      BY DEF IInv
    <2>. QED
      BY <1>1, <2>1
      DEF TypeOK, CallInv, FeedEnds, FeedFails, ProcessEnds, Deadline, TermWaited, TermTimeout,
          Gathered, ProcessExits, Terminate, Termed, Moves
  <1>4. ASSUME NEW x \in Calls PROVE StopInv(x)'
    <2>1. StopInv(x)
      BY DEF IInv
    <2>. QED
      BY <1>1, <2>1
      DEF TypeOK, CallInv, StopInv, Closed, FeedEnds, FeedFails, ProcessEnds, Deadline, TermWaited,
          TermTimeout, Gathered, ProcessExits, Terminate, Termed, Moves
  <1>. QED
    BY <1>2, <1>3, <1>4 DEF IInv

\* The finally block and the result.
LEMMA FinishIInv ==
    ASSUME IInv, NEW c \in Calls,
           StdinClosed(c) \/ Discard(c) \/ Drained(c) \/ DrainFails(c) \/ Rechecked(c)
    PROVE  IInv'
  <1>1. TypeOK /\ CallInv(c) /\ StopInv(c)
    BY DEF IInv
  <1>2. TypeOK'
    BY <1>1 DEF TypeOK, StdinClosed, Discard, Drained, DrainFails, Rechecked, Outcome, Moves, Ends
  <1>3. ASSUME NEW x \in Calls PROVE CallInv(x)'
    <2>1. CallInv(x)
      BY DEF IInv
    <2>. QED
      BY <1>1, <2>1
      DEF TypeOK, CallInv, StdinClosed, Discard, Drained, DrainFails, Rechecked, Outcome, Moves, Ends
  <1>4. ASSUME NEW x \in Calls PROVE StopInv(x)'
    <2>1. StopInv(x)
      BY DEF IInv
    <2>. QED
      BY <1>1, <2>1
      DEF TypeOK, CallInv, StopInv, Closed, StdinClosed, Discard, Drained, DrainFails, Rechecked,
          Outcome, Moves, Ends
  <1>. QED
    BY <1>2, <1>3, <1>4 DEF IInv

\* Cancellation.
LEMMA CancelIInv ==
    ASSUME IInv, NEW c \in Calls,
           RequestCancel(c) \/ CancelEnds(c) \/ CancelRunning(c) \/ CancelHandler(c)
    PROVE  IInv'
  <1>1. TypeOK /\ CallInv(c) /\ StopInv(c)
    BY DEF IInv
  <1>2. TypeOK'
    BY <1>1, CommandsAssumption
    DEF TypeOK, RequestCancel, CancelEnds, CancelRunning, CancelHandler, Terminate, Termed
  <1>3. ASSUME NEW x \in Calls PROVE CallInv(x)'
    <2>1. CallInv(x)
      BY DEF IInv
    <2>. QED
      BY <1>1, <2>1, CommandsAssumption
      DEF TypeOK, CallInv, RequestCancel, CancelEnds, CancelRunning, CancelHandler, Terminate, Termed
  <1>4. ASSUME NEW x \in Calls PROVE StopInv(x)'
    <2>1. StopInv(x)
      BY DEF IInv
    <2>. QED
      BY <1>1, <2>1
      DEF TypeOK, CallInv, StopInv, Closed, RequestCancel, CancelEnds, CancelRunning, CancelHandler,
          Terminate, Termed
  <1>. QED
    BY <1>2, <1>3, <1>4 DEF IInv

\* close().
LEMMA CloseIInv ==
    ASSUME IInv, CloseBegins \/ CloseStep
    PROVE  IInv'
  <1>1. TypeOK /\ \A c \in Calls : CallInv(c) /\ StopInv(c)
    BY DEF IInv
  <1>2. CASE CloseBegins \/ CloseReturns
    BY <1>1, <1>2 DEF IInv, TypeOK, CallInv, StopInv, Closed, CloseBegins, CloseReturns
  <1>3. CASE CloseLocked
    <2>1. TypeOK'
      BY <1>1, <1>3 DEF TypeOK, CloseLocked, Termed
    <2>2. ASSUME NEW x \in Calls PROVE CallInv(x)'
      BY <1>1, <1>3 DEF TypeOK, CallInv, CloseLocked, Termed
    <2>3. ASSUME NEW x \in Calls PROVE StopInv(x)'
      <3>1. pc[x] # "spawn" /\ CallInv(x) /\ StopInv(x) /\ cpc = "locking" /\ cpc' = "terminating"
        BY <1>1, <1>3, CommandsAssumption DEF CallInv, CloseLocked, CloseMayLock
      <3>2. /\ pc' = pc /\ res' = res /\ procs' = procs /\ csnap' = procs
            /\ proc'[x] = (IF x \in procs THEN Termed(proc[x]) ELSE proc[x])
            /\ cterm'[x] = (IF x \notin procs THEN "none" ELSE IF proc[x] = "gone" THEN "done" ELSE "term")
        BY <1>3 DEF CloseLocked
      <3>. QED
        BY <1>1, <3>1, <3>2 DEF TypeOK, CallInv, StopInv, Closed, Termed
    <2>. QED
      BY <2>1, <2>2, <2>3 DEF IInv
  <1>4. ASSUME NEW c \in Calls, CloseTermWaited(c) \/ CloseTermTimeout(c)
        PROVE  IInv'
    BY <1>1, <1>4 DEF IInv, TypeOK, CallInv, StopInv, Closed, CloseTermWaited, CloseTermTimeout
  <1>. QED
    BY <1>2, <1>3, <1>4 DEF CloseStep

\* IInv is inductive.
LEMMA NextIInv == IInv /\ [Next]_vars => IInv'
  <1>. SUFFICES ASSUME IInv, [Next]_vars PROVE IInv'
    OBVIOUS
  <1>1. CASE Quiescent \/ UNCHANGED vars
    BY <1>1 DEF Quiescent, vars, IInv, TypeOK, CallInv, StopInv, Closed
  <1>. QED
    BY <1>1, LaunchIInv, RunIInv, FinishIInv, CancelIInv, CloseIInv DEF Next, CallStep

\* IInv holds in every reachable state.
THEOREM InvariantHolds == Spec => []IInv
  BY InitIInv, NextIInv, PTL DEF Spec

-----------------------------------------------------------------------------
(* The theorems.                                                           *)

\* Every variable keeps its shape.
THEOREM TypeCorrect == Spec => []TypeOK
  <1>1. IInv => TypeOK
    BY DEF IInv
  <1>. QED
    BY InvariantHolds, <1>1, PTL

\* run_script: a call that ended has left no running process, unless a second
\* cancellation interrupted its clean-up, and then it was signalled.
THEOREM NothingLeftBehind == Spec => []NoProcessLeftBehind
  <1>1. IInv => NoProcessLeftBehind
    BY DEF IInv, CallInv, NoProcessLeftBehind
  <1>. QED
    BY InvariantHolds, <1>1, PTL

\* close: it stops every process, those that were being created included.
THEOREM CloseStops == Spec => []ClosedRunnerStopped
  <1>1. IInv => ClosedRunnerStopped
    BY DEF IInv, TypeOK, CallInv, StopInv, Closed, ClosedRunnerStopped
  <1>. QED
    BY InvariantHolds, <1>1, PTL

\* run_script: a command stopped by close() is reported as such.
THEOREM StoppedReported == Spec => []StoppedIsNoResult
  <1>1. IInv => StoppedIsNoResult
    BY DEF IInv, TypeOK, StopInv, StoppedIsNoResult
  <1>. QED
    BY InvariantHolds, <1>1, PTL

=============================================================================
