------------------------------ MODULE Commands ------------------------------
(***************************************************************************)
(* CommandRunner (remote_ssh_mcp/commands.py): run_script calls of one     *)
(* session, the local ssh process of each, and close().                    *)
(*                                                                         *)
(* A call is modelled by the await at which it is suspended.  A cancelled  *)
(* call has a CancelledError pending, which is raised at that await and    *)
(* hides every other result there; a client that goes on cancelling may    *)
(* cancel the same call again while it cleans up, up to MaxCancels times.  *)
(* Scripts, output and exit codes are left out: a process runs, has been   *)
(* sent SIGTERM or SIGKILL, or is gone.                                    *)
(***************************************************************************)
EXTENDS Naturals

CONSTANTS
    Calls,      \* run_script calls
    None,       \* nobody holds the lock
    MaxCancels  \* bound: cancellations of one call

ASSUME CommandsAssumption ==
    /\ None \notin Calls
    /\ MaxCancels \in Nat

VARIABLES
    pc,         \* the await of run_script the call is at
    why,        \* what made the call leave process.wait()
    res,        \* how the call ended
    cancelReq,  \* calls with a CancelledError pending
    cancels,    \* how often a call was cancelled
    proc,       \* the call's local ssh process
    procs,      \* CommandRunner._processes
    lock,       \* who holds _process_lock across an await
    cpc,        \* progress of close()
    csnap,      \* the processes close() terminates
    cterm       \* progress of close()'s _terminate of each

callVars  == <<pc, why, res>>
cancVars  == <<cancelReq, cancels>>
procVars  == <<proc, procs>>
closeVars == <<cpc, csnap, cterm>>
vars == <<pc, why, res, cancelReq, cancels, proc, procs, lock, cpc, csnap, cterm>>

Running == {"alive", "termed", "killed"}
Raised  == {"cancelled", "error", "interrupted"}  \* an exception leaves run_script

Init ==
    /\ pc = [c \in Calls |-> "idle"]
    /\ why = [c \in Calls |-> "none"]
    /\ res = [c \in Calls |-> "none"]
    /\ cancelReq = {}
    /\ cancels = [c \in Calls |-> 0]
    /\ proc = [c \in Calls |-> "none"]
    /\ procs = {}
    /\ lock = None
    /\ cpc = "open"
    /\ csnap = {}
    /\ cterm = [c \in Calls |-> "none"]

\* CommandRunner._closed
Closed == cpc \in {"terminating", "closed"}

\* A process after SIGTERM.
Termed(p) == IF p = "alive" THEN "termed" ELSE p

-----------------------------------------------------------------------------
(* run_script up to the running process.                                   *)

Moves(c, from, to) ==
    /\ pc[c] = from
    /\ c \notin cancelReq
    /\ pc' = [pc EXCEPT ![c] = to]

Ends(c, from, r) ==
    /\ Moves(c, from, "done")
    /\ res' = [res EXCEPT ![c] = r]

\* The script and the timeout are valid, or the call is refused.
Begin(c) ==
    /\ \/ Moves(c, "idle", "ready") /\ UNCHANGED res
       \/ Ends(c, "idle", "error")
    /\ UNCHANGED <<why, cancVars, procVars, lock, closeVars>>

\* ensure_ready
MasterReady(c) ==
    /\ \/ Moves(c, "ready", "lock") /\ UNCHANGED res
       \/ Ends(c, "ready", "error")
    /\ UNCHANGED <<why, cancVars, procVars, lock, closeVars>>

\* async with _process_lock: refused once closed, else the lock is kept while
\* the process is created.
MayLaunch == ~Closed
Acquire(c) ==
    /\ lock = None
    /\ \/ /\ MayLaunch
          /\ Moves(c, "lock", "spawn")
          /\ lock' = c
          /\ UNCHANGED res
       \/ /\ ~MayLaunch
          /\ Ends(c, "lock", "lost")
          /\ UNCHANGED lock
    /\ UNCHANGED <<why, cancVars, procVars, closeVars>>

Spawned(c) ==
    /\ Moves(c, "spawn", "feed")
    /\ proc' = [proc EXCEPT ![c] = "alive"]
    /\ procs' = procs \cup {c}
    /\ lock' = None
    /\ UNCHANGED <<why, res, cancVars, closeVars>>

SpawnFails(c) ==
    /\ Ends(c, "spawn", "error")
    /\ lock' = None
    /\ UNCHANGED <<why, cancVars, procVars, closeVars>>

-----------------------------------------------------------------------------
(* The running process, its deadline and _terminate.                       *)

\* stdin.drain() returned, a broken pipe included.
FeedEnds(c) ==
    /\ Moves(c, "feed", "wait")
    /\ UNCHANGED <<why, res, cancVars, procVars, lock, closeVars>>

ProcessEnds(c) ==
    /\ proc[c] = "gone"
    /\ Moves(c, "wait", "stdin")
    /\ UNCHANGED <<why, res, cancVars, procVars, lock, closeVars>>

\* Enter _terminate for reason w: SIGTERM, unless the process is gone.
Terminate(c, w) ==
    /\ why' = [why EXCEPT ![c] = w]
    /\ proc' = [proc EXCEPT ![c] = Termed(@)]
    /\ pc' = [pc EXCEPT ![c] =
                 IF proc[c] # "gone" THEN "term" ELSE IF w = "timed_out" THEN "stdin" ELSE "gather"]

Deadline(c) ==
    /\ pc[c] = "wait"
    /\ c \notin cancelReq
    /\ Terminate(c, "timed_out")
    /\ UNCHANGED <<res, cancVars, procs, lock, closeVars>>

\* Any other exception while the script is written.
FeedFails(c) ==
    /\ pc[c] = "feed"
    /\ c \notin cancelReq
    /\ Terminate(c, "error")
    /\ UNCHANGED <<res, cancVars, procs, lock, closeVars>>

TermWaited(c) ==
    /\ proc[c] = "gone"
    /\ LET next == IF why[c] = "timed_out" THEN "stdin" ELSE "gather"
       IN  Moves(c, "term", next) \/ Moves(c, "kill", next)
    /\ UNCHANGED <<why, res, cancVars, procVars, lock, closeVars>>

\* PROCESS_TERM_TIMEOUT passed: SIGKILL.
MutTermTimeout(c) ==
    /\ proc[c] # "gone"
    /\ Moves(c, "term", "kill")
    /\ UNCHANGED <<why, res, cancVars, procVars, lock, closeVars>>
TermTimeout(c) ==
    /\ proc[c] # "gone"
    /\ Moves(c, "term", "kill")
    /\ proc' = [proc EXCEPT ![c] = "killed"]
    /\ UNCHANGED <<why, res, cancVars, procs, lock, closeVars>>

\* The readers ended with the process's output.
Gathered(c) ==
    /\ proc[c] = "gone"
    /\ Moves(c, "gather", "stdin")
    /\ UNCHANGED <<why, res, cancVars, procVars, lock, closeVars>>

-----------------------------------------------------------------------------
(* finally, and the result.                                                *)

StdinClosed(c) ==
    /\ Moves(c, "stdin", "relock")
    /\ UNCHANGED <<why, res, cancVars, procVars, lock, closeVars>>

\* _processes.discard; an exception goes on from here.
Discard(c) ==
    /\ lock = None
    /\ procs' = procs \ {c}
    /\ \/ /\ why[c] \in Raised
          /\ Ends(c, "relock", IF why[c] = "error" THEN "error" ELSE "cancelled")
       \/ /\ why[c] \notin Raised
          /\ Moves(c, "relock", "drain")
          /\ UNCHANGED res
    /\ UNCHANGED <<why, cancVars, proc, lock, closeVars>>

\* The outcome of a call whose output is complete: a closed runner comes
\* before the timeout.
Outcome(c) == IF Closed THEN "lost" ELSE IF why[c] = "timed_out" THEN "timed_out" ELSE "result"

Drained(c) ==
    /\ proc[c] = "gone"
    /\ \/ Ends(c, "drain", Outcome(c))
       \/ /\ Outcome(c) = "result"          \* exit status 255
          /\ Moves(c, "drain", "recheck")
          /\ UNCHANGED res
    /\ UNCHANGED <<why, cancVars, procVars, lock, closeVars>>

\* A reader could not write its spool file.
DrainFails(c) ==
    /\ Ends(c, "drain", "error")
    /\ UNCHANGED <<why, cancVars, procVars, lock, closeVars>>

Rechecked(c) ==
    /\ Ends(c, "recheck", "result") \/ Ends(c, "recheck", "lost")
    /\ UNCHANGED <<why, cancVars, procVars, lock, closeVars>>

-----------------------------------------------------------------------------
(* Cancellation: the caller, then where the CancelledError is raised.      *)

RequestCancel(c) ==
    /\ pc[c] \notin {"idle", "done"}
    /\ cancels[c] < MaxCancels
    /\ cancelReq' = cancelReq \cup {c}
    /\ cancels' = [cancels EXCEPT ![c] = @ + 1]
    /\ UNCHANGED <<callVars, procVars, lock, closeVars>>

\* Nothing is left to clean up, or the clean-up itself is cut short: in the
\* finally block before the discard, too.
MutCancelEnds(c) ==
    /\ c \in cancelReq
    /\ pc[c] \in {"ready", "lock", "spawn", "stdin", "relock", "drain", "recheck"}
    /\ pc' = [pc EXCEPT ![c] = "done"]
    /\ res' = [res EXCEPT ![c] = "cancelled"]
    /\ cancelReq' = cancelReq \ {c}
    /\ UNCHANGED <<why, cancels, procVars, lock, closeVars>>
CancelEnds(c) ==
    /\ c \in cancelReq
    /\ pc[c] \in {"ready", "lock", "spawn", "stdin", "relock", "drain", "recheck"}
    /\ pc' = [pc EXCEPT ![c] = "done"]
    /\ res' = [res EXCEPT ![c] = "cancelled"]
    /\ lock' = IF pc[c] = "spawn" THEN None ELSE lock
    /\ cancelReq' = cancelReq \ {c}
    /\ UNCHANGED <<why, cancels, procVars, closeVars>>

\* except CancelledError of run_script: _terminate, also out of the
\* _terminate of a deadline.
MutCancelRunning(c) ==
    /\ c \in cancelReq
    /\ pc[c] \in {"feed", "wait"} \/ (pc[c] \in {"term", "kill"} /\ why[c] = "timed_out")
    /\ pc' = [pc EXCEPT ![c] = "stdin"]
    /\ why' = [why EXCEPT ![c] = "cancelled"]
    /\ cancelReq' = cancelReq \ {c}
    /\ UNCHANGED <<res, cancels, procVars, lock, closeVars>>
CancelRunning(c) ==
    /\ c \in cancelReq
    /\ pc[c] \in {"feed", "wait"} \/ (pc[c] \in {"term", "kill"} /\ why[c] = "timed_out")
    /\ Terminate(c, "cancelled")
    /\ cancelReq' = cancelReq \ {c}
    /\ UNCHANGED <<res, cancels, procs, lock, closeVars>>

\* Cancelled again in that handler: on to the finally block.
CancelHandler(c) ==
    /\ c \in cancelReq
    /\ pc[c] \in {"term", "kill", "gather"}
    /\ why[c] \in {"cancelled", "error"}
    /\ pc' = [pc EXCEPT ![c] = "stdin"]
    /\ why' = [why EXCEPT ![c] = "interrupted"]
    /\ cancelReq' = cancelReq \ {c}
    /\ UNCHANGED <<res, cancels, procVars, lock, closeVars>>

\* The environment: a process ends by itself or by a signal.
ProcessExits(c) ==
    /\ proc[c] \in Running
    /\ proc' = [proc EXCEPT ![c] = "gone"]
    /\ UNCHANGED <<callVars, cancVars, procs, lock, closeVars>>

-----------------------------------------------------------------------------
(* close()                                                                 *)

CloseBegins ==
    /\ cpc = "open"
    /\ cpc' = "locking"
    /\ UNCHANGED <<callVars, cancVars, procVars, lock, csnap, cterm>>

MutCloseMayLock == TRUE
CloseMayLock == lock = None
CloseLocked ==
    /\ cpc = "locking"
    /\ CloseMayLock
    /\ cpc' = "terminating"
    /\ csnap' = procs
    /\ proc' = [c \in Calls |-> IF c \in procs THEN Termed(proc[c]) ELSE proc[c]]
    /\ cterm' = [c \in Calls |->
                    IF c \notin procs THEN "none" ELSE IF proc[c] = "gone" THEN "done" ELSE "term"]
    /\ UNCHANGED <<callVars, cancVars, procs, lock>>

CloseTermWaited(c) ==
    /\ cterm[c] \in {"term", "kill"}
    /\ proc[c] = "gone"
    /\ cterm' = [cterm EXCEPT ![c] = "done"]
    /\ UNCHANGED <<callVars, cancVars, procVars, lock, cpc, csnap>>

CloseTermTimeout(c) ==
    /\ cterm[c] = "term"
    /\ proc[c] # "gone"
    /\ proc' = [proc EXCEPT ![c] = "killed"]
    /\ cterm' = [cterm EXCEPT ![c] = "kill"]
    /\ UNCHANGED <<callVars, cancVars, procs, lock, cpc, csnap>>

CloseReturns ==
    /\ cpc = "terminating"
    /\ \A c \in csnap : cterm[c] = "done"
    /\ cpc' = "closed"
    /\ UNCHANGED <<callVars, cancVars, procVars, lock, csnap, cterm>>

-----------------------------------------------------------------------------
(* Specification.                                                          *)

\* Everything the call itself does, except waiting for the remote side to
\* read its script.
CallStep(c) ==
    \/ Begin(c) \/ MasterReady(c) \/ Acquire(c) \/ Spawned(c) \/ SpawnFails(c)
    \/ FeedFails(c) \/ ProcessEnds(c) \/ Deadline(c) \/ TermWaited(c) \/ TermTimeout(c)
    \/ Gathered(c) \/ StdinClosed(c) \/ Discard(c) \/ Drained(c) \/ DrainFails(c)
    \/ Rechecked(c) \/ CancelEnds(c) \/ CancelRunning(c) \/ CancelHandler(c)

CloseStep ==
    CloseLocked \/ CloseReturns \/ \E c \in Calls : CloseTermWaited(c) \/ CloseTermTimeout(c)

\* Every call ended and the runner is closed.
Quiescent ==
    /\ cpc = "closed"
    /\ \A c \in Calls : pc[c] = "done"
    /\ UNCHANGED vars

Next ==
    \/ \E c \in Calls : CallStep(c) \/ FeedEnds(c) \/ RequestCancel(c) \/ ProcessExits(c)
    \/ CloseBegins \/ CloseStep
    \/ Quiescent

Spec == Init /\ [][Next]_vars

\* The event loop runs what can run, timers fire, ensure_ready and process
\* creation end, SIGKILL ends a process and the pipe to a dead process breaks.
\* A process may run, or ignore SIGTERM, for ever.  FeedFails is no promise.
Fairness ==
    /\ \A c \in Calls :
          /\ WF_vars(MasterReady(c)) /\ WF_vars(Acquire(c)) /\ WF_vars(Spawned(c) \/ SpawnFails(c))
          /\ WF_vars(proc[c] = "gone" /\ FeedEnds(c))
          /\ WF_vars(ProcessEnds(c) \/ Deadline(c))
          /\ WF_vars(TermWaited(c)) /\ WF_vars(TermTimeout(c)) /\ WF_vars(Gathered(c))
          /\ WF_vars(proc[c] = "gone" /\ StdinClosed(c)) /\ WF_vars(Discard(c))
          /\ WF_vars(Drained(c) \/ DrainFails(c)) /\ WF_vars(Rechecked(c))
          /\ WF_vars(CancelEnds(c) \/ CancelRunning(c) \/ CancelHandler(c))
          /\ WF_vars(proc[c] = "killed" /\ ProcessExits(c))
          /\ WF_vars(CloseTermWaited(c)) /\ WF_vars(CloseTermTimeout(c))
    /\ WF_vars(CloseLocked) /\ WF_vars(CloseReturns)

FairSpec == Spec /\ Fairness

-----------------------------------------------------------------------------
(* Properties.                                                             *)

\* Every variable keeps the shape the code gives it, and a call has an outcome
\* exactly when it has ended.
TypeOK ==
    /\ pc \in [Calls -> {"idle", "ready", "lock", "spawn", "feed", "wait", "term", "kill",
                         "gather", "stdin", "relock", "drain", "recheck", "done"}]
    /\ why \in [Calls -> {"none", "timed_out"} \cup Raised]
    /\ res \in [Calls -> {"none", "result", "timed_out", "lost", "cancelled", "error"}]
    /\ cancelReq \subseteq Calls
    /\ cancels \in [Calls -> 0 .. MaxCancels]
    /\ proc \in [Calls -> {"none", "gone"} \cup Running]
    /\ procs \subseteq Calls
    /\ lock \in Calls \cup {None}
    /\ cpc \in {"open", "locking", "terminating", "closed"}
    /\ csnap \subseteq Calls
    /\ cterm \in [Calls -> {"none", "term", "kill", "done"}]
    /\ \A c \in Calls : pc[c] = "done" <=> res[c] # "none"

\* run_script, _terminate: however a call ends, its ssh process is gone, or has
\* at least been sent SIGTERM where the clean-up itself was cancelled.
NoProcessLeftBehind ==
    \A c \in Calls :
        pc[c] = "done" => proc[c] # "alive" /\ (why[c] # "interrupted" => proc[c] \in {"none", "gone"})

\* close: afterwards no ssh process of the session runs, those of calls that
\* were still being created when close was called included.
ClosedRunnerStopped ==
    cpc = "closed" =>
        \A c \in Calls : proc[c] # "alive" /\ (why[c] # "interrupted" => proc[c] \in {"none", "gone"})

\* run_script, close: a command that close() stopped never looks like one that
\* ended by itself or timed out.
StoppedIsNoResult ==
    \A c \in csnap : pc[c] = "done" => res[c] \in {"lost", "cancelled", "error"}

\* run_script: once the script is delivered the deadline, or the end of the
\* process, ends the call, even if the process ignores SIGTERM.
DeadlineEndsCall ==
    \A c \in Calls : pc[c] = "wait" ~> pc[c] = "done" \/ why[c] = "interrupted"

\* close: it ends whatever the calls and their processes do.
CloseEnds == cpc = "locking" ~> cpc = "closed"

=============================================================================
