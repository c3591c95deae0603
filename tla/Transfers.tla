------------------------------ MODULE Transfers -----------------------------
(***************************************************************************)
(* TransferManager and TransferReservations (remote_ssh_mcp/transfers.py): *)
(* the transfer managers of several sessions, the destinations they share, *)
(* and the background task and rsync process of every operation.           *)
(*                                                                         *)
(* TransferManager._lock is never held across an await, so every section   *)
(* it guards is one atomic step here.  task.cancel() marks the task; the   *)
(* CancelledError is raised where the task is suspended and no other       *)
(* result is seen there.  What a stage copies, hashes or publishes is left *)
(* out: a stage ends well, fails or is cancelled.                          *)
(***************************************************************************)
EXTENDS Naturals, FiniteSets

CONSTANTS
    Ops,           \* start calls, and the operations they register
    Managers,      \* one TransferManager per session
    DownloadKeys,  \* resource keys of local download paths
    UploadKeys,    \* resource keys of remote upload paths
    None,          \* no manager, key or operation
    MaxTransfers,  \* RuntimeConfig.max_transfers
    CancelCalls    \* transfer_cancel calls

Keys == DownloadKeys \cup UploadKeys

ASSUME TransfersAssumption ==
    /\ None \notin Ops
    /\ None \notin Managers
    /\ None \notin Keys
    /\ IsFiniteSet(Ops)
    /\ MaxTransfers \in Nat \ {0}
    /\ DownloadKeys \cap UploadKeys = {}

VARIABLES
    manager,    \* the manager a start call was made on
    key,        \* TransferOperation._resource_key
    state,      \* TransferOperation.state; "none": not registered
    task,       \* where the operation's task is suspended
    cancelReq,  \* operations whose task has a CancelledError pending
    proc,       \* the operation's rsync process
    reserved,   \* operations with _reserved
    claimed,    \* TransferReservations._claimed
    listed,     \* operations in TransferManager._operations
    expired,    \* finished operations older than completed_ttl
    mclose,     \* TransferManager.close: not called, gathering or returned
    snap,       \* the operations whose tasks close() gathers
    kpc, ktgt, kret  \* transfer_cancel calls: progress, operation, answer

opVars   == <<manager, key>>
taskVars == <<task, cancelReq, proc>>
resVars  == <<state, reserved, claimed>>
listVars == <<listed, expired>>
mgrVars  == <<mclose, snap>>
callVars == <<kpc, ktgt, kret>>
vars == <<manager, key, state, task, cancelReq, proc, reserved, claimed,
          listed, expired, mclose, snap, kpc, ktgt, kret>>

Active == {"pending", "running", "verifying"}
Final  == {"completed", "failed", "cancelled"}
Stages == {"none", "new", "prepare", "rsync", "drain", "verify", "publish",
           "terminating", "killing", "unwind", "done"}

Init ==
    /\ manager = [o \in Ops |-> None]
    /\ key = [o \in Ops |-> None]
    /\ state = [o \in Ops |-> "none"]
    /\ task = [o \in Ops |-> "none"]
    /\ cancelReq = {}
    /\ proc = [o \in Ops |-> "none"]
    /\ reserved = {}
    /\ claimed = {}
    /\ listed = {}
    /\ expired = {}
    /\ mclose = [m \in Managers |-> "open"]
    /\ snap = [m \in Managers |-> {}]
    /\ kpc = [k \in CancelCalls |-> "idle"]
    /\ ktgt = [k \in CancelCalls |-> None]
    /\ kret = [k \in CancelCalls |-> "none"]

-----------------------------------------------------------------------------
(* Helpers of the manager.                                                 *)

\* active_count
ActiveOf(m) == {o \in listed : manager[o] = m /\ state[o] \in Active}

\* _prune: what the manager still lists.
Pruned(m) == {o \in listed : manager[o] # m \/ o \notin expired}

\* _set_state to a final state: release the destination if it is reserved.
MutSetFinal(S, st) ==
    /\ state' = [o \in Ops |-> IF o \in S THEN st ELSE state[o]]
    /\ reserved' = reserved \ S
    /\ UNCHANGED claimed
SetFinal(S, st) ==
    /\ state' = [o \in Ops |-> IF o \in S THEN st ELSE state[o]]
    /\ reserved' = reserved \ S
    /\ claimed' = claimed \ {key[o] : o \in S \cap reserved}

\* task.cancel() on every task of S; a finished task ignores it.
MutCancelTasks(S) == UNCHANGED cancelReq
CancelTasks(S) == cancelReq' = cancelReq \cup {o \in S : task[o] # "done"}

-----------------------------------------------------------------------------
(* start_download and start_upload.  Nothing changes before the call has   *)
(* found the master ready and enters _register.                            *)

MayRegister(m, k) == Cardinality(ActiveOf(m)) < MaxTransfers /\ k \notin claimed

\* Closed, at the limit, in conflict, or the path or the master was refused.
StartRefused(o, m, k) ==
    /\ manager[o] = None
    /\ manager' = [manager EXCEPT ![o] = m]
    /\ key' = [key EXCEPT ![o] = k]
    /\ \/ UNCHANGED listed
       \/ /\ mclose[m] = "open"
          /\ ~MayRegister(m, k)
          /\ listed' = Pruned(m)
    /\ UNCHANGED <<resVars, taskVars, expired, mgrVars, callVars>>

StartRegistered(o, m, k) ==
    /\ manager[o] = None
    /\ mclose[m] = "open"
    /\ MayRegister(m, k)
    /\ manager' = [manager EXCEPT ![o] = m]
    /\ key' = [key EXCEPT ![o] = k]
    /\ state' = [state EXCEPT ![o] = "pending"]
    /\ task' = [task EXCEPT ![o] = "new"]
    /\ claimed' = claimed \cup {k}
    /\ reserved' = reserved \cup {o}
    /\ listed' = Pruned(m) \cup {o}
    /\ UNCHANGED <<cancelReq, proc, expired, mgrVars, callVars>>

-----------------------------------------------------------------------------
(* The task: _run_download or _run_upload, with _run_rsync inside.         *)

TaskMoves(o, from, to) ==
    /\ task[o] = from
    /\ o \notin cancelReq
    /\ task' = [task EXCEPT ![o] = to]

TaskBegins(o) ==
    /\ TaskMoves(o, "new", "prepare")
    /\ state' = [state EXCEPT ![o] = "running"]
    /\ UNCHANGED <<opVars, cancelReq, proc, reserved, claimed, listVars, mgrVars, callVars>>

SpawnRsync(o) ==
    /\ TaskMoves(o, "prepare", "rsync")
    /\ proc' = [proc EXCEPT ![o] = "alive"]
    /\ UNCHANGED <<opVars, cancelReq, resVars, listVars, mgrVars, callVars>>

\* process.wait() returned; the output readers are awaited.
RsyncWaited(o) ==
    /\ TaskMoves(o, "rsync", "drain")
    /\ proc[o] = "gone"
    /\ UNCHANGED <<opVars, cancelReq, proc, resVars, listVars, mgrVars, callVars>>

RsyncSucceeded(o) ==
    /\ TaskMoves(o, "drain", "verify")
    /\ state' = [state EXCEPT ![o] = "verifying"]
    /\ UNCHANGED <<opVars, cancelReq, proc, reserved, claimed, listVars, mgrVars, callVars>>

\* _publish_upload awaits a remote command; a download is published at once.
PublishUpload(o) ==
    /\ key[o] \in UploadKeys
    /\ TaskMoves(o, "verify", "publish")
    /\ UNCHANGED <<opVars, cancelReq, proc, resVars, listVars, mgrVars, callVars>>

Completes(o) ==
    /\ TaskMoves(o, IF key[o] \in UploadKeys THEN "publish" ELSE "verify", "done")
    /\ SetFinal({o}, "completed")
    /\ UNCHANGED <<opVars, cancelReq, proc, listVars, mgrVars, callVars>>

Fails(o) ==
    /\ \E st \in {"prepare", "drain", "verify", "publish"} : TaskMoves(o, st, "done")
    /\ SetFinal({o}, "failed")
    /\ UNCHANGED <<opVars, cancelReq, proc, listVars, mgrVars, callVars>>

\* An OSError while a download's handler looks at its partial escapes the task:
\* the operation keeps its state and its reservation.
HandlerRaises(o) ==
    /\ key[o] \in DownloadKeys
    /\ \/ task[o] \in {"prepare", "drain", "verify", "unwind"}
       \/ task[o] \in {"terminating", "killing"} /\ o \in cancelReq
    /\ task' = [task EXCEPT ![o] = "done"]
    /\ cancelReq' = cancelReq \ {o}
    /\ UNCHANGED <<opVars, proc, resVars, listVars, mgrVars, callVars>>

\* CancelledError in a task that has not run yet: the coroutine never starts.
CancelNew(o) ==
    /\ o \in cancelReq
    /\ task[o] = "new"
    /\ task' = [task EXCEPT ![o] = "done"]
    /\ cancelReq' = cancelReq \ {o}
    /\ UNCHANGED <<opVars, proc, resVars, listVars, mgrVars, callVars>>

\* CancelledError in process.wait(): _terminate sends SIGTERM and waits.
MutCancelRsync(o) ==
    /\ o \in cancelReq
    /\ task[o] = "rsync"
    /\ task' = [task EXCEPT ![o] = "unwind"]
    /\ cancelReq' = cancelReq \ {o}
    /\ UNCHANGED <<opVars, proc, resVars, listVars, mgrVars, callVars>>
CancelRsync(o) ==
    /\ o \in cancelReq
    /\ task[o] = "rsync"
    /\ task' = [task EXCEPT ![o] = IF proc[o] = "gone" THEN "unwind" ELSE "terminating"]
    /\ proc' = [proc EXCEPT ![o] = IF @ = "gone" THEN @ ELSE "termed"]
    /\ cancelReq' = cancelReq \ {o}
    /\ UNCHANGED <<opVars, resVars, listVars, mgrVars, callVars>>

\* CancelledError at any other await, a second one inside _terminate included:
\* only TimeoutError is handled there, so the wait for rsync is given up.
CancelElsewhere(o) ==
    /\ o \in cancelReq
    /\ task[o] \in {"prepare", "drain", "verify", "publish", "terminating", "killing", "unwind"}
    /\ task' = [task EXCEPT ![o] = "done"]
    /\ cancelReq' = cancelReq \ {o}
    /\ SetFinal({o}, "cancelled")
    /\ UNCHANGED <<opVars, proc, listVars, mgrVars, callVars>>

TermWaited(o) ==
    /\ proc[o] = "gone"
    /\ TaskMoves(o, "terminating", "unwind") \/ TaskMoves(o, "killing", "unwind")
    /\ UNCHANGED <<opVars, cancelReq, proc, resVars, listVars, mgrVars, callVars>>

\* PROCESS_TERM_TIMEOUT passed: SIGKILL.
MutTermTimeout(o) ==
    /\ proc[o] = "termed"
    /\ TaskMoves(o, "terminating", "killing")
    /\ UNCHANGED <<opVars, cancelReq, proc, resVars, listVars, mgrVars, callVars>>
TermTimeout(o) ==
    /\ proc[o] = "termed"
    /\ TaskMoves(o, "terminating", "killing")
    /\ proc' = [proc EXCEPT ![o] = "killed"]
    /\ UNCHANGED <<opVars, cancelReq, resVars, listVars, mgrVars, callVars>>

Unwound(o) ==
    /\ TaskMoves(o, "unwind", "done")
    /\ SetFinal({o}, "cancelled")
    /\ UNCHANGED <<opVars, cancelReq, proc, listVars, mgrVars, callVars>>

\* The environment: rsync ends by itself or by a signal; time passes.
RsyncExits(o) ==
    /\ proc[o] \in {"alive", "termed", "killed"}
    /\ proc' = [proc EXCEPT ![o] = "gone"]
    /\ UNCHANGED <<opVars, task, cancelReq, resVars, listVars, mgrVars, callVars>>

Expires(o) ==
    /\ state[o] \in Final
    /\ expired' = expired \cup {o}
    /\ UNCHANGED <<opVars, taskVars, resVars, listed, mgrVars, callVars>>

-----------------------------------------------------------------------------
(* status and list, cancel, close.                                         *)

StatusOrList(m) ==
    /\ listed' = Pruned(m)
    /\ UNCHANGED <<opVars, taskVars, resVars, expired, mgrVars, callVars>>

\* An operation's id is known once its start call returned, and by then its
\* task has run its first step: "new" is out of reach of transfer_cancel.
Cancel(k, o) ==
    /\ kpc[k] = "idle"
    /\ task[o] # "new"
    /\ ktgt' = [ktgt EXCEPT ![k] = o]
    /\ \/ /\ o \notin listed
          /\ kpc' = [kpc EXCEPT ![k] = "done"]
          /\ kret' = [kret EXCEPT ![k] = "transfer_not_found"]
          /\ UNCHANGED cancelReq
       \/ /\ o \in listed
          /\ state[o] \in Final
          /\ kpc' = [kpc EXCEPT ![k] = "done"]
          /\ kret' = [kret EXCEPT ![k] = state[o]]
          /\ UNCHANGED cancelReq
       \/ /\ o \in listed
          /\ state[o] \notin Final
          /\ CancelTasks({o})
          /\ kpc' = [kpc EXCEPT ![k] = "gathering"]
          /\ UNCHANGED kret
    /\ UNCHANGED <<opVars, task, proc, resVars, listVars, mgrVars>>

\* The task is done: finish what it could not finish itself, then answer.
Unfinished(S) == {o \in S : state[o] \notin Final}

CancelReturns(k) ==
    /\ kpc[k] = "gathering"
    /\ task[ktgt[k]] = "done"
    /\ SetFinal(Unfinished({ktgt[k]}), "cancelled")
    /\ kpc' = [kpc EXCEPT ![k] = "done"]
    /\ kret' = [kret EXCEPT ![k] = state'[ktgt[k]]]
    /\ UNCHANGED <<opVars, taskVars, listVars, mgrVars, ktgt>>

\* The transfer_cancel call itself is cancelled: gather cancels the task once
\* more, waits for it and raises.
CallerCancelled(k) ==
    /\ kpc[k] \in {"gathering", "abandoned"}
    /\ CancelTasks({ktgt[k]})
    /\ kpc' = [kpc EXCEPT ![k] = "abandoned"]
    /\ UNCHANGED <<opVars, task, proc, resVars, listVars, mgrVars, ktgt, kret>>

CallerRaises(k) ==
    /\ kpc[k] = "abandoned"
    /\ task[ktgt[k]] = "done"
    /\ kpc' = [kpc EXCEPT ![k] = "done"]
    /\ kret' = [kret EXCEPT ![k] = "call_cancelled"]
    /\ UNCHANGED <<opVars, taskVars, resVars, listVars, mgrVars, ktgt>>

Close(m) ==
    /\ mclose[m] = "open"
    /\ mclose' = [mclose EXCEPT ![m] = "gathering"]
    /\ snap' = [snap EXCEPT ![m] = ActiveOf(m)]
    /\ CancelTasks(ActiveOf(m))
    /\ UNCHANGED <<opVars, task, proc, resVars, listVars, callVars>>

MutCloseFixup(m) == UNCHANGED resVars
MutCloseFixupAll(m) == SetFinal({o \in listed : manager[o] = m}, "cancelled")
CloseFixup(m) == SetFinal(Unfinished(snap[m]), "cancelled")

CloseReturns(m) ==
    /\ mclose[m] = "gathering"
    /\ \A o \in snap[m] : task[o] = "done"
    /\ CloseFixup(m)
    /\ mclose' = [mclose EXCEPT ![m] = "closed"]
    /\ UNCHANGED <<opVars, taskVars, listVars, snap, callVars>>

-----------------------------------------------------------------------------
(* Specification.                                                          *)

TaskStep(o) ==
    \/ TaskBegins(o) \/ SpawnRsync(o) \/ RsyncWaited(o) \/ RsyncSucceeded(o)
    \/ PublishUpload(o) \/ Completes(o) \/ Fails(o) \/ HandlerRaises(o)
    \/ CancelNew(o) \/ CancelRsync(o) \/ CancelElsewhere(o)
    \/ TermWaited(o) \/ TermTimeout(o) \/ Unwound(o)

\* Every operation was tried, every manager closed and every call answered.
Quiescent ==
    /\ \A o \in Ops : manager[o] # None
    /\ \A m \in Managers : mclose[m] = "closed"
    /\ \A k \in CancelCalls : kpc[k] = "done"
    /\ UNCHANGED vars

Next ==
    \/ \E o \in Ops, m \in Managers, k \in Keys : StartRefused(o, m, k) \/ StartRegistered(o, m, k)
    \/ \E o \in Ops : TaskStep(o) \/ RsyncExits(o) \/ Expires(o)
    \/ \E k \in CancelCalls :
          \/ \E o \in Ops : Cancel(k, o)
          \/ CancelReturns(k) \/ CallerCancelled(k) \/ CallerRaises(k)
    \/ \E m \in Managers : StatusOrList(m) \/ Close(m) \/ CloseReturns(m)
    \/ Quiescent

Spec == Init /\ [][Next]_vars

\* A task that can run runs; remote commands, hashing and the term timeout end;
\* SIGKILL ends a process.  rsync itself may run, or ignore SIGTERM, for ever.
Fairness ==
    /\ \A o \in Ops : WF_vars(TaskStep(o)) /\ WF_vars(proc[o] = "killed" /\ RsyncExits(o))
    /\ \A k \in CancelCalls : WF_vars(CancelReturns(k) \/ CallerRaises(k))
    /\ \A m \in Managers : WF_vars(CloseReturns(m))

FairSpec == Spec /\ Fairness

-----------------------------------------------------------------------------
(* Properties.                                                             *)

\* Every variable keeps the shape the code gives it.
TypeOK ==
    /\ manager \in [Ops -> Managers \cup {None}]
    /\ key \in [Ops -> Keys \cup {None}]
    /\ state \in [Ops -> {"none"} \cup Active \cup Final]
    /\ task \in [Ops -> Stages]
    /\ cancelReq \subseteq Ops
    /\ proc \in [Ops -> {"none", "alive", "termed", "killed", "gone"}]
    /\ reserved \subseteq Ops
    /\ claimed \subseteq Keys
    /\ listed \subseteq Ops
    /\ expired \subseteq Ops
    /\ mclose \in [Managers -> {"open", "gathering", "closed"}]
    /\ snap \in [Managers -> SUBSET Ops]
    /\ kpc \in [CancelCalls -> {"idle", "gathering", "abandoned", "done"}]
    /\ ktgt \in [CancelCalls -> Ops \cup {None}]
    /\ kret \in [CancelCalls -> {"none", "transfer_not_found", "call_cancelled"} \cup Final]

\* TransferReservations, _set_state: across all sessions a claimed destination
\* belongs to exactly one active operation, and none is claimed without one.
ReservationsExact ==
    /\ claimed = {key[o] : o \in {p \in Ops : state[p] \in Active}}
    /\ \A a, b \in Ops :
          state[a] \in Active /\ state[b] \in Active /\ key[a] = key[b] => a = b

\* _register: no manager has more than max_transfers active operations.
TransferLimit ==
    \A m \in Managers :
        Cardinality({o \in Ops : manager[o] = m /\ state[o] \in Active}) <= MaxTransfers

\* _set_state: task, transfer_cancel and close all write the state, but a final
\* state, once reached, stays: a completed transfer is never turned cancelled.
FinalStateStays ==
    [][\A o \in Ops : state[o] \in Final => state'[o] = state[o]]_vars

\* close: afterwards no operation of the session is active, no task of it runs
\* and no destination is held, even where a task never ran or died.
ClosedManagerIdle ==
    \A o \in Ops :
        manager[o] # None /\ mclose[manager[o]] = "closed" =>
            state[o] \notin Active /\ o \notin reserved /\ task[o] \in {"none", "done"}

\* cancel: what it answers is the operation's final state for good.
CancelAnswersFinal ==
    \A k \in CancelCalls :
        kpc[k] = "done" /\ kret[k] \notin {"transfer_not_found", "call_cancelled"} =>
            state[ktgt[k]] = kret[k] /\ kret[k] \in Final

\* _run_rsync, _terminate: an operation never ends leaving behind an rsync
\* process that nobody has signalled.
NoUnsignalledRsync ==
    \A o \in Ops : state[o] \in Final => proc[o] # "alive"

\* doc/tools.md: each active destination is exclusively owned by one operation,
\* so two rsync processes never write to one destination.  The code gives a
\* destination back while a terminated rsync may still run.
OneWriterPerDestination ==
    \A a, b \in Ops :
        /\ proc[a] \in {"alive", "termed", "killed"}
        /\ proc[b] \in {"alive", "termed", "killed"}
        /\ key[a] = key[b]
        => a = b

\* cancel: a transfer_cancel call ends even if rsync ignores SIGTERM.
CancelCallEnds == \A k \in CancelCalls : kpc[k] = "gathering" ~> kpc[k] = "done"

\* close: the session's close task is never held up by its transfers.
CloseEnds == \A m \in Managers : mclose[m] = "gathering" ~> mclose[m] = "closed"

=============================================================================
