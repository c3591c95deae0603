------------------------------ MODULE Sessions ------------------------------
(***************************************************************************)
(* SessionManager (remote_ssh_mcp/sessions.py): the life cycle of the      *)
(* keyed SSH sessions of one MCP server process.                           *)
(*                                                                         *)
(* The program is a set of asyncio tasks on one event loop, so an action   *)
(* is the code one task runs between two awaits.  A connect call registers *)
(* at most one session; the session is named by the call that registers   *)
(* it, which also stands for its random, never repeated id and key.        *)
(*                                                                         *)
(* The OpenSSH master belongs to the ssh_wrapper library and is external:  *)
(* start, ensure_ready and close are modelled by what sessions.py and the  *)
(* repository's tests rely on.  Commands and transfers appear here only as *)
(* work that runs in a session.                                            *)
(***************************************************************************)
EXTENDS Naturals, FiniteSets

CONSTANTS
    Calls,          \* connect calls, and the sessions they register
    Servers,        \* effective HostName and Port pairs
    None,           \* neither a call nor a server
    MaxSessions,    \* RuntimeConfig.max_sessions
    Disconnects,    \* disconnect calls
    CommandCalls,   \* keyed tool calls that run one command (exec, stat, ...)
    TransferCalls   \* keyed tool calls that start one transfer

Tools == CommandCalls \cup TransferCalls

ASSUME SessionsAssumption ==
    /\ None \notin Servers
    /\ None \notin Calls
    /\ IsFiniteSet(Calls)
    /\ MaxSessions \in Nat \ {0}
    /\ CommandCalls \cap TransferCalls = {}

VARIABLES
    pc,           \* where each connect call is suspended
    srv,          \* the server each connect call resolved
    awaiting,     \* the session whose close_task a connect call awaits
    res,          \* what a connect call returned, or will raise after cleanup
    sessions,     \* SessionManager._sessions
    close,        \* where each session's close_task is; "none": not created
    start,        \* where each session's start_task is
    startCancel,  \* sessions whose start_task was cancelled while it ran
    locked,       \* SessionManager._authentication (asyncio.Lock)
    mstate,       \* OpenSSHMaster.state
    proc,         \* sessions whose ssh master process is alive
    services,     \* sessions whose services are attached
    mgr,          \* SessionManager.close: not called, running or returned
    mgrTodo,      \* sessions close() has listed and not asked to close yet
    mgrSnap,      \* the sessions close() listed
    dpc, dtgt, dres,  \* disconnect calls: progress, target, reported state
    tpc, tsess        \* keyed tool calls: progress and authorized session

callVars   == <<pc, srv, awaiting, res>>
regVars    == <<sessions, close>>
startVars  == <<start, startCancel, locked>>
masterVars == <<mstate, proc, services>>
mgrVars    == <<mgr, mgrTodo, mgrSnap>>
discVars   == <<dpc, dtgt, dres>>
toolVars   == <<tpc, tsess>>
vars == <<pc, srv, awaiting, res, sessions, close, start, startCancel, locked,
          mstate, proc, services, mgr, mgrTodo, mgrSnap, dpc, dtgt, dres,
          tpc, tsess>>

ConnectPCs   == {"idle", "resolving", "waitOwner", "waitStart", "waitClose", "done"}
Results      == {"none", "key", "already_connected", "not_accepting", "unresolved",
                 "session_closed", "start_failed", "cancelled"}
ClosePCs     == {"none", "created", "waitStart", "transfers", "runner", "master", "done"}
StartRunning == {"queued", "auth"}
StartDone    == {"done", "failed", "cancelled"}
MasterStates == {"new", "starting", "ready", "lost", "closed"}

Init ==
    /\ pc = [c \in Calls |-> "idle"]
    /\ srv = [c \in Calls |-> None]
    /\ awaiting = [c \in Calls |-> None]
    /\ res = [c \in Calls |-> "none"]
    /\ sessions = {}
    /\ close = [c \in Calls |-> "none"]
    /\ start = [c \in Calls |-> "none"]
    /\ startCancel = {}
    /\ locked = FALSE
    /\ mstate = [c \in Calls |-> "new"]
    /\ proc = {}
    /\ services = {}
    /\ mgr = "open"
    /\ mgrTodo = {}
    /\ mgrSnap = {}
    /\ dpc = [d \in Disconnects |-> "idle"]
    /\ dtgt = [d \in Disconnects |-> None]
    /\ dres = [d \in Disconnects |-> "none"]
    /\ tpc = [t \in Tools |-> "idle"]
    /\ tsess = [t \in Tools |-> None]

-----------------------------------------------------------------------------
(* Predicates and step fragments of the code.                              *)

\* session.closing: set together with close_task and never reset.
Closing(s) == close[s] # "none"

\* The key left the server: connect returned it.
Issued(s) == res[s] = "key"

\* SessionManager._ensure_accepting
MutAcceptingWhenClosed == Cardinality(sessions) < MaxSessions
Accepting == mgr = "open" /\ Cardinality(sessions) < MaxSessions

\* SessionManager._owner: the session registered for a server, if any.
MutOwnersNotClosing(v) == {s \in sessions : srv[s] = v /\ ~Closing(s)}
Owners(v) == {s \in sessions : srv[s] = v}

\* RemoteSession.state
State(s) ==
    CASE mstate[s] = "closed" -> "closed"
      [] mstate[s] # "closed" /\ Closing(s) -> "closing"
      [] mstate[s] = "new" /\ ~Closing(s) -> "starting"
      [] OTHER -> mstate[s]

\* TransferManager._closed and CommandRunner._closed of a session: each is set
\* when the close task reaches that service's close().
TransfersClosed(s) == close[s] \in {"transfers", "runner", "master", "done"}
RunnerClosed(s)    == close[s] \in {"runner", "master", "done"}

MutServiceClosed(t, s) == FALSE
ServiceClosed(t, s) ==
    IF t \in TransferCalls THEN TransfersClosed(s) ELSE RunnerClosed(s)

Working(kind, s) == \E t \in kind : tpc[t] = "running" /\ tsess[t] = s

\* SessionManager._close up to its await: create the close task once.
MutRequestCloseForgets(s) == close' = close
RequestClose(s) ==
    close' = [close EXCEPT ![s] = IF @ = "none" THEN "created" ELSE @]

Return(c, r) ==
    /\ pc' = [pc EXCEPT ![c] = "done"]
    /\ res' = [res EXCEPT ![c] = r]

-----------------------------------------------------------------------------
(* SessionManager.connect                                                  *)

Connect(c) ==
    /\ pc[c] = "idle"
    /\ \/ /\ ~Accepting
          /\ Return(c, "not_accepting")
       \/ /\ Accepting
          /\ pc' = [pc EXCEPT ![c] = "resolving"]
          /\ UNCHANGED res
    /\ UNCHANGED <<srv, awaiting, regVars, startVars, masterVars, mgrVars, discVars, toolVars>>

\* ssh -G could not be started, failed, timed out or printed no usable target.
ResolveFails(c) ==
    /\ pc[c] = "resolving"
    /\ Return(c, "unresolved")
    /\ UNCHANGED <<srv, awaiting, regVars, startVars, masterVars, mgrVars, discVars, toolVars>>

\* Register the session and create its start task.
Register(c) ==
    /\ sessions' = sessions \cup {c}
    /\ start' = [start EXCEPT ![c] = "queued"]
    /\ pc' = [pc EXCEPT ![c] = "waitStart"]

\* The body of connect from the owner loop to the registration: wait for a
\* closing owner, refuse a live one, check the limits again, register.
MutProceedNoRecheck(c, v) ==
    \/ \E o \in Owners(v) :
          /\ Closing(o)
          /\ awaiting' = [awaiting EXCEPT ![c] = o]
          /\ pc' = [pc EXCEPT ![c] = "waitOwner"]
          /\ UNCHANGED <<res, sessions, start>>
    \/ /\ ~\E o \in Owners(v) : Closing(o)
       /\ awaiting' = [awaiting EXCEPT ![c] = None]
       /\ IF Owners(v) # {}
            THEN Return(c, "already_connected") /\ UNCHANGED <<sessions, start>>
            ELSE Register(c) /\ UNCHANGED res
Proceed(c, v) ==
    \/ \E o \in Owners(v) :
          /\ Closing(o)
          /\ awaiting' = [awaiting EXCEPT ![c] = o]
          /\ pc' = [pc EXCEPT ![c] = "waitOwner"]
          /\ UNCHANGED <<res, sessions, start>>
    \/ /\ ~\E o \in Owners(v) : Closing(o)
       /\ awaiting' = [awaiting EXCEPT ![c] = None]
       /\ \/ /\ Owners(v) # {}
             /\ Return(c, "already_connected")
             /\ UNCHANGED <<sessions, start>>
          \/ /\ Owners(v) = {}
             /\ ~Accepting
             /\ Return(c, "not_accepting")
             /\ UNCHANGED <<sessions, start>>
          \/ /\ Owners(v) = {}
             /\ Accepting
             /\ Register(c)
             /\ UNCHANGED res

Resolved(c, v) ==
    /\ pc[c] = "resolving"
    /\ srv' = [srv EXCEPT ![c] = v]
    /\ Proceed(c, v)
    /\ UNCHANGED <<close, startCancel, locked, masterVars, mgrVars, discVars, toolVars>>

MutOwnerClosed(c) ==
    /\ pc[c] = "waitOwner"
    /\ awaiting[c] \in sessions
    /\ close[awaiting[c]] = "done"
    /\ Proceed(c, srv[c])
    /\ UNCHANGED <<srv, close, startCancel, locked, masterVars, mgrVars, discVars, toolVars>>
OwnerClosed(c) ==
    /\ pc[c] = "waitOwner"
    /\ close[awaiting[c]] = "done"
    /\ Proceed(c, srv[c])
    /\ UNCHANGED <<srv, close, startCancel, locked, masterVars, mgrVars, discVars, toolVars>>

\* asyncio.wait((start,)) returned: hand the key out, or clean up and raise.
MutStartOutcomeIgnoresClosing(c) ==
    CASE start[c] = "cancelled" -> "session_closed"
      [] start[c] = "failed" -> "start_failed"
      [] OTHER -> "key"
StartOutcome(c) ==
    CASE Closing(c) \/ start[c] = "cancelled" -> "session_closed"
      [] ~Closing(c) /\ start[c] = "failed" -> "start_failed"
      [] OTHER -> "key"

StartObserved(c) ==
    /\ pc[c] = "waitStart"
    /\ start[c] \in StartDone
    /\ res' = [res EXCEPT ![c] = StartOutcome(c)]
    /\ \/ /\ StartOutcome(c) = "key"
          /\ pc' = [pc EXCEPT ![c] = "done"]
          /\ UNCHANGED close
       \/ /\ StartOutcome(c) # "key"
          /\ RequestClose(c)
          /\ pc' = [pc EXCEPT ![c] = "waitClose"]
    /\ UNCHANGED <<srv, awaiting, sessions, startVars, masterVars, mgrVars, discVars, toolVars>>

ConnectCleaned(c) ==
    /\ pc[c] = "waitClose"
    /\ close[c] = "done"
    /\ pc' = [pc EXCEPT ![c] = "done"]
    /\ UNCHANGED <<srv, awaiting, res, regVars, startVars, masterVars, mgrVars, discVars, toolVars>>

\* The MCP client cancels the request.  While it authenticates the session is
\* closed first; the shielded close task survives a cancelled waiter.
MutCancelStart(c) ==
    /\ pc[c] = "waitStart"
    /\ Return(c, "cancelled")
    /\ UNCHANGED close
CancelStart(c) ==
    /\ pc[c] = "waitStart"
    /\ RequestClose(c)
    /\ pc' = [pc EXCEPT ![c] = "waitClose"]
    /\ res' = [res EXCEPT ![c] = "cancelled"]

CancelConnect(c) ==
    /\ \/ /\ pc[c] \in {"resolving", "waitOwner", "waitClose"}
          /\ Return(c, "cancelled")
          /\ UNCHANGED close
       \/ CancelStart(c)
    /\ UNCHANGED <<srv, awaiting, sessions, startVars, masterVars, mgrVars, discVars, toolVars>>

-----------------------------------------------------------------------------
(* The start task: SessionManager._start, with the external master.start.  *)

StartMayAcquire(s) == start[s] = "queued" /\ s \notin startCancel /\ ~locked

StartAcquire(s) ==
    /\ StartMayAcquire(s)
    /\ locked' = TRUE
    /\ start' = [start EXCEPT ![s] = "auth"]
    /\ mstate' = [mstate EXCEPT ![s] = "starting"]
    /\ proc' = proc \cup {s}
    /\ UNCHANGED <<callVars, regVars, startCancel, services, mgrVars, discVars, toolVars>>

StartOK(s) ==
    /\ start[s] = "auth"
    /\ s \notin startCancel
    /\ locked' = FALSE
    /\ start' = [start EXCEPT ![s] = "done"]
    /\ mstate' = [mstate EXCEPT ![s] = "ready"]
    /\ services' = services \cup {s}
    /\ UNCHANGED <<callVars, regVars, startCancel, proc, mgrVars, discVars, toolVars>>

\* ssh exited, or connect_timeout passed: master.start stops it and raises.
StartFail(s) ==
    /\ start[s] = "auth"
    /\ locked' = FALSE
    /\ start' = [start EXCEPT ![s] = "failed"]
    /\ mstate' = [mstate EXCEPT ![s] = "closed"]
    /\ proc' = proc \ {s}
    /\ UNCHANGED <<callVars, regVars, startCancel, services, mgrVars, discVars, toolVars>>

\* CancelledError reaches the task on the lock or inside master.start.
MutStartCancelled(s) ==
    /\ s \in startCancel
    /\ start[s] = "auth"
    /\ start' = [start EXCEPT ![s] = "cancelled"]
    /\ locked' = FALSE
    /\ mstate' = [mstate EXCEPT ![s] = "closed"]
    /\ proc' = proc \ {s}
    /\ UNCHANGED <<callVars, regVars, startCancel, services, mgrVars, discVars, toolVars>>
StartCancelled(s) ==
    /\ s \in startCancel
    /\ start[s] \in StartRunning
    /\ start' = [start EXCEPT ![s] = "cancelled"]
    /\ \/ /\ start[s] = "queued"
          /\ UNCHANGED <<locked, mstate, proc>>
       \/ /\ start[s] = "auth"
          /\ locked' = FALSE
          /\ mstate' = [mstate EXCEPT ![s] = "closed"]
          /\ proc' = proc \ {s}
    /\ UNCHANGED <<callVars, regVars, startCancel, services, mgrVars, discVars, toolVars>>

-----------------------------------------------------------------------------
(* The close task: SessionManager._shutdown.                               *)

\* The first stage to run once the start task is settled.
AfterStart(s) == IF s \in services THEN "transfers" ELSE "master"

ShutdownBegin(s) ==
    /\ close[s] = "created"
    /\ \/ /\ start[s] \in StartRunning
          /\ startCancel' = startCancel \cup {s}
          /\ close' = [close EXCEPT ![s] = "waitStart"]
       \/ /\ start[s] \in StartDone
          /\ close' = [close EXCEPT ![s] = AfterStart(s)]
          /\ UNCHANGED startCancel
    /\ UNCHANGED <<callVars, sessions, start, locked, masterVars, mgrVars, discVars, toolVars>>

ShutdownAfterStart(s) ==
    /\ close[s] = "waitStart"
    /\ start[s] \in StartDone
    /\ close' = [close EXCEPT ![s] = AfterStart(s)]
    /\ UNCHANGED <<callVars, sessions, startVars, masterVars, mgrVars, discVars, toolVars>>

\* transfers.close() cancelled every transfer and waited for it.
TransfersStopped(s) ==
    /\ close[s] = "transfers"
    /\ ~Working(TransferCalls, s)
    /\ close' = [close EXCEPT ![s] = "runner"]
    /\ UNCHANGED <<callVars, sessions, startVars, masterVars, mgrVars, discVars, toolVars>>

\* runner.close() terminated every command and waited for it.
RunnerStopped(s) ==
    /\ close[s] = "runner"
    /\ ~Working(CommandCalls, s)
    /\ close' = [close EXCEPT ![s] = "master"]
    /\ UNCHANGED <<callVars, sessions, startVars, masterVars, mgrVars, discVars, toolVars>>

\* master.close() returned; the registry entry goes in the same step.
MasterClosed(s) ==
    /\ close[s] = "master"
    /\ close' = [close EXCEPT ![s] = "done"]
    /\ sessions' = sessions \ {s}
    /\ mstate' = [mstate EXCEPT ![s] = "closed"]
    /\ proc' = proc \ {s}

ShutdownDone(s) ==
    /\ MasterClosed(s)
    /\ UNCHANGED <<callVars, startVars, services, mgrVars, discVars, toolVars>>

-----------------------------------------------------------------------------
(* SessionManager.close, run once when the MCP lifespan ends.              *)

MgrClose ==
    /\ mgr = "open"
    /\ mgr' = "closing"
    /\ mgrTodo' = sessions
    /\ mgrSnap' = sessions
    /\ UNCHANGED <<callVars, regVars, startVars, masterVars, discVars, toolVars>>

\* gather runs one _close per listed session, each from a task of its own.
MgrCloseOne(s) ==
    /\ s \in mgrTodo
    /\ mgrTodo' = mgrTodo \ {s}
    /\ RequestClose(s)
    /\ UNCHANGED <<callVars, sessions, startVars, masterVars, mgr, mgrSnap, discVars, toolVars>>

MgrAllClosed == mgrTodo = {} /\ \A s \in mgrSnap : close[s] = "done"

MgrDone ==
    /\ mgr = "closing"
    /\ MgrAllClosed
    /\ mgr' = "closed"
    /\ UNCHANGED <<callVars, regVars, startVars, masterVars, mgrTodo, mgrSnap, discVars, toolVars>>

-----------------------------------------------------------------------------
(* disconnect                                                              *)

Disconnect(d, s) ==
    /\ dpc[d] = "idle"
    /\ dtgt' = [dtgt EXCEPT ![d] = s]
    /\ \/ /\ s \in sessions
          /\ RequestClose(s)
          /\ dpc' = [dpc EXCEPT ![d] = "waiting"]
          /\ UNCHANGED dres
       \/ /\ s \notin sessions
          /\ dpc' = [dpc EXCEPT ![d] = "done"]
          /\ dres' = [dres EXCEPT ![d] = "session_not_found"]
          /\ UNCHANGED close
    /\ UNCHANGED <<callVars, sessions, startVars, masterVars, mgrVars, toolVars>>

MutDisconnectMayReturn(d) == dpc[d] = "waiting"
DisconnectMayReturn(d) == dpc[d] = "waiting" /\ close[dtgt[d]] = "done"

DisconnectDone(d) ==
    /\ DisconnectMayReturn(d)
    /\ dpc' = [dpc EXCEPT ![d] = "done"]
    /\ dres' = [dres EXCEPT ![d] = State(dtgt[d])]
    /\ UNCHANGED <<callVars, regVars, startVars, masterVars, mgrVars, dtgt, toolVars>>

CancelDisconnect(d) ==
    /\ dpc[d] = "waiting"
    /\ dpc' = [dpc EXCEPT ![d] = "done"]
    /\ dres' = [dres EXCEPT ![d] = "cancelled"]
    /\ UNCHANGED <<callVars, regVars, startVars, masterVars, mgrVars, dtgt, toolVars>>

-----------------------------------------------------------------------------
(* Keyed tools: authorize, ensure_ready, launch under the service's lock.  *)

\* authorize: the session exists, its key left the server (nothing else can
\* present it), it is not closing and its services are attached.
Authorized(s) == s \in sessions /\ Issued(s) /\ ~Closing(s) /\ s \in services

Authorize(t, s) ==
    /\ tpc[t] = "idle"
    /\ \/ /\ Authorized(s)
          /\ tpc' = [tpc EXCEPT ![t] = "authorized"]
          /\ tsess' = [tsess EXCEPT ![t] = s]
       \/ /\ ~Authorized(s)
          /\ tpc' = [tpc EXCEPT ![t] = "done"]
          /\ UNCHANGED tsess
    /\ UNCHANGED <<callVars, regVars, startVars, masterVars, mgrVars, discVars>>

\* master.ensure_ready raised: the master is not ready, or it has died or no
\* longer answers and is now marked lost.
EnsureReadyFails(s) ==
    mstate' = [mstate EXCEPT ![s] = IF @ = "ready" THEN "lost" ELSE @]

CheckReady(t) ==
    /\ tpc[t] = "authorized"
    /\ \/ /\ mstate[tsess[t]] = "ready"
          /\ tsess[t] \in proc
          /\ tpc' = [tpc EXCEPT ![t] = "checked"]
          /\ UNCHANGED mstate
       \/ /\ EnsureReadyFails(tsess[t])
          /\ tpc' = [tpc EXCEPT ![t] = "done"]
    /\ UNCHANGED <<callVars, regVars, startVars, proc, services, mgrVars, discVars, tsess>>

\* CommandRunner and TransferManager look at _closed under their lock.
Launch(t) ==
    /\ tpc[t] = "checked"
    /\ tpc' = [tpc EXCEPT ![t] = IF ServiceClosed(t, tsess[t]) THEN "done" ELSE "running"]
    /\ UNCHANGED <<callVars, regVars, startVars, masterVars, mgrVars, discVars, tsess>>

\* The work ends: normally, by its timeout, by cancellation or by close().
WorkEnds(t) ==
    /\ tpc[t] = "running"
    /\ tpc' = [tpc EXCEPT ![t] = "done"]
    /\ UNCHANGED <<callVars, regVars, startVars, masterVars, mgrVars, discVars, tsess>>

\* list_sessions: _refresh of one session; ensure_ready may mark it lost.
Refresh(s) ==
    /\ s \in sessions
    /\ ~Closing(s)
    /\ s \in services
    /\ mstate[s] = "ready"
    /\ EnsureReadyFails(s)
    /\ UNCHANGED <<callVars, regVars, startVars, proc, services, mgrVars, discVars, toolVars>>

\* The environment: the network or the server ends a ready master.
MasterDies(s) ==
    /\ s \in proc
    /\ mstate[s] # "starting"
    /\ proc' = proc \ {s}
    /\ UNCHANGED <<callVars, regVars, startVars, mstate, services, mgrVars, discVars, toolVars>>

-----------------------------------------------------------------------------
(* Specification.                                                          *)

\* Everything has returned: only then may the system stand still.
Quiescent ==
    /\ \A c \in Calls : pc[c] = "done"
    /\ \A d \in Disconnects : dpc[d] = "done"
    /\ \A t \in Tools : tpc[t] = "done"
    /\ mgr = "closed"
    /\ UNCHANGED vars

ConnectStep(c) ==
    \/ ResolveFails(c)
    \/ \E v \in Servers : Resolved(c, v)
    \/ OwnerClosed(c)
    \/ StartObserved(c)
    \/ ConnectCleaned(c)
StartStep(s) == StartAcquire(s) \/ StartOK(s) \/ StartFail(s) \/ StartCancelled(s)
CloseStep(s) ==
    \/ ShutdownBegin(s)
    \/ ShutdownAfterStart(s)
    \/ TransfersStopped(s)
    \/ RunnerStopped(s)
    \/ ShutdownDone(s)
ToolStep(t) == CheckReady(t) \/ Launch(t) \/ WorkEnds(t)

\* A transfer has no timeout of its own: only close() makes it end.
ToolProgress(t) ==
    \/ CheckReady(t)
    \/ Launch(t)
    \/ WorkEnds(t) /\ (t \in TransferCalls => TransfersClosed(tsess[t]))

Next ==
    \/ \E c \in Calls : Connect(c) \/ ConnectStep(c) \/ CancelConnect(c)
    \/ \E s \in Calls : StartStep(s) \/ CloseStep(s)
    \/ \E s \in Calls : MgrCloseOne(s) \/ Refresh(s) \/ MasterDies(s)
    \/ MgrClose
    \/ MgrDone
    \/ \E d \in Disconnects :
          \/ \E s \in Calls : Disconnect(d, s)
          \/ DisconnectDone(d)
          \/ CancelDisconnect(d)
    \/ \E t \in Tools : (\E s \in Calls : Authorize(t, s)) \/ ToolStep(t)
    \/ Quiescent

Spec == Init /\ [][Next]_vars

\* A task of the event loop that can run does run, and what it waits for ends:
\* ssh -G by RESOLVE_TIMEOUT, master.start by connect_timeout, a command by its
\* timeout, a process by SIGKILL.  Nobody has to call, cancel or shut down.
Fairness ==
    /\ \A c \in Calls : WF_vars(ConnectStep(c)) /\ WF_vars(StartStep(c)) /\ WF_vars(CloseStep(c))
    /\ \A c \in Calls : WF_vars(MgrCloseOne(c))
    /\ WF_vars(MgrDone)
    /\ \A d \in Disconnects : WF_vars(DisconnectDone(d))
    /\ \A t \in Tools : WF_vars(ToolProgress(t))

FairSpec == Spec /\ Fairness

-----------------------------------------------------------------------------
(* Properties.                                                             *)

\* Every variable keeps the shape the code gives it.
TypeOK ==
    /\ pc \in [Calls -> ConnectPCs]
    /\ srv \in [Calls -> Servers \cup {None}]
    /\ awaiting \in [Calls -> Calls \cup {None}]
    /\ res \in [Calls -> Results]
    /\ sessions \subseteq Calls
    /\ close \in [Calls -> ClosePCs]
    /\ start \in [Calls -> {"none"} \cup StartRunning \cup StartDone]
    /\ startCancel \subseteq Calls
    /\ locked \in BOOLEAN
    /\ mstate \in [Calls -> MasterStates]
    /\ proc \subseteq Calls
    /\ services \subseteq Calls
    /\ mgr \in {"open", "closing", "closed"}
    /\ mgrTodo \subseteq Calls
    /\ mgrSnap \subseteq Calls
    /\ dpc \in [Disconnects -> {"idle", "waiting", "done"}]
    /\ dtgt \in [Disconnects -> Calls \cup {None}]
    /\ dres \in [Disconnects -> {"none", "closed", "session_not_found", "cancelled"}]
    /\ tpc \in [Tools -> {"idle", "authorized", "checked", "running", "done"}]
    /\ tsess \in [Tools -> Calls \cup {None}]

\* connect, ServerIdentity ("at most one session may own"): although a connect
\* suspends between looking for an owner and registering, two ssh masters
\* never live at once for one effective server, not even while the previous
\* owner is still being torn down.
OneMasterPerServer ==
    \A a, b \in proc : srv[a] = srv[b] => a = b

\* _ensure_accepting: calls that passed the first check together cannot push
\* the registry over max_sessions.
SessionLimit == Cardinality(sessions) <= MaxSessions

\* _start: at most one master authenticates at a time, however start tasks,
\* failures and cancellations interleave.
AuthSerialized ==
    \A a, b \in Calls : mstate[a] = "starting" /\ mstate[b] = "starting" => a = b

\* connect: a registered session always has somebody who will use it or remove
\* it: its connect still waits, its key was returned, or it is closing.
NoForgottenSession ==
    \A s \in sessions : pc[s] = "waitStart" \/ Issued(s) \/ Closing(s)

\* _shutdown: a live ssh master always belongs to a registered session, so that
\* disconnect and the shutdown of the server can reach it.
NoOrphanMaster == proc \subseteq sessions

\* close: when the lifespan has ended no session, master or start task is left,
\* connects that were resolving or waiting while it ran included.
ClosedServerEmpty ==
    mgr = "closed" =>
        /\ sessions = {}
        /\ proc = {}
        /\ \A s \in Calls : start[s] \notin StartRunning

\* connect: the key is handed out only for a session that is registered, that
\* nobody has begun to close and whose services are attached.
KeyForUsableSession ==
    [][\A c \in Calls :
          ~Issued(c) /\ Issued(c)' => c \in sessions' /\ ~Closing(c)' /\ c \in services']_vars

\* disconnect: once it has reported the session closed, the session is gone
\* from the registry, its master is dead and none of its work runs.
DisconnectReleases ==
    \A d \in Disconnects :
        dpc[d] = "done" /\ dres[d] \notin {"session_not_found", "cancelled"} =>
            /\ dres[d] = "closed"
            /\ dtgt[d] \notin sessions
            /\ dtgt[d] \notin proc
            /\ ~Working(Tools, dtgt[d])

\* authorize hands out services that may be stale when they are used: work
\* launched through them never runs in a session whose close has completed.
NoWorkAfterClose ==
    \A t \in Tools : tpc[t] = "running" => tsess[t] \in sessions

\* Every connect returns: the key, a refusal or an error.
ConnectReturns == \A c \in Calls : pc[c] # "idle" ~> pc[c] = "done"

\* A close task that was created removes its session, also when every caller
\* that awaited it was cancelled.
CloseCompletes == \A s \in Calls : Closing(s) ~> s \notin sessions

\* The server's shutdown ends, whatever connects and tools were doing.
ShutdownCompletes == mgr = "closing" ~> mgr = "closed"

\* The registry, the masters and the keys implement ServerLease: a session
\* holds the lease on its server exactly while it is registered.
Lease == INSTANCE ServerLease WITH
    Holders <- Calls,
    lease   <- [c \in Calls |-> IF c \in sessions THEN srv[c] ELSE None],
    masters <- proc,
    spent   <- {c \in Calls : mstate[c] # "new"},
    issued  <- {c \in Calls : Issued(c)}
ImplementsLease == Lease!LeaseSpec

=============================================================================
