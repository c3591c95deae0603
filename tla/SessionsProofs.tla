--------------------------- MODULE SessionsProofs ---------------------------
(***************************************************************************)
(* Proofs about Sessions, for every set of calls, servers, disconnects and *)
(* tools and every limit.  The invariants that matter are not inductive on *)
(* their own: they follow from how the connect call, the start task and    *)
(* the close task of ONE session can stand to each other (CallInv), plus   *)
(* four facts that relate sessions (Exclusive, LockInv, SessionLimit and   *)
(* MgrInv) and the two kinds of outside callers (ToolInv, DiscInv).        *)
(***************************************************************************)
EXTENDS Sessions, TLAPS, FiniteSetTheorems

\* The three tasks of a session.  A session is registered exactly from the
\* creation of its start task to the end of its close task.
CallInv(c) ==
    /\ c \in sessions <=> start[c] # "none" /\ close[c] # "done"
    /\ start[c] = "none" => /\ pc[c] \in {"idle", "resolving", "waitOwner", "done"}
                            /\ ~Closing(c)
                            /\ mstate[c] = "new"
                            /\ ~Issued(c)
    /\ pc[c] \in {"idle", "resolving", "waitOwner"} => start[c] = "none" /\ res[c] = "none"
    /\ pc[c] = "waitOwner" => srv[c] \in Servers /\ awaiting[c] \in Calls
    /\ start[c] # "none" => srv[c] \in Servers
    /\ start[c] \in StartRunning => close[c] \in {"none", "created", "waitStart"}
    /\ start[c] = "queued" => mstate[c] = "new"
    /\ start[c] = "auth" <=> mstate[c] = "starting"
    /\ start[c] = "done" => mstate[c] # "new"
    /\ c \in proc => c \in sessions /\ mstate[c] # "new"
    /\ c \in services <=> start[c] = "done"
    /\ c \in startCancel => start[c] # "none" /\ Closing(c)
    /\ close[c] = "done" => mstate[c] = "closed"
    /\ Issued(c) => pc[c] = "done" /\ start[c] = "done"
    /\ pc[c] = "waitClose" => Closing(c)
    /\ pc[c] = "done" /\ start[c] # "none" => Issued(c) \/ Closing(c)

\* One registered session per server.
Exclusive == \A a, b \in sessions : srv[a] = srv[b] => a = b

\* The authentication lock is held exactly by the task inside master.start.
LockInv ==
    /\ \A a, b \in Calls : start[a] = "auth" /\ start[b] = "auth" => a = b
    /\ locked <=> \E a \in Calls : start[a] = "auth"

\* What SessionManager.close knows of the registry.
MgrInv ==
    /\ mgr = "open" => mgrSnap = {}
    /\ mgr # "open" => sessions \subseteq mgrSnap
    /\ mgrTodo \subseteq mgrSnap
    /\ \A s \in mgrSnap : start[s] # "none"
    /\ mgr = "closed" => \A s \in mgrSnap : close[s] = "done"

\* Work belongs to a session that was ready and whose service is not closed.
ToolInv(t) ==
    /\ tpc[t] \in {"authorized", "checked", "running"} => tsess[t] \in services
    /\ tpc[t] = "running" =>
          close[tsess[t]] \in {"none", "created", "waitStart", "transfers"}
             \cup (IF t \in TransferCalls THEN {} ELSE {"runner"})

\* A waiting disconnect has its close task; a finished one saw it end.
DiscInv(d) ==
    /\ dpc[d] = "waiting" => dtgt[d] \in Calls /\ Closing(dtgt[d])
    /\ dpc[d] = "done" /\ dres[d] \notin {"session_not_found", "cancelled"} =>
          dtgt[d] \in Calls /\ close[dtgt[d]] = "done" /\ dres[d] = "closed"

IInv ==
    /\ TypeOK
    /\ \A c \in Calls : CallInv(c)
    /\ Exclusive
    /\ LockInv
    /\ SessionLimit
    /\ MgrInv
    /\ \A t \in Tools : ToolInv(t)
    /\ \A d \in Disconnects : DiscInv(d)

-----------------------------------------------------------------------------
(* The groups of variables and the sets of program counters are expanded   *)
(* everywhere; what a leaf says about actions and invariants it cites.     *)
USE DEF callVars, regVars, startVars, masterVars, mgrVars, discVars, toolVars,
        ConnectPCs, Results, ClosePCs, StartRunning, StartDone, MasterStates, Tools

\* The registry is finite, so adding one session to a registry below the limit
\* keeps it within the limit, and removing one never exceeds it.
LEMMA RegistrySize ==
    ASSUME TypeOK, NEW c \in Calls
    PROVE  /\ Accepting => Cardinality(sessions \cup {c}) <= MaxSessions
           /\ SessionLimit => Cardinality(sessions \ {c}) <= MaxSessions
  <1>1. IsFiniteSet(sessions)
    BY SessionsAssumption, FS_Subset DEF TypeOK
  <1>2. Cardinality(sessions) \in Nat
    BY <1>1, FS_CardinalityType
  <1>3. Cardinality(sessions \cup {c}) <= Cardinality(sessions) + 1
    BY <1>1, <1>2, FS_AddElement
  <1>4. Cardinality(sessions \ {c}) <= Cardinality(sessions)
    BY <1>1, <1>2, FS_RemoveElement
  <1>5. Cardinality(sessions \cup {c}) \in Nat /\ Cardinality(sessions \ {c}) \in Nat
    BY <1>1, FS_AddElement, FS_RemoveElement, FS_CardinalityType
  <1>. QED
    BY <1>2, <1>3, <1>4, <1>5, SessionsAssumption DEF Accepting, SessionLimit

\* The initial state satisfies the invariant.
LEMMA InitIInv == Init => IInv
  <1>. SUFFICES ASSUME Init PROVE IInv
    OBVIOUS
  <1>1. TypeOK
    BY DEF Init, TypeOK
  <1>2. SessionLimit
    BY FS_EmptySet, SessionsAssumption DEF Init, SessionLimit
  <1>3. /\ \A c \in Calls : CallInv(c)
        /\ Exclusive /\ LockInv /\ MgrInv
        /\ \A t \in Tools : ToolInv(t)
        /\ \A d \in Disconnects : DiscInv(d)
    BY DEF Init, CallInv, Closing, Issued, Exclusive, LockInv, MgrInv, ToolInv, DiscInv
  <1>. QED
    BY <1>1, <1>2, <1>3 DEF IInv

\* Between the search for an owner and the registration connect never waits:
\* a call that finds no owner registers the only session of its server.
LEMMA ProceedIInv ==
    ASSUME IInv, NEW c \in Calls, NEW v \in Servers,
           pc[c] \in {"resolving", "waitOwner"},
           Proceed(c, v),
           srv' = [srv EXCEPT ![c] = v],
           UNCHANGED <<close, startCancel, locked, masterVars, mgrVars, discVars, toolVars>>
    PROVE  IInv'
  <1>1. CASE sessions' = sessions /\ start' = start
    BY <1>1, SessionsAssumption
    DEF IInv, TypeOK, CallInv, Closing, Issued, Exclusive, LockInv, SessionLimit, MgrInv,
        ToolInv, DiscInv, Proceed, Return, Register, Owners
  <1>2. CASE Owners(v) = {} /\ Accepting /\ Register(c) /\ UNCHANGED res
                /\ awaiting' = [awaiting EXCEPT ![c] = None]
    <2>1. TypeOK'
      BY <1>2 DEF IInv, TypeOK, Register
    <2>2. ASSUME NEW x \in Calls PROVE CallInv(x)'
      BY <1>2 DEF IInv, TypeOK, CallInv, Closing, Issued, Register
    <2>3. Exclusive'
      BY <1>2 DEF IInv, TypeOK, Exclusive, Register, Owners
    <2>4. LockInv'
      BY <1>2 DEF IInv, TypeOK, CallInv, LockInv, Register
    <2>5. SessionLimit'
      BY <1>2, RegistrySize DEF IInv, SessionLimit, Register
    <2>6. MgrInv'
      BY <1>2 DEF IInv, TypeOK, MgrInv, Register, Accepting
    <2>7. /\ \A t \in Tools : ToolInv(t)'
          /\ \A d \in Disconnects : DiscInv(d)'
      BY <1>2 DEF IInv, ToolInv, DiscInv, Closing
    <2>. QED
      BY <2>1, <2>2, <2>3, <2>4, <2>5, <2>6, <2>7 DEF IInv
  <1>. QED
    BY <1>1, <1>2 DEF Proceed, Return

\* Every step of a connect call preserves the invariant.
LEMMA ConnectIInv ==
    ASSUME IInv, NEW c \in Calls, Connect(c) \/ ConnectStep(c) \/ CancelConnect(c)
    PROVE  IInv'
  <1>1. CASE Connect(c) \/ ResolveFails(c)
    BY <1>1, SessionsAssumption
    DEF IInv, TypeOK, CallInv, Closing, Issued, Exclusive, LockInv, SessionLimit, MgrInv,
        ToolInv, DiscInv, Connect, ResolveFails, Return
  <1>2. CASE \E v \in Servers : Resolved(c, v)
    BY <1>2, ProceedIInv DEF Resolved
  <1>3. CASE OwnerClosed(c)
    <2>1. srv[c] \in Servers /\ srv' = [srv EXCEPT ![c] = srv[c]]
      BY <1>3 DEF IInv, TypeOK, CallInv, OwnerClosed
    <2>. QED
      BY <1>3, <2>1, ProceedIInv DEF OwnerClosed
  <1>4. CASE StartObserved(c)
    BY <1>4, SessionsAssumption
    DEF IInv, TypeOK, CallInv, Closing, Issued, Exclusive, LockInv, SessionLimit, MgrInv,
        ToolInv, DiscInv, StartObserved, StartOutcome, RequestClose
  <1>5. CASE ConnectCleaned(c)
    BY <1>5, SessionsAssumption
    DEF IInv, TypeOK, CallInv, Closing, Issued, Exclusive, LockInv, SessionLimit, MgrInv,
        ToolInv, DiscInv, ConnectCleaned
  <1>6. CASE CancelConnect(c)
    BY <1>6, SessionsAssumption
    DEF IInv, TypeOK, CallInv, Closing, Issued, Exclusive, LockInv, SessionLimit, MgrInv,
        ToolInv, DiscInv, CancelConnect, CancelStart, RequestClose, Return
  <1>. QED
    BY <1>1, <1>2, <1>3, <1>4, <1>5, <1>6 DEF ConnectStep

\* Every step of a start task preserves the invariant; a task that leaves
\* master.start was the only one inside, so the lock is free afterwards.
LEMMA StartIInv ==
    ASSUME IInv, NEW s \in Calls, StartStep(s)
    PROVE  IInv'
  <1>1. CASE StartAcquire(s)
    BY <1>1
    DEF IInv, TypeOK, CallInv, Closing, Issued, Exclusive, LockInv, SessionLimit, MgrInv,
        ToolInv, DiscInv, StartAcquire, StartMayAcquire
  <1>2. CASE StartOK(s) \/ StartFail(s) \/ StartCancelled(s)
    <2>1. TypeOK'
      <3>1. CASE StartOK(s)
        BY <3>1 DEF IInv, TypeOK, StartOK
      <3>2. CASE StartFail(s)
        BY <3>2 DEF IInv, TypeOK, StartFail
      <3>3. CASE StartCancelled(s)
        BY <3>3 DEF IInv, TypeOK, StartCancelled
      <3>. QED
        BY <1>2, <3>1, <3>2, <3>3
    <2>2. ASSUME NEW x \in Calls PROVE CallInv(x)'
      BY <1>2 DEF IInv, TypeOK, CallInv, Closing, Issued, StartOK, StartFail, StartCancelled
    <2>3. LockInv'
      <3>1. CASE start[s] = "auth"
        BY <1>2, <3>1 DEF IInv, TypeOK, LockInv, StartOK, StartFail, StartCancelled
      <3>2. CASE start[s] = "queued"
        BY <1>2, <3>2 DEF IInv, TypeOK, LockInv, StartOK, StartFail, StartCancelled
      <3>. QED
        BY <1>2, <3>1, <3>2 DEF StartOK, StartFail, StartCancelled
    <2>4. Exclusive' /\ SessionLimit' /\ MgrInv'
      BY <1>2 DEF IInv, TypeOK, Exclusive, SessionLimit, MgrInv, StartOK, StartFail, StartCancelled
    <2>5. /\ \A t \in Tools : ToolInv(t)'
          /\ \A d \in Disconnects : DiscInv(d)'
      BY <1>2 DEF IInv, ToolInv, DiscInv, Closing, StartOK, StartFail, StartCancelled
    <2>. QED
      BY <2>1, <2>2, <2>3, <2>4, <2>5 DEF IInv
  <1>. QED
    BY <1>1, <1>2 DEF StartStep

\* Every step of a close task preserves the invariant; the registry entry goes
\* only after the start task settled and no work is left in the session.
LEMMA CloseIInv ==
    ASSUME IInv, NEW s \in Calls, CloseStep(s)
    PROVE  IInv'
  <1>1. CASE ShutdownBegin(s) \/ ShutdownAfterStart(s)
    BY <1>1
    DEF IInv, TypeOK, CallInv, Closing, Issued, Exclusive, LockInv, SessionLimit, MgrInv,
        ToolInv, DiscInv, ShutdownBegin, ShutdownAfterStart, AfterStart
  <1>2. CASE TransfersStopped(s) \/ RunnerStopped(s)
    BY <1>2
    DEF IInv, TypeOK, CallInv, Closing, Issued, Exclusive, LockInv, SessionLimit, MgrInv,
        ToolInv, DiscInv, TransfersStopped, RunnerStopped, Working
  <1>3. CASE ShutdownDone(s)
    <2>1. TypeOK'
      BY <1>3 DEF IInv, TypeOK, ShutdownDone, MasterClosed
    <2>2. ASSUME NEW x \in Calls PROVE CallInv(x)'
      BY <1>3 DEF IInv, TypeOK, CallInv, Closing, Issued, ShutdownDone, MasterClosed
    <2>3. SessionLimit'
      BY <1>3, RegistrySize DEF IInv, SessionLimit, ShutdownDone, MasterClosed
    <2>4. Exclusive' /\ LockInv' /\ MgrInv'
      BY <1>3 DEF IInv, TypeOK, Exclusive, LockInv, MgrInv, ShutdownDone, MasterClosed
    <2>5. ASSUME NEW t \in Tools PROVE ToolInv(t)'
      BY <1>3 DEF IInv, TypeOK, ToolInv, ShutdownDone, MasterClosed
    <2>6. ASSUME NEW d \in Disconnects PROVE DiscInv(d)'
      BY <1>3 DEF IInv, TypeOK, DiscInv, Closing, ShutdownDone, MasterClosed
    <2>. QED
      BY <2>1, <2>2, <2>3, <2>4, <2>5, <2>6 DEF IInv
  <1>. QED
    BY <1>1, <1>2, <1>3 DEF CloseStep

\* SessionManager.close preserves the invariant.
LEMMA MgrIInv ==
    ASSUME IInv, MgrClose \/ MgrDone \/ \E s \in Calls : MgrCloseOne(s)
    PROVE  IInv'
  <1>1. CASE MgrClose
    BY <1>1
    DEF IInv, TypeOK, CallInv, Closing, Issued, Exclusive, LockInv, SessionLimit, MgrInv,
        ToolInv, DiscInv, MgrClose
  <1>2. CASE MgrDone
    BY <1>2
    DEF IInv, TypeOK, CallInv, Closing, Issued, Exclusive, LockInv, SessionLimit, MgrInv,
        ToolInv, DiscInv, MgrDone, MgrAllClosed
  <1>3. ASSUME NEW s \in Calls, MgrCloseOne(s) PROVE IInv'
    BY <1>3
    DEF IInv, TypeOK, CallInv, Closing, Issued, Exclusive, LockInv, SessionLimit, MgrInv,
        ToolInv, DiscInv, MgrCloseOne, RequestClose
  <1>. QED
    BY <1>1, <1>2, <1>3

\* Disconnect calls preserve the invariant: a closed session reports "closed".
LEMMA DiscIInv ==
    ASSUME IInv, NEW d \in Disconnects,
           (\E s \in Calls : Disconnect(d, s)) \/ DisconnectDone(d) \/ CancelDisconnect(d)
    PROVE  IInv'
  <1>1. ASSUME NEW s \in Calls, Disconnect(d, s) PROVE IInv'
    BY <1>1
    DEF IInv, TypeOK, CallInv, Closing, Issued, Exclusive, LockInv, SessionLimit, MgrInv,
        ToolInv, DiscInv, Disconnect, RequestClose
  <1>2. CASE DisconnectDone(d) \/ CancelDisconnect(d)
    BY <1>2
    DEF IInv, TypeOK, CallInv, Closing, Issued, Exclusive, LockInv, SessionLimit, MgrInv,
        ToolInv, DiscInv, DisconnectDone, DisconnectMayReturn, CancelDisconnect, State
  <1>. QED
    BY <1>1, <1>2

\* Keyed tool calls preserve the invariant: work starts only while its service
\* is open.
LEMMA ToolIInv ==
    ASSUME IInv, NEW t \in Tools, (\E s \in Calls : Authorize(t, s)) \/ ToolStep(t)
    PROVE  IInv'
  <1>1. ASSUME NEW s \in Calls, Authorize(t, s) PROVE IInv'
    BY <1>1
    DEF IInv, TypeOK, CallInv, Closing, Issued, Exclusive, LockInv, SessionLimit, MgrInv,
        ToolInv, DiscInv, Authorize, Authorized
  <1>2. CASE CheckReady(t) \/ WorkEnds(t)
    BY <1>2
    DEF IInv, TypeOK, CallInv, Closing, Issued, Exclusive, LockInv, SessionLimit, MgrInv,
        ToolInv, DiscInv, CheckReady, EnsureReadyFails, WorkEnds
  <1>3. CASE Launch(t)
    BY <1>3
    DEF IInv, TypeOK, CallInv, Closing, Issued, Exclusive, LockInv, SessionLimit, MgrInv,
        ToolInv, DiscInv, Launch, ServiceClosed, TransfersClosed, RunnerClosed
  <1>. QED
    BY <1>1, <1>2, <1>3 DEF ToolStep

\* The master itself: it dies, or a refresh finds that it did.
LEMMA MasterIInv ==
    ASSUME IInv, NEW s \in Calls, Refresh(s) \/ MasterDies(s)
    PROVE  IInv'
  BY DEF IInv, TypeOK, CallInv, Closing, Issued, Exclusive, LockInv, SessionLimit, MgrInv,
         ToolInv, DiscInv, Refresh, MasterDies, EnsureReadyFails

\* A step that changes nothing.
LEMMA StutterIInv == ASSUME IInv, UNCHANGED vars PROVE IInv'
  BY DEF IInv, TypeOK, CallInv, Closing, Issued, Exclusive, LockInv, SessionLimit, MgrInv,
         ToolInv, DiscInv, vars

\* IInv is inductive.
LEMMA NextIInv == IInv /\ [Next]_vars => IInv'
  <1>. SUFFICES ASSUME IInv, [Next]_vars PROVE IInv'
    OBVIOUS
  <1>. QED
    BY ConnectIInv, StartIInv, CloseIInv, MgrIInv, DiscIInv, ToolIInv, MasterIInv, StutterIInv
    DEF Next, Quiescent

\* IInv holds in every reachable state.
THEOREM InvariantHolds == Spec => []IInv
  BY InitIInv, NextIInv, PTL DEF Spec

-----------------------------------------------------------------------------
(* The theorems.                                                           *)

\* connect, _start, _shutdown: every variable keeps its shape.
THEOREM TypeCorrect == Spec => []TypeOK
  <1>1. IInv => TypeOK
    BY DEF IInv
  <1>. QED
    BY InvariantHolds, <1>1, PTL

\* connect: two live masters never share a server; a live master belongs to a
\* registered session and registered sessions have distinct servers.
THEOREM OneMaster == Spec => []OneMasterPerServer
  <1>1. IInv => OneMasterPerServer
    BY DEF IInv, TypeOK, CallInv, Exclusive, OneMasterPerServer
  <1>. QED
    BY InvariantHolds, <1>1, PTL

\* _shutdown: no master outlives its registry entry.
THEOREM NoOrphan == Spec => []NoOrphanMaster
  <1>1. IInv => NoOrphanMaster
    BY DEF IInv, TypeOK, CallInv, NoOrphanMaster
  <1>. QED
    BY InvariantHolds, <1>1, PTL

\* _ensure_accepting: the registry never exceeds max_sessions.
THEOREM Limit == Spec => []SessionLimit
  <1>1. IInv => SessionLimit
    BY DEF IInv
  <1>. QED
    BY InvariantHolds, <1>1, PTL

\* _start: authentications are serialized.
THEOREM OneAuthentication == Spec => []AuthSerialized
  <1>1. IInv => AuthSerialized
    BY DEF IInv, CallInv, LockInv, AuthSerialized
  <1>. QED
    BY InvariantHolds, <1>1, PTL

\* connect: no registered session is left without an owner or a close task.
THEOREM NoForgotten == Spec => []NoForgottenSession
  <1>1. IInv => NoForgottenSession
    BY DEF IInv, TypeOK, CallInv, Closing, Issued, NoForgottenSession
  <1>. QED
    BY InvariantHolds, <1>1, PTL

\* close: a server that has shut down owns nothing, however its last connects
\* and the shutdown interleaved.
THEOREM ShutdownLeavesNothing == Spec => []ClosedServerEmpty
  <1>1. IInv => ClosedServerEmpty
    BY DEF IInv, TypeOK, CallInv, MgrInv, ClosedServerEmpty
  <1>. QED
    BY InvariantHolds, <1>1, PTL

\* disconnect: what it reports as closed is released.
THEOREM DisconnectSound == Spec => []DisconnectReleases
  <1>1. IInv => DisconnectReleases
    BY DEF IInv, TypeOK, CallInv, ToolInv, DiscInv, Working, DisconnectReleases
  <1>. QED
    BY InvariantHolds, <1>1, PTL

\* authorize, run_script, _register: stale services never run work in a session
\* that has gone.
THEOREM WorkInSession == Spec => []NoWorkAfterClose
  <1>1. IInv => NoWorkAfterClose
    BY DEF IInv, TypeOK, CallInv, ToolInv, NoWorkAfterClose
  <1>. QED
    BY InvariantHolds, <1>1, PTL

\* connect: the key is returned only for a usable session.
THEOREM KeyUsable == Spec => KeyForUsableSession
  <1>1. ASSUME IInv, [Next]_vars, NEW c \in Calls, ~Issued(c), Issued(c)'
        PROVE  c \in sessions' /\ ~Closing(c)' /\ c \in services'
    <2>1. res' # res
      BY <1>1 DEF Issued
    <2>2. CASE StartObserved(c)
      BY <1>1, <2>2 DEF IInv, TypeOK, CallInv, Issued, Closing, StartObserved, StartOutcome, RequestClose
    <2>3. ASSUME NEW x \in Calls, Connect(x) \/ ConnectStep(x) \/ CancelConnect(x)
          PROVE  StartObserved(c)
      BY <1>1, <2>3
      DEF IInv, TypeOK, Issued, Connect, ConnectStep, CancelConnect, CancelStart, ResolveFails,
          Resolved, OwnerClosed, Proceed, Register, Return, StartObserved, ConnectCleaned
    <2>4. \E x \in Calls : Connect(x) \/ ConnectStep(x) \/ CancelConnect(x)
      BY <1>1, <2>1
      DEF Next, vars, Quiescent, StartStep, StartAcquire, StartOK, StartFail, StartCancelled,
          CloseStep, ShutdownBegin, ShutdownAfterStart, TransfersStopped, RunnerStopped,
          ShutdownDone, MgrClose, MgrCloseOne, MgrDone, Refresh, MasterDies, Disconnect,
          DisconnectDone, CancelDisconnect, Authorize, ToolStep, CheckReady, Launch, WorkEnds
    <2>. QED
      BY <2>2, <2>3, <2>4
  <1>2. IInv /\ [Next]_vars =>
          [\A c \in Calls :
              ~Issued(c) /\ Issued(c)' => c \in sessions' /\ ~Closing(c)' /\ c \in services']_vars
    BY <1>1
  <1>. QED
    BY InvariantHolds, <1>2, PTL DEF Spec, KeyForUsableSession

-----------------------------------------------------------------------------
(* Sessions implements ServerLease.                                        *)

\* The state of ServerLease that the refinement mapping reads off a state.
leaseOf   == [c \in Calls |-> IF c \in sessions THEN srv[c] ELSE None]
spentOf   == {c \in Calls : mstate[c] # "new"}
issuedOf  == {c \in Calls : Issued(c)}

\* A step that leaves the mapped state alone is a stutter of ServerLease.
LeaseStutter == leaseOf' = leaseOf /\ proc' = proc /\ spentOf' = spentOf /\ issuedOf' = issuedOf

\* connect: registration claims the server, returning the key issues it and no
\* other step of a connect call concerns the lease.
LEMMA ConnectLease ==
    ASSUME IInv, NEW c \in Calls, Connect(c) \/ ConnectStep(c) \/ CancelConnect(c)
    PROVE  Lease!LeaseNext \/ LeaseStutter
  <1>1. CASE Connect(c) \/ ResolveFails(c) \/ ConnectCleaned(c) \/ CancelConnect(c)
    BY <1>1
    DEF IInv, TypeOK, CallInv, LeaseStutter, leaseOf, spentOf, issuedOf, Issued, Connect,
        ResolveFails, ConnectCleaned, CancelConnect, CancelStart, Return
  <1>2. ASSUME NEW v \in Servers, Proceed(c, v), pc[c] \in {"resolving", "waitOwner"},
               srv' = [srv EXCEPT ![c] = v], UNCHANGED <<close, masterVars>>
        PROVE  Lease!LeaseNext \/ LeaseStutter
    <2>1. CASE Register(c) /\ Owners(v) = {} /\ UNCHANGED res
      <3>1. leaseOf[c] = None /\ c \notin spentOf
        BY <1>2 DEF IInv, CallInv, leaseOf, spentOf
      <3>2. \A o \in Calls : leaseOf[o] # v
        BY <2>1, SessionsAssumption DEF leaseOf, Owners
      <3>3. leaseOf' = [leaseOf EXCEPT ![c] = v]
        BY <1>2, <2>1 DEF IInv, TypeOK, leaseOf, Register
      <3>4. proc' = proc /\ spentOf' = spentOf /\ issuedOf' = issuedOf
        BY <1>2, <2>1 DEF spentOf, issuedOf, Issued
      <3>5. Lease!Claim(c, v)
        BY <3>1, <3>2, <3>3, <3>4 DEF Lease!Claim, leaseOf, spentOf, issuedOf
      <3>. QED
        BY <3>5 DEF Lease!LeaseNext
    <2>2. CASE sessions' = sessions
      BY <1>2, <2>2
      DEF IInv, TypeOK, CallInv, LeaseStutter, leaseOf, spentOf, issuedOf, Issued, Proceed,
          Return, Register
    <2>. QED
      BY <1>2, <2>1, <2>2 DEF Proceed, Return
  <1>3. CASE \E v \in Servers : Resolved(c, v)
    BY <1>2, <1>3 DEF Resolved
  <1>4. CASE OwnerClosed(c)
    <2>1. srv[c] \in Servers /\ srv' = [srv EXCEPT ![c] = srv[c]]
      BY <1>4 DEF IInv, TypeOK, CallInv, OwnerClosed
    <2>. QED
      BY <1>2, <1>4, <2>1 DEF OwnerClosed
  <1>5. CASE StartObserved(c)
    <2>1. CASE StartOutcome(c) = "key"
      <3>1. leaseOf[c] # None /\ c \in spentOf
        BY <1>5, <2>1, SessionsAssumption
        DEF IInv, TypeOK, CallInv, Closing, leaseOf, spentOf, StartObserved, StartOutcome
      <3>2. issuedOf' = issuedOf \cup {c}
        BY <1>5, <2>1 DEF IInv, TypeOK, issuedOf, Issued, StartObserved
      <3>3. leaseOf' = leaseOf /\ proc' = proc /\ spentOf' = spentOf
        BY <1>5 DEF leaseOf, spentOf, StartObserved
      <3>4. Lease!Issue(c)
        BY <3>1, <3>2, <3>3 DEF Lease!Issue, leaseOf, spentOf, issuedOf
      <3>. QED
        BY <3>4 DEF Lease!LeaseNext
    <2>2. CASE StartOutcome(c) # "key"
      BY <1>5, <2>2
      DEF IInv, TypeOK, CallInv, LeaseStutter, leaseOf, spentOf, issuedOf, Issued, StartObserved
    <2>. QED
      BY <2>1, <2>2
  <1>. QED
    BY <1>1, <1>3, <1>4, <1>5 DEF ConnectStep

\* A master that goes, before or after it was ready, is lost.
LEMMA LoseLease ==
    ASSUME IInv, NEW s \in Calls, proc' = proc \ {s},
           leaseOf' = leaseOf, spentOf' = spentOf, issuedOf' = issuedOf
    PROVE  Lease!LeaseNext \/ LeaseStutter
  <1>1. CASE s \in proc
    BY <1>1 DEF Lease!LeaseNext, Lease!Lose, leaseOf, spentOf, issuedOf
  <1>2. CASE s \notin proc
    BY <1>2 DEF LeaseStutter
  <1>. QED
    BY <1>1, <1>2

\* _start: entering master.start spends the session's one authentication.
LEMMA StartLease ==
    ASSUME IInv, NEW s \in Calls, StartStep(s)
    PROVE  Lease!LeaseNext \/ LeaseStutter
  <1>1. CASE StartAcquire(s)
    <2>1. leaseOf[s] # None /\ s \notin spentOf
      BY <1>1, SessionsAssumption
      DEF IInv, TypeOK, CallInv, leaseOf, spentOf, StartAcquire, StartMayAcquire
    <2>2. spentOf' = spentOf \cup {s} /\ proc' = proc \cup {s}
      BY <1>1 DEF IInv, TypeOK, spentOf, StartAcquire
    <2>3. leaseOf' = leaseOf /\ issuedOf' = issuedOf
      BY <1>1 DEF leaseOf, issuedOf, Issued, StartAcquire
    <2>4. Lease!Authenticate(s)
      BY <2>1, <2>2, <2>3 DEF Lease!Authenticate, leaseOf, spentOf, issuedOf
    <2>. QED
      BY <2>4 DEF Lease!LeaseNext
  <1>2. CASE StartOK(s)
    BY <1>2
    DEF IInv, TypeOK, CallInv, LeaseStutter, leaseOf, spentOf, issuedOf, Issued, StartOK
  <1>3. CASE StartFail(s) \/ (StartCancelled(s) /\ start[s] = "auth")
    <2>1. spentOf' = spentOf
      BY <1>3 DEF IInv, TypeOK, CallInv, spentOf, StartFail, StartCancelled
    <2>2. proc' = proc \ {s} /\ leaseOf' = leaseOf /\ issuedOf' = issuedOf
      BY <1>3 DEF leaseOf, issuedOf, Issued, StartFail, StartCancelled
    <2>. QED
      BY <2>1, <2>2, LoseLease
  <1>4. CASE StartCancelled(s) /\ start[s] = "queued"
    BY <1>4 DEF LeaseStutter, leaseOf, spentOf, issuedOf, Issued, StartCancelled
  <1>. QED
    BY <1>1, <1>2, <1>3, <1>4 DEF StartStep, StartCancelled

\* _shutdown: the last step of the close task releases the lease.
LEMMA CloseLease ==
    ASSUME IInv, NEW s \in Calls, CloseStep(s)
    PROVE  Lease!LeaseNext \/ LeaseStutter
  <1>1. CASE ShutdownDone(s)
    <2>1. leaseOf[s] # None
      BY <1>1, SessionsAssumption
      DEF IInv, TypeOK, CallInv, Closing, leaseOf, ShutdownDone, MasterClosed
    <2>2. leaseOf' = [leaseOf EXCEPT ![s] = None]
      BY <1>1 DEF IInv, TypeOK, leaseOf, ShutdownDone, MasterClosed
    <2>3. spentOf' = spentOf \cup {s} /\ proc' = proc \ {s}
      BY <1>1 DEF IInv, TypeOK, spentOf, ShutdownDone, MasterClosed
    <2>4. issuedOf' = issuedOf
      BY <1>1 DEF issuedOf, Issued, ShutdownDone
    <2>5. Lease!Release(s)
      BY <2>1, <2>2, <2>3, <2>4 DEF Lease!Release, leaseOf, spentOf, issuedOf
    <2>. QED
      BY <2>5 DEF Lease!LeaseNext
  <1>2. CASE \/ ShutdownBegin(s) \/ ShutdownAfterStart(s)
             \/ TransfersStopped(s) \/ RunnerStopped(s)
    BY <1>2
    DEF LeaseStutter, leaseOf, spentOf, issuedOf, Issued, ShutdownBegin, ShutdownAfterStart,
        TransfersStopped, RunnerStopped
  <1>. QED
    BY <1>1, <1>2 DEF CloseStep

\* Everything else: only the death of a master concerns the lease.
LEMMA OtherLease ==
    ASSUME IInv,
           \/ MgrClose \/ MgrDone \/ Quiescent \/ UNCHANGED vars
           \/ \E s \in Calls : MgrCloseOne(s) \/ Refresh(s) \/ MasterDies(s)
           \/ \E d \in Disconnects : \/ \E s \in Calls : Disconnect(d, s)
                                     \/ DisconnectDone(d) \/ CancelDisconnect(d)
           \/ \E t \in Tools : (\E s \in Calls : Authorize(t, s)) \/ ToolStep(t)
    PROVE  Lease!LeaseNext \/ LeaseStutter
  <1>1. ASSUME NEW s \in Calls, MasterDies(s) PROVE Lease!LeaseNext \/ LeaseStutter
    BY <1>1, LoseLease DEF leaseOf, spentOf, issuedOf, Issued, MasterDies
  <1>2. ASSUME NEW s \in Calls \cup {None}, EnsureReadyFails(s) PROVE spentOf' = spentOf
    BY <1>2 DEF IInv, TypeOK, spentOf, EnsureReadyFails
  <1>3. ASSUME NEW s \in Calls, Refresh(s) PROVE LeaseStutter
    BY <1>2, <1>3 DEF LeaseStutter, leaseOf, issuedOf, Issued, Refresh
  <1>4. ASSUME NEW t \in Tools, CheckReady(t) PROVE LeaseStutter
    <2>1. tsess[t] \in Calls \cup {None}
      BY DEF IInv, TypeOK
    <2>2. spentOf' = spentOf
      BY <1>2, <1>4, <2>1 DEF spentOf, CheckReady
    <2>. QED
      BY <1>4, <2>2 DEF LeaseStutter, leaseOf, issuedOf, Issued, CheckReady
  <1>5. ASSUME \/ MgrClose \/ MgrDone \/ Quiescent \/ UNCHANGED vars
               \/ \E s \in Calls : MgrCloseOne(s)
               \/ \E d \in Disconnects : \/ \E s \in Calls : Disconnect(d, s)
                                         \/ DisconnectDone(d) \/ CancelDisconnect(d)
               \/ \E t \in Tools : (\E s \in Calls : Authorize(t, s)) \/ Launch(t) \/ WorkEnds(t)
        PROVE  LeaseStutter
    BY <1>5
    DEF LeaseStutter, leaseOf, spentOf, issuedOf, Issued, vars, MgrClose, MgrDone, Quiescent,
        MgrCloseOne, Disconnect, DisconnectDone, CancelDisconnect, Authorize, Launch, WorkEnds
  <1>. QED
    BY <1>1, <1>3, <1>4, <1>5 DEF ToolStep

\* The session manager implements ServerLease: exclusive leases, one
\* authentication per session, keys only after it, and no master without lease.
THEOREM LeaseRefinement == Spec => ImplementsLease
  <1>1. Init => Lease!LeaseInit
    BY DEF Init, Lease!LeaseInit, Issued
  <1>2. IInv /\ [Next]_vars => [Lease!LeaseNext]_(Lease!leaseVars)
    <2>1. SUFFICES ASSUME IInv, [Next]_vars PROVE Lease!LeaseNext \/ LeaseStutter
      BY <2>1 DEF LeaseStutter, leaseOf, spentOf, issuedOf, Lease!leaseVars
    <2>. QED
      BY <2>1, ConnectLease, StartLease, CloseLease, OtherLease DEF Next
  <1>. QED
    BY <1>1, <1>2, InvariantHolds, PTL DEF Spec, ImplementsLease, Lease!LeaseSpec

=============================================================================
