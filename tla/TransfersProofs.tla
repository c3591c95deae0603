--------------------------- MODULE TransfersProofs --------------------------
(***************************************************************************)
(* Proofs about Transfers, for every set of operations, managers,          *)
(* destinations and cancel calls and every limit.  The invariant ties the  *)
(* public state of ONE operation to its task, its process and its          *)
(* reservation (OpInv); on top of it come the reservations of all          *)
(* managers, the limit, what close() gathers and what cancel answers.      *)
(***************************************************************************)
EXTENDS Transfers, TLAPS, FiniteSetTheorems

\* One operation: a final state means a finished task; a reservation, a place
\* in the list and an active state go together; rsync matches the stage.
OpInv(o) ==
    /\ state[o] = "none" <=> task[o] = "none"
    /\ state[o] # "none" => manager[o] \in Managers /\ key[o] \in Keys
    /\ state[o] \in Final => task[o] = "done"
    /\ o \in reserved <=> state[o] \in Active
    /\ state[o] \in Active => o \in listed
    /\ o \in expired => state[o] \in Final
    /\ o \in listed => state[o] # "none"
    /\ o \in cancelReq => task[o] \notin {"none", "done"}
    /\ task[o] \in {"none", "new", "prepare"} => proc[o] = "none"
    /\ task[o] = "terminating" => proc[o] \in {"termed", "gone"}
    /\ task[o] = "killing" => proc[o] \in {"killed", "gone"}
    /\ proc[o] = "alive" => task[o] = "rsync"

\* The claimed keys are those of the reserved operations, one each.
ClaimInv ==
    /\ claimed = {key[o] : o \in reserved}
    /\ \A a, b \in reserved : key[a] = key[b] => a = b

\* close() gathers every active operation there will ever be.
CloseInv(m) ==
    /\ mclose[m] # "open" => \A o \in Ops : manager[o] = m /\ state[o] \in Active => o \in snap[m]
    /\ mclose[m] = "closed" => \A o \in Ops : manager[o] = m => state[o] \notin Active
    /\ \A o \in snap[m] : manager[o] = m /\ state[o] # "none"

\* A cancel call waits for a registered operation and answers its last state.
CancelInv(k) ==
    /\ kpc[k] \in {"gathering", "abandoned"} => ktgt[k] \in Ops /\ state[ktgt[k]] # "none"
    /\ kpc[k] = "done" /\ kret[k] \notin {"transfer_not_found", "call_cancelled"} =>
          ktgt[k] \in Ops /\ state[ktgt[k]] = kret[k] /\ kret[k] \in Final

IInv ==
    /\ TypeOK
    /\ \A o \in Ops : OpInv(o)
    /\ ClaimInv
    /\ TransferLimit
    /\ \A m \in Managers : CloseInv(m)
    /\ \A k \in CancelCalls : CancelInv(k)

-----------------------------------------------------------------------------
USE DEF opVars, taskVars, resVars, listVars, mgrVars, callVars, Active, Final, Stages, Keys

\* The active operations of a manager.
ActiveIn(m) == {o \in Ops : manager[o] = m /\ state[o] \in Active}

\* A step after which a manager has no new active operation keeps the limit.
LEMMA LimitKept ==
    ASSUME TransferLimit,
           \A m \in Managers : ActiveIn(m)' \subseteq ActiveIn(m)
    PROVE  TransferLimit'
  <1>. SUFFICES ASSUME NEW m \in Managers
                PROVE  Cardinality(ActiveIn(m)') <= MaxTransfers
    BY DEF TransferLimit, ActiveIn
  <1>1. IsFiniteSet(ActiveIn(m))
    BY TransfersAssumption, FS_Subset DEF ActiveIn
  <1>2. Cardinality(ActiveIn(m)') <= Cardinality(ActiveIn(m))
    BY <1>1, FS_Subset
  <1>3. /\ Cardinality(ActiveIn(m)) <= MaxTransfers
        /\ Cardinality(ActiveIn(m)) \in Nat
        /\ Cardinality(ActiveIn(m)') \in Nat
    BY <1>1, FS_Subset, FS_CardinalityType DEF TransferLimit, ActiveIn
  <1>. QED
    BY <1>2, <1>3, TransfersAssumption

\* The initial state satisfies the invariant.
LEMMA InitIInv == Init => IInv
  <1>. SUFFICES ASSUME Init PROVE IInv
    OBVIOUS
  <1>1. TypeOK
    BY DEF Init, TypeOK
  <1>2. TransferLimit
    <2>. SUFFICES ASSUME NEW m \in Managers PROVE Cardinality(ActiveIn(m)) <= MaxTransfers
      BY DEF TransferLimit, ActiveIn
    <2>1. ActiveIn(m) = {}
      BY DEF Init, ActiveIn
    <2>. QED
      BY <2>1, FS_EmptySet, TransfersAssumption
  <1>3. /\ \A o \in Ops : OpInv(o)
        /\ ClaimInv
        /\ \A m \in Managers : CloseInv(m)
        /\ \A k \in CancelCalls : CancelInv(k)
    BY TransfersAssumption DEF Init, OpInv, ClaimInv, CloseInv, CancelInv
  <1>. QED
    BY <1>1, <1>2, <1>3 DEF IInv

\* Registration: the claim is exclusive, the limit leaves room for one more and
\* the manager is not closed.
LEMMA RegisterIInv ==
    ASSUME IInv, NEW o \in Ops, NEW m \in Managers, NEW k \in Keys, StartRegistered(o, m, k)
    PROVE  IInv'
  <1>. USE DEF StartRegistered
  <1>0. state[o] = "none" /\ task[o] = "none" /\ o \notin reserved /\ o \notin listed
    BY TransfersAssumption DEF IInv, OpInv, TypeOK
  <1>1. TypeOK'
    BY DEF IInv, TypeOK, Pruned
  <1>2. ASSUME NEW x \in Ops PROVE OpInv(x)'
    BY <1>0 DEF IInv, TypeOK, OpInv, Pruned
  <1>3. ClaimInv'
    BY <1>0 DEF IInv, TypeOK, ClaimInv, MayRegister
  <1>4. TransferLimit'
    <2>. SUFFICES ASSUME NEW n \in Managers PROVE Cardinality(ActiveIn(n)') <= MaxTransfers
      BY DEF TransferLimit, ActiveIn
    <2>1. IsFiniteSet(ActiveIn(n)) /\ Cardinality(ActiveIn(n)) \in Nat
      BY TransfersAssumption, FS_Subset, FS_CardinalityType DEF ActiveIn
    <2>2. CASE n = m
      <3>1. ActiveIn(n)' = ActiveIn(n) \cup {o}
        BY <1>0, <2>2, TransfersAssumption DEF IInv, TypeOK, ActiveIn
      <3>2. ActiveOf(m) = ActiveIn(n)
        BY <2>2 DEF IInv, TypeOK, OpInv, ActiveOf, ActiveIn
      <3>3. Cardinality(ActiveIn(n)) < MaxTransfers
        BY <3>2 DEF MayRegister
      <3>4. Cardinality(ActiveIn(n) \cup {o}) = Cardinality(ActiveIn(n)) + 1
        <4>1. o \notin ActiveIn(n)
          BY <1>0 DEF ActiveIn
        <4>. QED
          BY <2>1, <4>1, FS_AddElement
      <3>5. Cardinality(ActiveIn(n) \cup {o}) \in Nat
        BY <2>1, FS_AddElement, FS_CardinalityType
      <3>. QED
        BY <2>1, <3>1, <3>3, <3>4, <3>5, TransfersAssumption
    <2>3. CASE n # m
      <3>1. ActiveIn(n)' = ActiveIn(n)
        BY <1>0, <2>3, TransfersAssumption DEF IInv, TypeOK, ActiveIn
      <3>. QED
        BY <3>1 DEF IInv, TransferLimit, ActiveIn
    <2>. QED
      BY <2>2, <2>3
  <1>5. ASSUME NEW n \in Managers PROVE CloseInv(n)'
    BY <1>0 DEF IInv, TypeOK, CloseInv
  <1>6. ASSUME NEW c \in CancelCalls PROVE CancelInv(c)'
    BY <1>0 DEF IInv, TypeOK, CancelInv
  <1>. QED
    BY <1>1, <1>2, <1>3, <1>4, <1>5, <1>6 DEF IInv

\* Every way to end an operation: its reservation goes with its active state.
LEMMA FinalIInv ==
    ASSUME IInv, NEW S \in SUBSET Ops, NEW st \in Final, SetFinal(S, st),
           \A o \in S : state[o] \in Active /\ task'[o] = "done" /\ proc[o] # "alive",
           \A o \in Ops \ S : task'[o] = task[o],
           task' \in [Ops -> Stages],
           cancelReq' \subseteq cancelReq,
           \A o \in Ops : o \in cancelReq' => task'[o] # "done",
           UNCHANGED <<opVars, proc, listVars>>
    PROVE  /\ \A o \in Ops : OpInv(o)'
           /\ state' \in [Ops -> {"none"} \cup Active \cup Final]
           /\ reserved' \subseteq Ops /\ claimed' \subseteq Keys
           /\ ClaimInv'
           /\ TransferLimit'
           /\ \A o \in Ops : state[o] \in Final \cup {"none"} => state'[o] = state[o]
           /\ \A o \in Ops : state'[o] \in Active => state[o] \in Active /\ o \notin S
           /\ \A o \in Ops : state[o] # "none" => state'[o] # "none"
  <1>1. /\ \A o \in S : state'[o] = st
        /\ \A o \in Ops \ S : state'[o] = state[o]
        /\ reserved' = reserved \ S
        /\ claimed' = claimed \ {key[o] : o \in S \cap reserved}
    BY DEF SetFinal
  <1>2. state' \in [Ops -> {"none"} \cup Active \cup Final]
    BY DEF SetFinal, IInv, TypeOK
  <1>3. reserved' \subseteq Ops /\ claimed' \subseteq Keys
    BY <1>1 DEF IInv, TypeOK
  <1>4. \A o \in Ops : state[o] \in Final \cup {"none"} => state'[o] = state[o]
    BY <1>1 DEF IInv, TypeOK
  <1>5. \A o \in Ops : state'[o] \in Active => state[o] \in Active /\ o \notin S
    BY <1>1
  <1>6. \A o \in Ops : state[o] # "none" => state'[o] # "none"
    BY <1>1
  <1>7. ASSUME NEW o \in Ops PROVE OpInv(o)'
    <2>1. CASE o \in S
      BY <1>1, <1>7, <2>1 DEF IInv, TypeOK, OpInv
    <2>2. CASE o \notin S
      BY <1>1, <1>7, <2>2 DEF IInv, TypeOK, OpInv
    <2>. QED
      BY <2>1, <2>2
  <1>8. ClaimInv'
    BY <1>1 DEF IInv, TypeOK, ClaimInv
  <1>9. TransferLimit'
    <2>1. \A m \in Managers : ActiveIn(m)' \subseteq ActiveIn(m)
      BY <1>5 DEF ActiveIn
    <2>. QED
      BY <2>1, LimitKept DEF IInv
  <1>. QED
    BY <1>2, <1>3, <1>4, <1>5, <1>6, <1>7, <1>8, <1>9

\* The steps of a task that do not end the operation, and the process itself.
LEMMA StageIInv ==
    ASSUME IInv, NEW o \in Ops,
           \/ TaskBegins(o) \/ SpawnRsync(o) \/ RsyncWaited(o) \/ RsyncSucceeded(o)
           \/ PublishUpload(o) \/ HandlerRaises(o) \/ CancelNew(o) \/ CancelRsync(o)
           \/ TermWaited(o) \/ TermTimeout(o) \/ RsyncExits(o)
    PROVE  IInv'
  <1>. USE DEF TaskBegins, SpawnRsync, RsyncWaited, RsyncSucceeded, PublishUpload, HandlerRaises,
           CancelNew, CancelRsync, TermWaited, TermTimeout, RsyncExits, TaskMoves
  <1>1. TypeOK'
    BY DEF IInv, TypeOK
  <1>2. ASSUME NEW x \in Ops PROVE OpInv(x)'
    BY DEF IInv, TypeOK, OpInv
  <1>3. /\ \A x \in Ops : state'[x] \in Active <=> state[x] \in Active
        /\ \A x \in Ops : state'[x] \in Final => state'[x] = state[x]
        /\ \A x \in Ops : state[x] \in Final \cup {"none"} => state'[x] = state[x]
        /\ \A x \in Ops : state[x] # "none" => state'[x] # "none"
    BY DEF IInv, TypeOK, OpInv
  <1>4. UNCHANGED <<opVars, listVars, mgrVars, callVars, reserved, claimed>>
    OBVIOUS
  <1>. HIDE DEF TaskBegins, SpawnRsync, RsyncWaited, RsyncSucceeded, PublishUpload, HandlerRaises,
           CancelNew, CancelRsync, TermWaited, TermTimeout, RsyncExits, TaskMoves
  <1>5. ClaimInv'
    BY <1>4 DEF IInv, ClaimInv
  <1>6. TransferLimit'
    <2>1. \A m \in Managers : ActiveIn(m)' \subseteq ActiveIn(m)
      BY <1>3, <1>4 DEF ActiveIn
    <2>. QED
      BY <2>1, LimitKept DEF IInv
  <1>7. ASSUME NEW m \in Managers PROVE CloseInv(m)'
    BY <1>3, <1>4 DEF IInv, TypeOK, CloseInv
  <1>8. ASSUME NEW k \in CancelCalls PROVE CancelInv(k)'
    BY <1>3, <1>4 DEF IInv, TypeOK, CancelInv
  <1>. QED
    BY <1>1, <1>2, <1>5, <1>6, <1>7, <1>8 DEF IInv

\* The steps that end one operation from its own task.
LEMMA EndIInv ==
    ASSUME IInv, NEW o \in Ops, Completes(o) \/ Fails(o) \/ CancelElsewhere(o) \/ Unwound(o)
    PROVE  IInv'
  <1>0. PICK st \in Final : SetFinal({o}, st)
    BY DEF Completes, Fails, CancelElsewhere, Unwound
  <1>1. /\ task[o] \in {"prepare", "drain", "verify", "publish", "terminating", "killing", "unwind"}
        /\ task' = [task EXCEPT ![o] = "done"]
        /\ cancelReq' = cancelReq \ {o}
        /\ UNCHANGED <<opVars, proc, listVars, mgrVars, callVars>>
    BY DEF Completes, Fails, CancelElsewhere, Unwound, TaskMoves, IInv, TypeOK
  <1>2. state[o] \in Active /\ proc[o] # "alive"
    BY <1>1 DEF IInv, TypeOK, OpInv
  <1>3. /\ {o} \in SUBSET Ops
        /\ \A x \in {o} : state[x] \in Active /\ task'[x] = "done" /\ proc[x] # "alive"
        /\ \A x \in Ops \ {o} : task'[x] = task[x]
        /\ task' \in [Ops -> Stages]
        /\ cancelReq' \subseteq cancelReq
        /\ \A x \in Ops : x \in cancelReq' => task'[x] # "done"
    BY <1>1, <1>2 DEF IInv, TypeOK, OpInv
  <1>4. /\ \A x \in Ops : OpInv(x)'
        /\ state' \in [Ops -> {"none"} \cup Active \cup Final]
        /\ reserved' \subseteq Ops /\ claimed' \subseteq Keys
        /\ ClaimInv'
        /\ TransferLimit'
        /\ \A x \in Ops : state[x] \in Final \cup {"none"} => state'[x] = state[x]
        /\ \A x \in Ops : state'[x] \in Active => state[x] \in Active
        /\ \A x \in Ops : state[x] # "none" => state'[x] # "none"
    BY <1>0, <1>1, <1>3, FinalIInv
  <1>5. TypeOK'
    BY <1>1, <1>3, <1>4 DEF IInv, TypeOK
  <1>6. ASSUME NEW m \in Managers PROVE CloseInv(m)'
    BY <1>1, <1>4 DEF IInv, TypeOK, CloseInv
  <1>7. ASSUME NEW k \in CancelCalls PROVE CancelInv(k)'
    BY <1>1, <1>4 DEF IInv, TypeOK, CancelInv
  <1>. QED
    BY <1>4, <1>5, <1>6, <1>7 DEF IInv

\* What transfer_cancel and close() finish for a task that could not: nothing
\* that is final, and never with a process nobody signalled.
LEMMA FixupIInv ==
    ASSUME IInv, NEW S \in SUBSET Ops, SetFinal(Unfinished(S), "cancelled"),
           \A o \in S : task[o] = "done",
           UNCHANGED <<opVars, taskVars, listVars>>
    PROVE  /\ \A o \in Ops : OpInv(o)'
           /\ state' \in [Ops -> {"none"} \cup Active \cup Final]
           /\ reserved' \subseteq Ops /\ claimed' \subseteq Keys
           /\ ClaimInv'
           /\ TransferLimit'
           /\ \A o \in Ops : state[o] \in Final \cup {"none"} => state'[o] = state[o]
           /\ \A o \in Ops : state'[o] \in Active => state[o] \in Active /\ o \notin S
           /\ \A o \in Ops : state[o] # "none" => state'[o] # "none"
           /\ \A o \in S : state'[o] \in Final
  <1>1. /\ Unfinished(S) \in SUBSET Ops
        /\ \A o \in Unfinished(S) : state[o] \in Active /\ task'[o] = "done" /\ proc[o] # "alive"
        /\ \A o \in Ops \ Unfinished(S) : task'[o] = task[o]
        /\ task' \in [Ops -> Stages]
        /\ cancelReq' \subseteq cancelReq
        /\ \A o \in Ops : o \in cancelReq' => task'[o] # "done"
    BY DEF IInv, TypeOK, OpInv, Unfinished
  <1>2. /\ \A o \in Ops : OpInv(o)'
        /\ state' \in [Ops -> {"none"} \cup Active \cup Final]
        /\ reserved' \subseteq Ops /\ claimed' \subseteq Keys
        /\ ClaimInv'
        /\ TransferLimit'
        /\ \A o \in Ops : state[o] \in Final \cup {"none"} => state'[o] = state[o]
        /\ \A o \in Ops : state'[o] \in Active => state[o] \in Active /\ o \notin Unfinished(S)
        /\ \A o \in Ops : state[o] # "none" => state'[o] # "none"
    BY <1>1, FinalIInv
  <1>3. \A o \in S : state'[o] \in Final
    BY DEF SetFinal, Unfinished
  <1>. QED
    BY <1>2, <1>3 DEF Unfinished

\* The steps of transfer_cancel calls.
LEMMA CancelIInv ==
    ASSUME IInv, NEW k \in CancelCalls,
           (\E o \in Ops : Cancel(k, o)) \/ CancelReturns(k) \/ CallerCancelled(k) \/ CallerRaises(k)
    PROVE  IInv'
  <1>1. CASE (\E o \in Ops : Cancel(k, o)) \/ CallerCancelled(k) \/ CallerRaises(k)
    <2>1. UNCHANGED <<opVars, task, proc, resVars, listVars, mgrVars>>
      BY <1>1 DEF Cancel, CallerCancelled, CallerRaises
    <2>2. TypeOK'
      <3>1. CASE \E o \in Ops : Cancel(k, o)
        BY <2>1, <3>1 DEF IInv, TypeOK, Cancel, CancelTasks, opVars, resVars, listVars, mgrVars
      <3>2. CASE CallerCancelled(k)
        BY <2>1, <3>2 DEF IInv, TypeOK, CallerCancelled, CancelTasks, opVars, resVars, listVars, mgrVars, CancelInv
      <3>3. CASE CallerRaises(k)
        BY <2>1, <3>3 DEF IInv, TypeOK, CallerRaises, opVars, resVars, listVars, mgrVars
      <3>. QED
        BY <1>1, <3>1, <3>2, <3>3
    <2>3. ASSUME NEW x \in Ops PROVE OpInv(x)'
      BY <1>1 DEF IInv, TypeOK, OpInv, CancelInv, Cancel, CallerCancelled, CallerRaises, CancelTasks
    <2>4. ClaimInv' /\ \A m \in Managers : CloseInv(m)'
      BY <2>1 DEF IInv, ClaimInv, CloseInv
    <2>5. TransferLimit'
      BY <2>1 DEF IInv, TransferLimit
    <2>6. ASSUME NEW c \in CancelCalls PROVE CancelInv(c)'
      <3>0. state' = state /\ CancelInv(c) /\ CancelInv(k) /\ TypeOK /\ \A o \in Ops : OpInv(o)
        BY <2>1 DEF IInv, resVars
      <3>1. ASSUME NEW o \in Ops, Cancel(k, o) PROVE CancelInv(c)'
        BY <3>0, <3>1 DEF TypeOK, OpInv, CancelInv, Cancel, Final
      <3>2. CASE CallerCancelled(k)
        BY <3>0, <3>2 DEF TypeOK, CancelInv, CallerCancelled
      <3>3. CASE CallerRaises(k)
        BY <3>0, <3>3 DEF TypeOK, CancelInv, CallerRaises
      <3>. QED
        BY <1>1, <3>1, <3>2, <3>3
    <2>. QED
      BY <2>2, <2>3, <2>4, <2>5, <2>6 DEF IInv
  <1>2. CASE CancelReturns(k)
    <2>. DEFINE o == ktgt[k]
    <2>1. /\ o \in Ops /\ {o} \in SUBSET Ops
          /\ SetFinal(Unfinished({o}), "cancelled")
          /\ \A x \in {o} : task[x] = "done"
          /\ UNCHANGED <<opVars, taskVars, listVars, mgrVars, ktgt>>
          /\ kpc' = [kpc EXCEPT ![k] = "done"]
          /\ kret' = [kret EXCEPT ![k] = state'[o]]
      BY <1>2 DEF IInv, TypeOK, CancelInv, CancelReturns
    <2>. HIDE DEF o
    <2>2. /\ \A x \in Ops : OpInv(x)'
          /\ state' \in [Ops -> {"none"} \cup Active \cup Final]
          /\ reserved' \subseteq Ops /\ claimed' \subseteq Keys
          /\ ClaimInv'
          /\ TransferLimit'
          /\ \A x \in Ops : state[x] \in Final \cup {"none"} => state'[x] = state[x]
          /\ \A x \in Ops : state'[x] \in Active => state[x] \in Active
          /\ \A x \in Ops : state[x] # "none" => state'[x] # "none"
          /\ state'[o] \in Final
      BY <2>1, FixupIInv
    <2>3. TypeOK'
      BY <2>1, <2>2 DEF IInv, TypeOK
    <2>4. ASSUME NEW m \in Managers PROVE CloseInv(m)'
      BY <2>1, <2>2 DEF IInv, TypeOK, CloseInv
    <2>5. ASSUME NEW c \in CancelCalls PROVE CancelInv(c)'
      <3>1. CASE c = k
        BY <2>1, <2>2, <3>1 DEF IInv, TypeOK, CancelInv, o
      <3>2. CASE c # k
        BY <2>1, <2>2, <3>2 DEF IInv, TypeOK, CancelInv
      <3>. QED
        BY <3>1, <3>2
    <2>. QED
      BY <2>2, <2>3, <2>4, <2>5 DEF IInv
  <1>. QED
    BY <1>1, <1>2

\* The steps of TransferManager.close.
LEMMA CloseIInv ==
    ASSUME IInv, NEW m \in Managers, Close(m) \/ CloseReturns(m)
    PROVE  IInv'
  <1>1. CASE Close(m)
    <2>1. TypeOK'
      BY <1>1 DEF IInv, TypeOK, Close, CancelTasks, ActiveOf
    <2>2. ASSUME NEW x \in Ops PROVE OpInv(x)'
      BY <1>1 DEF IInv, TypeOK, OpInv, Close, CancelTasks, ActiveOf
    <2>3. ClaimInv' /\ TransferLimit' /\ \A k \in CancelCalls : CancelInv(k)'
      BY <1>1 DEF IInv, ClaimInv, TransferLimit, CancelInv, Close
    <2>4. ASSUME NEW n \in Managers PROVE CloseInv(n)'
      BY <1>1 DEF IInv, TypeOK, OpInv, CloseInv, Close, ActiveOf
    <2>. QED
      BY <2>1, <2>2, <2>3, <2>4 DEF IInv
  <1>2. CASE CloseReturns(m)
    <2>1. /\ snap[m] \in SUBSET Ops
          /\ SetFinal(Unfinished(snap[m]), "cancelled")
          /\ \A o \in snap[m] : task[o] = "done"
          /\ UNCHANGED <<opVars, taskVars, listVars, snap, callVars>>
          /\ mclose' = [mclose EXCEPT ![m] = "closed"]
          /\ mclose[m] # "open"
      BY <1>2 DEF IInv, TypeOK, CloseReturns, CloseFixup
    <2>2. /\ \A x \in Ops : OpInv(x)'
          /\ state' \in [Ops -> {"none"} \cup Active \cup Final]
          /\ reserved' \subseteq Ops /\ claimed' \subseteq Keys
          /\ ClaimInv'
          /\ TransferLimit'
          /\ \A x \in Ops : state[x] \in Final \cup {"none"} => state'[x] = state[x]
          /\ \A x \in Ops : state'[x] \in Active => state[x] \in Active /\ x \notin snap[m]
          /\ \A x \in Ops : state[x] # "none" => state'[x] # "none"
      BY <2>1, FixupIInv
    <2>3. TypeOK'
      BY <2>1, <2>2 DEF IInv, TypeOK
    <2>4. ASSUME NEW n \in Managers PROVE CloseInv(n)'
      BY <2>1, <2>2 DEF IInv, TypeOK, CloseInv
    <2>5. ASSUME NEW k \in CancelCalls PROVE CancelInv(k)'
      BY <2>1, <2>2 DEF IInv, TypeOK, CancelInv
    <2>. QED
      BY <2>2, <2>3, <2>4, <2>5 DEF IInv
  <1>. QED
    BY <1>1, <1>2

\* Refused start calls, pruning and the passage of time.
LEMMA ListIInv ==
    ASSUME IInv,
           \/ \E o \in Ops, m \in Managers, k \in Keys : StartRefused(o, m, k)
           \/ \E m \in Managers : StatusOrList(m)
           \/ \E o \in Ops : Expires(o)
           \/ UNCHANGED vars
    PROVE  IInv'
  <1>1. UNCHANGED <<taskVars, resVars, mgrVars, callVars>>
    BY DEF StartRefused, StatusOrList, Expires, vars
  <1>2. TypeOK' /\ \A x \in Ops : state[x] # "none" => manager'[x] = manager[x] /\ key'[x] = key[x]
    BY TransfersAssumption
    DEF IInv, TypeOK, OpInv, StartRefused, StatusOrList, Expires, Pruned, vars
  <1>3. ASSUME NEW x \in Ops PROVE OpInv(x)'
    BY TransfersAssumption
    DEF IInv, TypeOK, OpInv, StartRefused, StatusOrList, Expires, Pruned, vars
  <1>4. ClaimInv'
    BY <1>1, <1>2 DEF IInv, TypeOK, OpInv, ClaimInv
  <1>5. TransferLimit'
    <2>1. \A m \in Managers : ActiveIn(m)' \subseteq ActiveIn(m)
      BY <1>1, <1>2 DEF IInv, TypeOK, ActiveIn
    <2>. QED
      BY <2>1, LimitKept DEF IInv
  <1>6. \A m \in Managers : CloseInv(m)'
    BY <1>1, <1>2 DEF IInv, TypeOK, OpInv, CloseInv
  <1>7. \A k \in CancelCalls : CancelInv(k)'
    BY <1>1 DEF IInv, CancelInv
  <1>. QED
    BY <1>2, <1>3, <1>4, <1>5, <1>6, <1>7 DEF IInv

\* IInv is inductive.
LEMMA NextIInv == IInv /\ [Next]_vars => IInv'
  <1>. SUFFICES ASSUME IInv, [Next]_vars PROVE IInv'
    OBVIOUS
  <1>. QED
    BY RegisterIInv, StageIInv, EndIInv, CancelIInv, CloseIInv, ListIInv
    DEF Next, TaskStep, Quiescent

\* IInv holds in every reachable state.
THEOREM InvariantHolds == Spec => []IInv
  BY InitIInv, NextIInv, PTL DEF Spec

-----------------------------------------------------------------------------
(* The theorems.                                                           *)

\* Every variable keeps its shape.
THEOREM TypeCorrect == Spec => []TypeOK
  <1>1. IInv => TypeOK
    BY DEF IInv
  <1>. QED
    BY InvariantHolds, <1>1, PTL

\* TransferReservations: destinations are held exactly by active operations,
\* one each, across all sessions.
THEOREM Reservations == Spec => []ReservationsExact
  <1>1. IInv => ReservationsExact
    <2>. SUFFICES ASSUME IInv PROVE ReservationsExact
      OBVIOUS
    <2>1. reserved = {p \in Ops : state[p] \in Active}
      BY DEF IInv, TypeOK, OpInv
    <2>. QED
      BY <2>1 DEF IInv, ClaimInv, ReservationsExact
  <1>. QED
    BY InvariantHolds, <1>1, PTL

\* _register: the limit per session holds.
THEOREM Limit == Spec => []TransferLimit
  <1>1. IInv => TransferLimit
    BY DEF IInv
  <1>. QED
    BY InvariantHolds, <1>1, PTL

\* close: a closed manager has nothing active.
THEOREM ClosedIdle == Spec => []ClosedManagerIdle
  <1>1. IInv => ClosedManagerIdle
    BY DEF IInv, TypeOK, OpInv, CloseInv, ClosedManagerIdle
  <1>. QED
    BY InvariantHolds, <1>1, PTL

\* cancel: its answer is final.
THEOREM CancelSound == Spec => []CancelAnswersFinal
  <1>1. IInv => CancelAnswersFinal
    BY DEF IInv, CancelInv, CancelAnswersFinal
  <1>. QED
    BY InvariantHolds, <1>1, PTL

\* _terminate: every rsync left behind was signalled.
THEOREM Signalled == Spec => []NoUnsignalledRsync
  <1>1. IInv => NoUnsignalledRsync
    BY DEF IInv, OpInv, NoUnsignalledRsync
  <1>. QED
    BY InvariantHolds, <1>1, PTL

\* What one step may do to a final state: nothing.
LEMMA FinalStep ==
    ASSUME IInv, [Next]_vars, NEW x \in Ops, state[x] \in Final
    PROVE  state'[x] = state[x]
  <1>1. /\ TypeOK /\ OpInv(x) /\ task[x] = "done" /\ manager[x] \in Managers
        /\ \A k \in CancelCalls : CancelInv(k)
    BY DEF IInv, OpInv
  <1>2. ASSUME NEW o \in Ops, NEW m \in Managers, NEW k \in Keys,
               StartRefused(o, m, k) \/ StartRegistered(o, m, k)
        PROVE  state'[x] = state[x]
    BY <1>1, <1>2, TransfersAssumption DEF TypeOK, StartRefused, StartRegistered
  <1>3. ASSUME NEW o \in Ops, TaskStep(o) \/ RsyncExits(o) \/ Expires(o)
        PROVE  state'[x] = state[x]
    <2>1. CASE RsyncExits(o) \/ Expires(o) \/ SpawnRsync(o) \/ RsyncWaited(o) \/ PublishUpload(o)
               \/ HandlerRaises(o) \/ CancelNew(o) \/ CancelRsync(o) \/ TermWaited(o) \/ TermTimeout(o)
      BY <2>1 DEF RsyncExits, Expires, SpawnRsync, RsyncWaited, PublishUpload, HandlerRaises,
                  CancelNew, CancelRsync, TermWaited, TermTimeout
    <2>2. CASE TaskBegins(o) \/ RsyncSucceeded(o)
      BY <1>1, <2>2 DEF TypeOK, TaskBegins, RsyncSucceeded, TaskMoves
    <2>3. CASE Completes(o) \/ Fails(o) \/ CancelElsewhere(o) \/ Unwound(o)
      <3>1. task[o] # "done" /\ \E st \in Final : SetFinal({o}, st)
        BY <2>3 DEF Completes, Fails, CancelElsewhere, Unwound, TaskMoves
      <3>. QED
        BY <1>1, <3>1 DEF SetFinal
    <2>. QED
      BY <1>3, <2>1, <2>2, <2>3 DEF TaskStep
  <1>4. ASSUME NEW k \in CancelCalls,
               (\E o \in Ops : Cancel(k, o)) \/ CancelReturns(k) \/ CallerCancelled(k) \/ CallerRaises(k)
        PROVE  state'[x] = state[x]
    BY <1>4 DEF Cancel, CancelReturns, CallerCancelled, CallerRaises, SetFinal, Unfinished
  <1>5. ASSUME NEW m \in Managers, StatusOrList(m) \/ Close(m) \/ CloseReturns(m)
        PROVE  state'[x] = state[x]
    BY <1>5 DEF StatusOrList, Close, CloseReturns, CloseFixup, SetFinal, Unfinished
  <1>6. CASE Quiescent \/ UNCHANGED vars
    BY <1>6 DEF Quiescent, vars
  <1>. QED
    BY <1>2, <1>3, <1>4, <1>5, <1>6 DEF Next

\* _set_state: the task, transfer_cancel and close() write the state in any
\* order, yet no step changes a final one.
THEOREM FinalStays == Spec => FinalStateStays
  <1>1. IInv /\ [Next]_vars =>
          [\A o \in Ops : state[o] \in Final => state'[o] = state[o]]_vars
    BY FinalStep
  <1>. QED
    BY InvariantHolds, <1>1, PTL DEF Spec, FinalStateStays

-----------------------------------------------------------------------------
(* Who writes to a destination.  A run shows that two rsync processes may;   *)
(* the theorem, that nothing but a second cancellation lets them.           *)

\* Nobody cancels a task while it waits for the rsync it has signalled.
Uninterrupted == \A o \in Ops : task[o] \in {"terminating", "killing"} => o \notin cancelReq

\* A task never leaves a running rsync behind.
Running(o) == proc[o] \in {"alive", "termed", "killed"}
Attended == \A o \in Ops : Running(o) => task[o] \in {"rsync", "terminating", "killing"}

LEMMA AttendedStep ==
    ASSUME IInv, Uninterrupted, Attended, [Next]_vars
    PROVE  Attended'
  <1>. USE DEF Attended, Running
  <1>0. TypeOK /\ \A x \in Ops : OpInv(x)
    BY DEF IInv
  <1>1. ASSUME NEW o \in Ops, NEW m \in Managers, NEW k \in Keys,
               StartRefused(o, m, k) \/ StartRegistered(o, m, k)
        PROVE  Attended'
    <2>1. CASE StartRefused(o, m, k)
      BY <2>1 DEF StartRefused
    <2>2. CASE StartRegistered(o, m, k)
      <3>1. proc' = proc /\ task' = [task EXCEPT ![o] = "new"] /\ manager[o] = None
        BY <2>2 DEF StartRegistered
      <3>2. proc[o] = "none"
        BY <1>0, <3>1, TransfersAssumption DEF OpInv
      <3>. QED
        BY <1>0, <3>1, <3>2 DEF TypeOK
    <2>. QED
      BY <1>1, <2>1, <2>2
  <1>2. ASSUME NEW o \in Ops, TaskStep(o) PROVE Attended'
    <2>1. CASE SpawnRsync(o)
      BY <1>0, <2>1 DEF SpawnRsync, TaskMoves, TypeOK
    <2>2. CASE CancelRsync(o)
      BY <1>0, <2>2 DEF CancelRsync, TypeOK
    <2>3. CASE TermTimeout(o)
      BY <1>0, <2>3 DEF TermTimeout, TaskMoves, TypeOK
    <2>4. CASE RsyncWaited(o) \/ TermWaited(o)
      BY <1>0, <2>4 DEF RsyncWaited, TermWaited, TaskMoves, TypeOK
    <2>5. CASE \/ TaskBegins(o) \/ RsyncSucceeded(o) \/ PublishUpload(o) \/ Completes(o) \/ Fails(o)
               \/ HandlerRaises(o) \/ CancelNew(o) \/ CancelElsewhere(o) \/ Unwound(o)
      <3>1. proc' = proc /\ task[o] \notin {"rsync", "terminating", "killing"}
        BY <2>5 DEF Uninterrupted, TaskBegins, RsyncSucceeded, PublishUpload, Completes, Fails,
                    HandlerRaises, CancelNew, CancelElsewhere, Unwound, TaskMoves
      <3>2. \E st \in Stages : task' = [task EXCEPT ![o] = st]
        BY <2>5 DEF TaskBegins, RsyncSucceeded, PublishUpload, Completes, Fails,
                    HandlerRaises, CancelNew, CancelElsewhere, Unwound, TaskMoves
      <3>3. ~Running(o)
        BY <3>1
      <3>. QED
        BY <1>0, <3>1, <3>2, <3>3 DEF TypeOK
    <2>. QED
      BY <1>2, <2>1, <2>2, <2>3, <2>4, <2>5 DEF TaskStep
  <1>3. ASSUME NEW o \in Ops, RsyncExits(o) PROVE Attended'
    BY <1>0, <1>3 DEF RsyncExits, TypeOK
  <1>4. CASE UNCHANGED <<task, proc>>
    BY <1>4
  <1>5. ASSUME NEW o \in Ops, Expires(o) PROVE UNCHANGED <<task, proc>>
    BY <1>5 DEF Expires
  <1>6. ASSUME NEW k \in CancelCalls,
               (\E o \in Ops : Cancel(k, o)) \/ CancelReturns(k) \/ CallerCancelled(k) \/ CallerRaises(k)
        PROVE  UNCHANGED <<task, proc>>
    BY <1>6 DEF Cancel, CancelReturns, CallerCancelled, CallerRaises
  <1>7. ASSUME NEW m \in Managers, StatusOrList(m) \/ Close(m) \/ CloseReturns(m)
        PROVE  UNCHANGED <<task, proc>>
    BY <1>7 DEF StatusOrList, Close, CloseReturns
  <1>8. CASE Quiescent \/ UNCHANGED vars
    BY <1>4, <1>8 DEF Quiescent, vars
  <1>. QED
    BY <1>1, <1>2, <1>3, <1>4, <1>5, <1>6, <1>7, <1>8 DEF Next

\* _terminate, doc/tools.md: as long as no task is cancelled again while it
\* waits for the rsync it has signalled, no two rsync processes write to one
\* destination, whatever else is cancelled, closed, retried or fails.
THEOREM OneWriter == Spec /\ []Uninterrupted => []OneWriterPerDestination
  <1>1. Init => Attended
    BY DEF Init, Attended, Running
  <1>2. IInv /\ Attended => OneWriterPerDestination
    <2>. SUFFICES ASSUME IInv, Attended, NEW a \in Ops, NEW b \in Ops, Running(a), Running(b), key[a] = key[b]
                  PROVE  a = b
      BY DEF OneWriterPerDestination, Running
    <2>1. ASSUME NEW o \in Ops, Running(o) PROVE o \in reserved
      <3>1. OpInv(o) /\ task[o] \in {"rsync", "terminating", "killing"} /\ TypeOK
        BY <2>1 DEF IInv, Attended
      <3>. QED
        BY <3>1 DEF OpInv, TypeOK
    <2>2. a \in reserved /\ b \in reserved
      BY <2>1
    <2>. QED
      BY <2>2 DEF IInv, ClaimInv
  <1>3. IInv /\ Uninterrupted /\ Attended /\ [Next]_vars => Attended'
    BY AttendedStep
  <1>. QED
    BY InvariantHolds, <1>1, <1>2, <1>3, PTL DEF Spec

=============================================================================
