---------------------------- MODULE ServerProofs ----------------------------
(***************************************************************************)
(* What the teardown of the server leaves, and what its schema promises,   *)
(* for any number of requests and sessions.                                *)
(*                                                                         *)
(* IInv follows the teardown.  SchemaInv, inductive relative to its type   *)
(* part, says of every request that it was refused as invalid exactly when *)
(* the published schema refuses the names of its arguments; SchemaIsModel  *)
(* is the fact about the two texts behind it: oneOf and required accept    *)
(* the sets of names the validators accept.  Values are not modelled.      *)
(***************************************************************************)
EXTENDS Server, FiniteSetTheorems, TLAPS

\* The master of a session that has gone was closed, unless a signal cut its
\* close or the close failed; one that was never opened has none.
MasterInv ==
    \A s \in Sess :
        /\ sess[s] = "none" => master[s] = "none"
        /\ sess[s] = "gone" /\ master[s] = "alive" => cut[s] = "master" \/ s \in closeError

\* Handlers run only while the server serves or drains.
IdleInv == proc \notin {"serving", "draining"} => \A r \in Requests : req[r].at # "running"

\* Close tasks are cut only when the process cancels its tasks, and what is
\* known once it does or has ended.
EndInv ==
    /\ proc \in {"boot", "serving", "draining", "closing"} => \A s \in Sess : cut[s] = "none"
    /\ proc = "cancelling" => \A s \in Sess : cut[s] # "none"
    /\ proc = "exited" => \A s \in Sess : ~Registered(s)
    /\ proc = "exited" /\ exit = 0 => closeError \cap torn = {} \/ \A s \in Sess : cut[s] # "none"

\* The inductive invariant.  In "boot" no session has been opened.
IInv ==
    /\ TypeOK /\ MasterInv /\ IdleInv /\ EndInv
    /\ proc = "boot" => \A s \in Sess : sess[s] = "none"

-----------------------------------------------------------------------------
USE ServerAssumption

LEMMA NoRequestType == NoRequest \in Request /\ NoRequest.at = "none"
  BY Zenon DEF NoRequest, Asked, Request, Codes

LEMMA InitInv == Init => IInv
  <1> SUFFICES ASSUME Init PROVE IInv
    OBVIOUS
  <1>1. req \in [Requests -> Request]
    BY NoRequestType, Zenon DEF Init
  <1>2. requested \in BOOLEAN
    BY Zenon DEF Init
  <1>3. \A r \in Requests : req[r].at = "none"
    BY NoRequestType, Zenon DEF Init
  <1>4. TypeOK
    BY <1>1, <1>2, <1>3 DEF Init, TypeOK, Positions, Stages
  <1> QED
    BY <1>3, <1>4, SMT DEF Init, IInv, MasterInv, IdleInv, EndInv, Registered

-----------------------------------------------------------------------------
(* Steps of a request.                                                     *)

\* A step of one request, which may move the session it is about.
LEMMA RequestStep ==
  ASSUME NEW r \in Requests, NEW q \in Request, IInv,
         req' = [req EXCEPT ![r] = q],
         q.at = "running" /\ q.tool \in {"connect", "disconnect"} => q.sess \in Sess,
         proc \in {"serving", "draining"}, UNCHANGED <<procVars, cut, closeError>>,
         sess' \in [Sess -> Positions], master' \in [Sess -> {"none", "alive", "closed"}], MasterInv'
  PROVE  IInv'
  <1>1. TypeOK
    BY DEF IInv
  <1>0. req \in [Requests -> Request]
    BY <1>1 DEF TypeOK
  <1>2. req' \in [Requests -> Request]
    BY <1>1, Zenon DEF TypeOK
  <1>3. ASSUME NEW r2 \in Requests, req'[r2].at = "running", req'[r2].tool \in {"connect", "disconnect"}
        PROVE  req'[r2].sess \in Sess
    <2>1. CASE r2 = r
      <3>1. req'[r2] = q
        BY <2>1, <1>0, SMT
      <3> QED
        BY <3>1, <1>3
    <2>2. CASE r2 # r
      <3>1. req'[r2] = req[r2]
        BY <2>2, <1>0, SMT
      <3> QED
        BY <3>1, <1>1, <1>3, Zenon DEF TypeOK
    <2> QED
      BY <2>1, <2>2
  <1>4. proc' = proc /\ exit' = exit /\ requested' = requested /\ torn' = torn /\ cut' = cut /\ closeError' = closeError
    BY DEF procVars
  <1>5. TypeOK'
    <2>1. /\ proc' \in {"boot", "serving", "draining", "closing", "cancelling", "exited", "killed"}
          /\ exit' \in {None, 0, 1, 2, 130, 143}
          /\ cut' \in [Sess -> Stages \cup {"none", "ended"}] /\ torn' \subseteq Sess /\ closeError' \subseteq Sess
      BY <1>1, <1>4 DEF TypeOK
    <2>2. requested' \in BOOLEAN
      BY <1>1, <1>4, Zenon DEF TypeOK
    <2> QED
      BY <1>2, <1>3, <2>1, <2>2 DEF TypeOK
  <1>6. IdleInv' /\ EndInv' /\ proc' # "boot"
    BY <1>4 DEF IInv, IdleInv, EndInv
  <1> QED
    BY <1>5, <1>6 DEF IInv

\* The same for a request that moves no session.
LEMMA OwnStep ==
  ASSUME NEW r \in Requests, NEW q \in Request, IInv,
         req' = [req EXCEPT ![r] = q],
         q.at = "running" /\ q.tool \in {"connect", "disconnect"} => q.sess \in Sess,
         proc \in {"serving", "draining"}, UNCHANGED <<procVars, sessVars>>
  PROVE  IInv'
  <1>1. sess' = sess /\ master' = master /\ cut' = cut /\ closeError' = closeError
    BY DEF sessVars
  <1>2. MasterInv'
    BY <1>1 DEF MasterInv, IInv
  <1>3. sess' \in [Sess -> Positions] /\ master' \in [Sess -> {"none", "alive", "closed"}]
    BY <1>1 DEF IInv, TypeOK
  <1> QED
    BY <1>1, <1>2, <1>3, RequestStep

LEMMA AdvertisedBoolean ==
  ASSUME NEW tool, NEW given PROVE Advertised(tool, given) \in BOOLEAN
  BY Zenon DEF Advertised

LEMMA AnsweredStep ==
  ASSUME NEW r \in Requests, NEW tool \in Tools \cup {"unknown"}, NEW code \in Codes, NEW adv \in BOOLEAN, IInv,
         Answered(r, tool, code, adv), proc \in {"serving", "draining"}, UNCHANGED <<procVars, sessVars>>
  PROVE  IInv'
  <1> DEFINE q == Asked("answered", tool, None, code, adv)
  <1>1. q \in Request /\ q.at = "answered"
    <2>1. None \in Sess \cup {None} /\ tool \in Tools \cup {"none", "unknown"}
      OBVIOUS
    <2> QED
      BY <2>1, Zenon DEF Request, Asked
  <1>2. req' = [req EXCEPT ![r] = q]
    BY DEF Answered
  <1> HIDE DEF q
  <1> QED
    BY <1>1, <1>2, OwnStep

-----------------------------------------------------------------------------
(* The actions of a request.                                               *)

LEMMA CallStep == ASSUME NEW r \in Requests, IInv, Call(r) PROVE IInv'
  <1>0. proc \in {"serving", "draining"} /\ proc = "serving" /\ TypeOK /\ MasterInv
    BY DEF Call, IInv
  <1>1. CASE UnknownTool(r)
    <2>1. Answered(r, "unknown", "unknown_tool", TRUE) /\ UNCHANGED <<procVars, sessVars>>
      BY <1>1 DEF UnknownTool
    <2>2. "unknown_tool" \in Codes /\ "unknown" \in Tools \cup {"unknown"}
      BY DEF Codes
    <2>3. TRUE \in BOOLEAN
      OBVIOUS
    <2> QED
      BY <1>0, <2>1, <2>2, <2>3, AnsweredStep, Zenon
  <1>2. ASSUME NEW tool \in Tools, NEW given, InvalidArguments(r, tool, given) PROVE IInv'
    <2>1. Answered(r, tool, "invalid_arguments", Advertised(tool, given)) /\ UNCHANGED <<procVars, sessVars>>
      BY <1>2 DEF InvalidArguments
    <2>2. "invalid_arguments" \in Codes /\ tool \in Tools \cup {"unknown"}
      BY DEF Codes
    <2> QED
      BY <1>0, <2>1, <2>2, AdvertisedBoolean, AnsweredStep, Zenon
  <1>3. ASSUME NEW tool \in Tools, NEW given, NEW s \in Sess, NEW right, Refused(r, tool, given, s, right) PROVE IInv'
    <2>1. PICK code \in KeyErrors(tool, s, right) : Answered(r, tool, code, Advertised(tool, given))
      BY <1>3 DEF Refused
    <2>2. code \in Codes /\ tool \in Tools \cup {"unknown"}
      BY DEF Codes, KeyErrors
    <2>3. UNCHANGED <<procVars, sessVars>>
      BY <1>3 DEF Refused
    <2> QED
      BY <1>0, <2>1, <2>2, <2>3, AdvertisedBoolean, AnsweredStep, Zenon
  <1>4. ASSUME NEW tool \in Tools, NEW given, NEW s \in Sess, Handle(r, tool, given, s) PROVE IInv'
    <2> DEFINE owner == IF Keyed(tool) THEN s ELSE None
               q == Asked("running", tool, owner, "none", Advertised(tool, given))
    <2>1. owner \in Sess \cup {None} /\ "none" \in Codes /\ tool \in Tools \cup {"none", "unknown"}
      BY DEF Codes
    <2>2. q \in Request /\ q.tool = tool
      <3> HIDE DEF owner
      <3> QED
        BY <2>1, AdvertisedBoolean, Zenon DEF Request, Asked
    <2>3. req' = [req EXCEPT ![r] = q] /\ UNCHANGED <<procVars, sessVars>> /\ tool \notin {"connect", "disconnect"}
      BY <1>4 DEF Handle
    <2> HIDE DEF q
    <2> QED
      BY <1>0, <2>2, <2>3, OwnStep
  <1>5. ASSUME NEW given, ConnectRefused(r, given) PROVE IInv'
    <2>1. Answered(r, "connect", "error", Advertised("connect", given)) /\ UNCHANGED <<procVars, sessVars>>
      BY <1>5 DEF ConnectRefused
    <2>2. "error" \in Codes /\ "connect" \in Tools \cup {"unknown"}
      BY DEF Codes, Tools, Required
    <2> QED
      BY <1>0, <2>1, <2>2, AdvertisedBoolean, AnsweredStep, Zenon
  <1>6. ASSUME NEW given, NEW s \in Sess, OpenSession(r, s, given) PROVE IInv'
    <2> DEFINE q == Asked("running", "connect", s, "none", Advertised("connect", given))
    <2>1. "none" \in Codes /\ "connect" \in Tools \cup {"none", "unknown"}
      BY DEF Codes, Tools, Required
    <2>2. q \in Request /\ q.sess = s
      BY <2>1, AdvertisedBoolean, Zenon DEF Request, Asked
    <2>3. req' = [req EXCEPT ![r] = q] /\ UNCHANGED <<procVars, cut, closeError>>
      BY <1>6 DEF OpenSession
    <2>4. /\ sess' = [sess EXCEPT ![s] = "starting"] /\ master' = [master EXCEPT ![s] = "alive"]
          /\ cut' = cut /\ closeError' = closeError
      BY <1>6 DEF OpenSession
    <2>5. sess' \in [Sess -> Positions] /\ master' \in [Sess -> {"none", "alive", "closed"}]
      BY <1>0, <2>4 DEF TypeOK, Positions
    <2>6. MasterInv'
      BY <1>0, <2>4 DEF TypeOK, MasterInv
    <2> HIDE DEF q
    <2> QED
      BY <1>0, <2>2, <2>3, <2>5, <2>6, RequestStep
  <1>7. ASSUME NEW given, NEW s \in Sess, Disconnect(r, s, given) PROVE IInv'
    <2> DEFINE q == Asked("running", "disconnect", s, "none", Advertised("disconnect", given))
    <2>1. "none" \in Codes /\ "disconnect" \in Tools \cup {"none", "unknown"}
      BY DEF Codes, Tools, Required
    <2>2. q \in Request /\ q.sess = s
      BY <2>1, AdvertisedBoolean, Zenon DEF Request, Asked
    <2>3. req' = [req EXCEPT ![r] = q] /\ UNCHANGED <<procVars, cut, closeError>>
      BY <1>7 DEF Disconnect
    <2>4. sess' = CloseTask(s) /\ master' = master /\ cut' = cut /\ closeError' = closeError
      BY <1>7 DEF Disconnect
    <2>5. sess' \in [Sess -> Positions] /\ master' \in [Sess -> {"none", "alive", "closed"}]
      BY <1>0, <2>4 DEF TypeOK, Positions, Stages, CloseTask
    <2>6. MasterInv'
      BY <1>0, <2>4 DEF TypeOK, MasterInv, CloseTask
    <2> HIDE DEF q
    <2> QED
      BY <1>0, <2>2, <2>3, <2>5, <2>6, RequestStep
  <1> QED
    BY <1>1, <1>2, <1>3, <1>4, <1>5, <1>6, <1>7, Zenon DEF Call

\* Only a server that serves or drains has a running handler.
LEMMA RunningServes ==
  ASSUME NEW r \in Requests, IInv, req[r].at = "running"
  PROVE  proc \in {"serving", "draining"} /\ req[r] \in Request /\ TypeOK /\ MasterInv
  BY DEF IInv, IdleInv, TypeOK

\* A request that ends keeps its shape and its session.
LEMMA EndsRequest ==
  ASSUME NEW r \in Requests, IInv, req[r].at = "running", NEW at \in {"answered", "dropped"}, NEW code \in Codes,
         Ends(r, at, code)
  PROVE  \E q \in Request : q.at = at /\ req' = [req EXCEPT ![r] = q]
  <1> DEFINE q == [req[r] EXCEPT !.at = at, !.answer = code]
  <1>1. req[r] \in Request
    BY RunningServes
  <1>2. q \in Request /\ q.at = at
    BY <1>1, Zenon DEF Request
  <1> QED
    BY <1>2, Zenon DEF Ends

LEMMA HandlerEndsStep == ASSUME NEW r \in Requests, IInv, HandlerEnds(r) PROVE IInv'
  <1>1. PICK code \in Outcomes : Ends(r, "answered", code)
    BY DEF HandlerEnds
  <1>2. req[r].at = "running" /\ UNCHANGED <<procVars, sessVars>>
    BY DEF HandlerEnds
  <1>3. code \in Codes
    BY DEF Outcomes, Codes
  <1>4. PICK q \in Request : q.at = "answered" /\ req' = [req EXCEPT ![r] = q]
    BY <1>1, <1>2, <1>3, EndsRequest, Zenon
  <1> QED
    BY <1>2, <1>4, RunningServes, OwnStep

LEMMA StartEndsStep == ASSUME NEW r \in Requests, IInv, StartEnds(r) PROVE IInv'
  <1> DEFINE s == req[r].sess
  <1>1. req[r].at = "running" /\ req[r].tool = "connect" /\ sess[s] = "starting"
    BY DEF StartEnds
  <1>2. s \in Sess /\ proc \in {"serving", "draining"} /\ req[r] \in Request /\ TypeOK /\ MasterInv
    BY <1>1, RunningServes DEF TypeOK
  <1>3. UNCHANGED <<procVars, cut, closeError>> /\ cut' = cut /\ closeError' = closeError
    BY DEF StartEnds
  <1>4. CASE sess' = [sess EXCEPT ![s] = "ready"] /\ Ends(r, "answered", "ok") /\ UNCHANGED master
    <2>1. "ok" \in Codes
      BY DEF Codes
    <2>2. PICK q \in Request : q.at = "answered" /\ req' = [req EXCEPT ![r] = q]
      BY <1>1, <1>4, <2>1, EndsRequest, Zenon
    <2>3. sess' \in [Sess -> Positions] /\ master' \in [Sess -> {"none", "alive", "closed"}]
      BY <1>2, <1>4 DEF TypeOK, Positions
    <2>4. MasterInv'
      BY <1>2, <1>3, <1>4 DEF TypeOK, MasterInv
    <2> QED
      BY <1>2, <1>3, <2>2, <2>3, <2>4, RequestStep
  <1>5. CASE sess' = [sess EXCEPT ![s] = "master"] /\ master' = [master EXCEPT ![s] = "closed"] /\ UNCHANGED req
    <2>1. req' = [req EXCEPT ![r] = req[r]]
      BY <1>2, <1>5 DEF TypeOK
    <2>2. sess' \in [Sess -> Positions] /\ master' \in [Sess -> {"none", "alive", "closed"}]
      BY <1>2, <1>5 DEF TypeOK, Positions, Stages
    <2>3. MasterInv'
      BY <1>2, <1>3, <1>5 DEF TypeOK, MasterInv
    <2> QED
      BY <1>2, <1>3, <2>1, <2>2, <2>3, RequestStep
  <1> QED
    BY <1>4, <1>5 DEF StartEnds

LEMMA CloseAwaitedStep == ASSUME NEW r \in Requests, IInv, CloseAwaited(r) PROVE IInv'
  <1>1. req[r].at = "running" /\ UNCHANGED <<procVars, sessVars>>
    BY DEF CloseAwaited
  <1>2. PICK code \in {"ok", "error"} : Ends(r, "answered", code)
    BY Zenon DEF CloseAwaited
  <1>3. code \in Codes
    BY DEF Codes
  <1>4. PICK q \in Request : q.at = "answered" /\ req' = [req EXCEPT ![r] = q]
    BY <1>1, <1>2, <1>3, EndsRequest, Zenon
  <1> QED
    BY <1>1, <1>4, RunningServes, OwnStep

LEMMA CancelHandlerStep == ASSUME NEW r \in Requests, IInv, CancelHandler(r) PROVE IInv'
  <1>1. req[r].at = "running" /\ Ends(r, "dropped", "none") /\ "none" \in Codes
    BY DEF CancelHandler, Codes
  <1>2. proc \in {"serving", "draining"} /\ req[r] \in Request /\ TypeOK /\ MasterInv
    BY <1>1, RunningServes
  <1>3. PICK q \in Request : q.at = "dropped" /\ req' = [req EXCEPT ![r] = q]
    BY <1>1, EndsRequest, Zenon
  <1>4. /\ sess' = IF req[r].tool = "connect" THEN CloseTask(req[r].sess) ELSE sess
        /\ UNCHANGED <<procVars, cut, closeError>> /\ master' = master /\ cut' = cut /\ closeError' = closeError
    BY DEF CancelHandler
  <1>5. req[r].tool = "connect" => req[r].sess \in Sess
    BY <1>1, <1>2 DEF TypeOK
  <1>6. sess' \in [Sess -> Positions] /\ master' \in [Sess -> {"none", "alive", "closed"}]
    BY <1>2, <1>4, <1>5 DEF TypeOK, Positions, Stages, CloseTask
  <1>7. MasterInv'
    BY <1>2, <1>4, <1>5 DEF TypeOK, MasterInv, CloseTask
  <1> QED
    BY <1>2, <1>3, <1>4, <1>6, <1>7, RequestStep

-----------------------------------------------------------------------------
(* Close tasks and the process.                                            *)

\* What such a step has to show: requests stay as they are.
LEMMA ProcessStep ==
  ASSUME IInv, UNCHANGED req,
         proc' \in {"boot", "serving", "draining", "closing", "cancelling", "exited", "killed"},
         exit' \in {None, 0, 1, 2, 130, 143}, requested' \in BOOLEAN,
         sess' \in [Sess -> Positions], master' \in [Sess -> {"none", "alive", "closed"}],
         cut' \in [Sess -> Stages \cup {"none", "ended"}], torn' \subseteq Sess, closeError' \subseteq Sess,
         MasterInv', EndInv', proc' = "boot" => \A s \in Sess : sess'[s] = "none",
         proc' \in {"serving", "draining"} \/ proc \notin {"serving", "draining"} \/ Drained
  PROVE  IInv'
  <1>1. TypeOK' /\ IdleInv'
    <2>1. \A r \in Requests : req'[r].at = "running" /\ req'[r].tool \in {"connect", "disconnect"} => req'[r].sess \in Sess
      BY Zenon DEF IInv, TypeOK
    <2>2. req' \in [Requests -> Request]
      BY DEF IInv, TypeOK
    <2>3. TypeOK'
      BY <2>1, <2>2 DEF TypeOK
    <2>4. IdleInv'
      BY DEF IInv, IdleInv, Drained
    <2> QED
      BY <2>3, <2>4
  <1> QED
    BY <1>1 DEF IInv

\* The facts about the process that a step of a close task starts from.
LEMMA Known ==
  ASSUME IInv
  PROVE  /\ proc \in {"boot", "serving", "draining", "closing", "cancelling", "exited", "killed"}
         /\ exit \in {None, 0, 1, 2, 130, 143} /\ requested \in BOOLEAN
         /\ sess \in [Sess -> Positions] /\ master \in [Sess -> {"none", "alive", "closed"}]
         /\ cut \in [Sess -> Stages \cup {"none", "ended"}] /\ torn \subseteq Sess /\ closeError \subseteq Sess
         /\ MasterInv /\ EndInv /\ (proc = "boot" => \A s \in Sess : sess[s] = "none")
  BY Zenon DEF IInv, TypeOK

LEMMA StageEndsStep == ASSUME NEW s \in Sess, IInv, StageEnds(s) PROVE IInv'
  <1>1. /\ proc' = proc /\ exit' = exit /\ requested' = requested /\ torn' = torn /\ cut' = cut /\ UNCHANGED req
        /\ proc \notin {"exited", "killed"} /\ Closing(s)
    BY DEF StageEnds, procVars
  <1>2. /\ sess' \in [Sess -> Positions] /\ master' \in [Sess -> {"none", "alive", "closed"}]
        /\ closeError' \subseteq Sess
    BY Known DEF StageEnds, Positions, Stages, Then
  <1>3. MasterInv'
    BY <1>1, Known DEF StageEnds, MasterInv, Then
  <1>4. EndInv' /\ proc' # "boot"
    BY <1>1, Known DEF EndInv, Closing, Stages
  <1>5. requested' \in BOOLEAN
    BY <1>1, Known, Zenon
  <1> QED
    BY <1>1, <1>2, <1>3, <1>4, <1>5, Known, ProcessStep

LEMMA BootStep == ASSUME IInv, Boot PROVE IInv'
  <1>1. /\ proc = "boot" /\ UNCHANGED <<requested, torn, req, sessVars>>
        /\ \/ proc' = "exited" /\ exit' \in {1, 2}
           \/ proc' = "serving" /\ exit' = exit
    BY Zenon DEF Boot, ConfigRejected, StartFails, Serve
  <1>2. sess' = sess /\ master' = master /\ cut' = cut /\ closeError' = closeError /\ torn' = torn
    BY <1>1 DEF sessVars
  <1>3. MasterInv'
    BY <1>2, Known DEF MasterInv
  <1>4. EndInv' /\ proc' # "boot"
    BY <1>1, <1>2, Known DEF EndInv, Registered
  <1>5. requested' \in BOOLEAN
    BY <1>1, Known, Zenon
  <1> QED
    BY <1>1, <1>2, <1>3, <1>4, <1>5, Known, ProcessStep

LEMMA EndOfInputStep == ASSUME IInv, EndOfInput PROVE IInv'
  <1>1. /\ proc' = "draining" /\ exit' = exit /\ UNCHANGED req
        /\ sess' = sess /\ master' = master /\ cut' = cut /\ closeError' = closeError /\ torn' = torn
    BY DEF EndOfInput, sessVars
  <1>2. MasterInv' /\ EndInv'
    BY <1>1, Known DEF MasterInv, EndInv, EndOfInput
  <1>3. requested' \in BOOLEAN
    BY Known, Zenon DEF EndOfInput
  <1> QED
    BY <1>1, <1>2, <1>3, Known, ProcessStep

LEMMA LifespanEndsStep == ASSUME IInv, LifespanEnds PROVE IInv'
  <1>1. /\ proc' = "closing" /\ exit' = exit /\ UNCHANGED req /\ Drained
        /\ sess' = [s \in Sess |-> CloseTask(s)[s]]
        /\ master' = master /\ cut' = cut /\ closeError' = closeError /\ torn' \subseteq Sess
    BY DEF LifespanEnds
  <1>2. sess' \in [Sess -> Positions] /\ MasterInv'
    BY <1>1, Known DEF MasterInv, CloseTask, Positions, Stages
  <1>3. EndInv'
    BY <1>1, Known DEF EndInv, LifespanEnds
  <1>4. requested' \in BOOLEAN
    BY Known, Zenon DEF LifespanEnds
  <1> QED
    BY <1>1, <1>2, <1>3, <1>4, Known, ProcessStep

\* Exit and AllTasksEnded: the two ways to leave with nothing registered.
LEMMA LeaveStep == ASSUME IInv, Exit \/ AllTasksEnded PROVE IInv'
  <1>1. /\ proc \in {"closing", "cancelling"} /\ proc' = "exited" /\ exit' \in {0, 1} /\ NothingRegistered
        /\ exit' = 0 => closeError \cap torn = {} \/ proc = "cancelling"
    BY DEF Exit, AllTasksEnded, TornDown
  <1>2. /\ sess' = sess /\ master' = master /\ cut' = cut /\ closeError' = closeError /\ torn' = torn /\ UNCHANGED req
    BY DEF Exit, AllTasksEnded, sessVars
  <1>3. MasterInv'
    BY <1>2, Known DEF MasterInv
  <1>4. EndInv'
    BY <1>1, <1>2, Known DEF EndInv, NothingRegistered, Registered
  <1>5. requested' \in BOOLEAN
    BY Known, Zenon DEF Exit, AllTasksEnded
  <1> QED
    BY <1>1, <1>2, <1>3, <1>4, <1>5, Known, ProcessStep

LEMMA SignalStep == ASSUME IInv, Signal PROVE IInv'
  <1>1. CASE /\ proc \in {"serving", "draining"} /\ proc' = "draining" /\ requested' = TRUE
             /\ UNCHANGED <<exit, torn, req, sessVars>>
    <2>1. sess' = sess /\ master' = master /\ cut' = cut /\ closeError' = closeError /\ torn' = torn /\ exit' = exit
      BY <1>1 DEF sessVars
    <2>2. MasterInv' /\ EndInv'
      BY <1>1, <2>1, Known DEF MasterInv, EndInv
    <2>3. requested' \in BOOLEAN
      BY <1>1, Zenon
    <2> QED
      BY <1>1, <2>1, <2>2, <2>3, Known, ProcessStep
  <1>2. CASE /\ proc = "closing" /\ proc' = "cancelling" /\ requested' = TRUE
             /\ cut' = [s \in Sess |-> IF Closing(s) THEN sess[s] ELSE "ended"]
             /\ sess' = [s \in Sess |-> IF Closing(s) THEN AfterCut(sess[s]) ELSE sess[s]]
             /\ master' = [s \in Sess |-> IF sess[s] = "wait" THEN "closed" ELSE master[s]]
             /\ UNCHANGED <<exit, torn, req, closeError>>
    <2>1. cut' \in [Sess -> Stages \cup {"none", "ended"}] /\ sess' \in [Sess -> Positions]
          /\ master' \in [Sess -> {"none", "alive", "closed"}]
      BY <1>2, Known DEF Closing, Stages, Positions, AfterCut, Then
    <2>2. MasterInv'
      <3>1. ASSUME NEW s \in Sess
            PROVE  /\ sess'[s] = "none" => master'[s] = "none"
                   /\ sess'[s] = "gone" /\ master'[s] = "alive" => cut'[s] = "master" \/ s \in closeError'
        <4>1. /\ sess'[s] = (IF sess[s] \in Stages THEN AfterCut(sess[s]) ELSE sess[s])
              /\ cut'[s] = (IF sess[s] \in Stages THEN sess[s] ELSE "ended")
              /\ master'[s] = (IF sess[s] = "wait" THEN "closed" ELSE master[s])
              /\ closeError' = closeError
          BY <1>2 DEF Closing
        <4>2. /\ sess[s] = "none" => master[s] = "none"
              /\ sess[s] = "gone" /\ master[s] = "alive" => s \in closeError \/ cut[s] = "master"
          BY Known DEF MasterInv
        <4>3. cut[s] = "none"
          BY <1>2, Known DEF EndInv
        <4> QED
          BY <4>1, <4>2, <4>3 DEF Stages, AfterCut, Then
      <3> QED
        BY <3>1 DEF MasterInv
    <2>3. EndInv'
      BY <1>2, Known DEF EndInv, Closing, Stages
    <2>4. requested' \in BOOLEAN
      BY <1>2, Zenon
    <2> QED
      BY <1>2, <2>1, <2>2, <2>3, <2>4, Known, ProcessStep
  <1>3. CASE /\ proc \in {"boot", "cancelling"} /\ proc' = "killed" /\ exit' \in {130, 143}
             /\ UNCHANGED <<requested, torn, req, sessVars>>
    <2>1. sess' = sess /\ master' = master /\ cut' = cut /\ closeError' = closeError /\ torn' = torn
      BY <1>3 DEF sessVars
    <2>2. MasterInv' /\ EndInv'
      BY <1>3, <2>1, Known DEF MasterInv, EndInv
    <2>3. requested' \in BOOLEAN
      BY <1>3, Known, Zenon
    <2> QED
      BY <1>3, <2>1, <2>2, <2>3, Known, ProcessStep
  <1> QED
    BY <1>1, <1>2, <1>3, Zenon DEF Signal

-----------------------------------------------------------------------------
LEMMA NextInv == IInv /\ [Next]_vars => IInv'
  <1> SUFFICES ASSUME IInv, [Next]_vars PROVE IInv'
    OBVIOUS
  <1>1. CASE UNCHANGED vars
    <2>1. /\ proc' = proc /\ exit' = exit /\ UNCHANGED req /\ torn' = torn
          /\ sess' = sess /\ master' = master /\ cut' = cut /\ closeError' = closeError
      BY <1>1 DEF vars
    <2>2. MasterInv' /\ EndInv'
      BY <2>1, Known DEF MasterInv, EndInv, Registered
    <2>3. requested' \in BOOLEAN
      BY <1>1, Known, Zenon DEF vars
    <2> QED
      BY <2>1, <2>2, <2>3, Known, ProcessStep
  <1>2. CASE Boot
    BY <1>2, BootStep
  <1>3. ASSUME NEW r \in Requests, Call(r) \/ HandlerStep(r) \/ CancelHandler(r) PROVE IInv'
    BY <1>3, CallStep, HandlerEndsStep, StartEndsStep, CloseAwaitedStep, CancelHandlerStep DEF HandlerStep
  <1>4. ASSUME NEW s \in Sess, StageEnds(s) PROVE IInv'
    BY <1>4, StageEndsStep
  <1>5. CASE EndOfInput \/ Signal \/ ProcStep
    BY <1>5, EndOfInputStep, SignalStep, LifespanEndsStep, LeaveStep DEF ProcStep
  <1> QED
    BY <1>1, <1>2, <1>3, <1>4, <1>5, Zenon DEF Next, Done

LEMMA Invariance == Spec => []IInv
  BY InitInv, NextInv, PTL DEF Spec

\* Every variable of the server process keeps its shape, for every set of
\* requests and sessions.
THEOREM TypeCorrect == Spec => []TypeOK
  <1>1. IInv => TypeOK
    BY DEF IInv
  <1> QED
    BY <1>1, Invariance, PTL

\* _shutdown, asyncio.run: whatever position of the teardown a signal
\* interrupts, a server that exits has closed every master, except one whose
\* close was the interrupted stage or failed.
THEOREM TeardownCloses == Spec => []InterruptedTeardownCloses
  <1>1. IInv => InterruptedTeardownCloses
    BY DEF IInv, TypeOK, MasterInv, EndInv, Registered, InterruptedTeardownCloses
  <1> QED
    BY <1>1, Invariance, PTL

\* lifespan, main: exit code 0 after a teardown that no signal interrupted means
\* that no session is registered and every master it had to close is closed.
THEOREM CleanExit == Spec => []ExitZeroIsClean
  <1>1. IInv => ExitZeroIsClean
    BY DEF IInv, TypeOK, MasterInv, EndInv, Registered, ExitZeroIsClean
  <1> QED
    BY <1>1, Invariance, PTL

-----------------------------------------------------------------------------
(* The published schema and the validators.                                *)

\* connect: exactly one of the two branches of oneOf accepts what
\* connection_spec accepts, and no arguments are accepted by both.
LEMMA SchemaIsModel == ASSUME NEW tool, NEW given PROVE Advertised(tool, given) <=> Validates(tool, given)
  <1> DEFINE alias  == given \cap Connect = {"ssh_alias"}
             direct == {"host", "user"} \subseteq given /\ "ssh_alias" \notin given
             branches == { branch \in {1, 2} : IF branch = 1 THEN alias ELSE direct }
  <1>1. ConnectionSpec(given) <=> alias \/ direct
    BY DEF ConnectionSpec, Connect
  <1>2. ~(alias /\ direct)
    BY DEF Connect
  <1> HIDE DEF alias, direct
  <1>3. Cardinality(branches) = 1 <=> alias \/ direct
    <2>1. CASE ~alias /\ ~direct
      <3>1. branches = {}
        BY <2>1
      <3>2. Cardinality(branches) = 0
        BY <3>1, FS_EmptySet
      <3> QED
        BY <2>1, <3>2
    <2>2. CASE alias \/ direct
      <3>1. branches = {1} \/ branches = {2}
        BY <1>2, <2>2
      <3>2. Cardinality(branches) = 1
        BY <3>1, FS_Singleton
      <3> QED
        BY <2>2, <3>2
    <2> QED
      BY <2>1, <2>2
  <1>4. Advertised(tool, given) <=> Strict(tool, given) /\ (tool = "connect" => Cardinality(branches) = 1)
    BY Zenon DEF Advertised, alias, direct
  <1> HIDE DEF branches
  <1> QED
    BY <1>1, <1>3, <1>4, Zenon DEF Validates

\* A request that was refused as invalid is one the schema refuses, and one
\* whose handler runs is one it accepts.
Agreed(q) ==
    /\ q.at # "none" => (q.answer = "invalid_arguments" <=> ~q.advertised)
    /\ q.at = "running" => q.advertised
SchemaInv == \A r \in Requests : Agreed(req[r])

LEMMA AskedAgreed ==
  ASSUME NEW at, NEW tool, NEW s, NEW code, NEW adv,
         code = "invalid_arguments" <=> ~adv, at = "running" => adv
  PROVE  Agreed(Asked(at, tool, s, code, adv))
  BY Zenon DEF Agreed, Asked

LEMMA SchemaStep ==
  ASSUME SchemaInv, NEW r \in Requests, NEW q, Agreed(q), req \in [Requests -> Request], req' = [req EXCEPT ![r] = q]
  PROVE  SchemaInv'
  <1>1. ASSUME NEW o \in Requests PROVE Agreed(req'[o])
    <2>1. req'[o] = IF o = r THEN q ELSE req[o]
      BY Zenon
    <2> QED
      BY <2>1, Zenon DEF SchemaInv
  <1> QED
    BY <1>1, Zenon DEF SchemaInv

\* A handler that ends was accepted, and never answers invalid_arguments.
LEMMA EndsAgreed ==
  ASSUME SchemaInv, NEW r \in Requests, NEW at \in {"answered", "dropped"}, NEW code, code # "invalid_arguments",
         req[r].at = "running", req \in [Requests -> Request], Ends(r, at, code)
  PROVE  SchemaInv'
  <1> DEFINE q == [req[r] EXCEPT !.at = at, !.answer = code]
  <1>1. req[r] \in Request /\ req[r].advertised
    BY Zenon DEF SchemaInv, Agreed
  <1>2. q.at = at /\ q.answer = code /\ q.advertised = req[r].advertised
    BY <1>1, Zenon DEF Request
  <1>3. Agreed(q)
    <2> HIDE DEF q
    <2>1. at # "running"
      OBVIOUS
    <2> QED
      BY <1>1, <1>2, <2>1, Zenon DEF Agreed
  <1>4. req' = [req EXCEPT ![r] = q]
    BY DEF Ends
  <1> HIDE DEF q
  <1> QED
    BY <1>3, <1>4, SchemaStep

LEMMA CallSchema == ASSUME NEW r \in Requests, SchemaInv, req \in [Requests -> Request], Call(r) PROVE SchemaInv'
  <1>1. ASSUME NEW at, NEW tool, NEW s, NEW code, NEW adv, code = "invalid_arguments" <=> ~adv, at = "running" => adv,
               req' = [req EXCEPT ![r] = Asked(at, tool, s, code, adv)]
        PROVE  SchemaInv'
    BY <1>1, AskedAgreed, SchemaStep, Zenon
  <1>2. ASSUME NEW tool, NEW given, NEW at, NEW s, NEW code, Validates(tool, given), code # "invalid_arguments",
               req' = [req EXCEPT ![r] = Asked(at, tool, s, code, Advertised(tool, given))]
        PROVE  SchemaInv'
    <2>1. Advertised(tool, given)
      BY <1>2, SchemaIsModel, Zenon
    <2> QED
      BY <1>1, <1>2, <2>1, Zenon
  <1>3. CASE UnknownTool(r)
    <2>1. req' = [req EXCEPT ![r] = Asked("answered", "unknown", None, "unknown_tool", TRUE)]
      BY <1>3 DEF UnknownTool, Answered
    <2>2. ("unknown_tool" = "invalid_arguments" <=> ~TRUE) /\ ("answered" = "running" => TRUE)
      OBVIOUS
    <2>3. Agreed(Asked("answered", "unknown", None, "unknown_tool", TRUE))
      BY <2>2, AskedAgreed, Zenon
    <2> QED
      BY <2>1, <2>3, SchemaStep, Zenon
  <1>4. ASSUME NEW tool, NEW given, InvalidArguments(r, tool, given) PROVE SchemaInv'
    <2>1. /\ req' = [req EXCEPT ![r] = Asked("answered", tool, None, "invalid_arguments", Advertised(tool, given))]
          /\ ~Validates(tool, given)
      BY <1>4, Zenon DEF InvalidArguments, Answered
    <2>2. ~Advertised(tool, given)
      BY <2>1, SchemaIsModel, Zenon
    <2>3. Agreed(Asked("answered", tool, None, "invalid_arguments", Advertised(tool, given)))
      <3>1. "answered" # "running"
        OBVIOUS
      <3>2. /\ "invalid_arguments" = "invalid_arguments" <=> ~Advertised(tool, given)
            /\ "answered" = "running" => Advertised(tool, given)
        BY <2>2, <3>1, Zenon
      <3> QED
        BY <3>2, AskedAgreed, Zenon
    <2> QED
      BY <2>1, <2>3, SchemaStep, Zenon
  <1>5. ASSUME NEW tool, NEW given, NEW s, NEW right, Refused(r, tool, given, s, right) PROVE SchemaInv'
    <2>1. PICK code \in KeyErrors(tool, s, right) :
              req' = [req EXCEPT ![r] = Asked("answered", tool, None, code, Advertised(tool, given))]
      BY <1>5, Zenon DEF Refused, Answered
    <2>2. code # "invalid_arguments"
      BY DEF KeyErrors
    <2>3. Validates(tool, given)
      BY <1>5, Zenon DEF Refused
    <2> QED
      BY <1>2, <2>1, <2>2, <2>3, Zenon
  <1>6. "none" # "invalid_arguments" /\ "error" # "invalid_arguments"
    OBVIOUS
  <1>7. ASSUME NEW tool, NEW given, NEW s, Handle(r, tool, given, s) PROVE SchemaInv'
    <2> DEFINE owner == IF Keyed(tool) THEN s ELSE None
    <2>1. req' = [req EXCEPT ![r] = Asked("running", tool, owner, "none", Advertised(tool, given))] /\ Validates(tool, given)
      BY <1>7, Zenon DEF Handle
    <2> HIDE DEF owner
    <2> QED
      BY <1>2, <1>6, <2>1, Zenon
  <1>8. ASSUME NEW given, ConnectRefused(r, given) PROVE SchemaInv'
    <2>1. /\ req' = [req EXCEPT ![r] = Asked("answered", "connect", None, "error", Advertised("connect", given))]
          /\ Validates("connect", given)
      BY <1>8, Zenon DEF ConnectRefused, Answered
    <2> QED
      BY <1>2, <1>6, <2>1, Zenon
  <1>9. ASSUME NEW given, NEW s, OpenSession(r, s, given) PROVE SchemaInv'
    <2>1. /\ req' = [req EXCEPT ![r] = Asked("running", "connect", s, "none", Advertised("connect", given))]
          /\ Validates("connect", given)
      BY <1>9, Zenon DEF OpenSession
    <2> QED
      BY <1>2, <1>6, <2>1, Zenon
  <1>10. ASSUME NEW given, NEW s, Disconnect(r, s, given) PROVE SchemaInv'
    <2>1. /\ req' = [req EXCEPT ![r] = Asked("running", "disconnect", s, "none", Advertised("disconnect", given))]
          /\ Validates("disconnect", given)
      BY <1>10, Zenon DEF Disconnect
    <2> QED
      BY <1>2, <1>6, <2>1, Zenon
  <1> QED
    BY <1>3, <1>4, <1>5, <1>7, <1>8, <1>9, <1>10, Zenon DEF Call

LEMMA SchemaNext == SchemaInv /\ IInv /\ [Next]_vars => SchemaInv'
  <1> SUFFICES ASSUME SchemaInv, IInv, [Next]_vars PROVE SchemaInv'
    OBVIOUS
  <1>1. req \in [Requests -> Request]
    BY DEF IInv, TypeOK
  <1>2. CASE req' = req
    BY <1>2, Zenon DEF SchemaInv
  <1>3. ASSUME NEW r \in Requests, Call(r) PROVE SchemaInv'
    BY <1>1, <1>3, CallSchema
  <1>4. ASSUME NEW r \in Requests, HandlerStep(r) \/ CancelHandler(r) PROVE SchemaInv'
    <2>1. req[r].at = "running"
      BY <1>4 DEF HandlerStep, HandlerEnds, StartEnds, CloseAwaited, CancelHandler
    <2>2. \/ req' = req
          \/ \E at \in {"answered", "dropped"} : \E code \in {"none", "ok", "error", "internal_error"} : Ends(r, at, code)
      BY <1>4, Zenon DEF HandlerStep, HandlerEnds, Outcomes, StartEnds, CloseAwaited, CancelHandler
    <2>3. ASSUME NEW at \in {"answered", "dropped"}, NEW code \in {"none", "ok", "error", "internal_error"}, Ends(r, at, code)
          PROVE  SchemaInv'
      BY <1>1, <2>1, <2>3, EndsAgreed
    <2> QED
      BY <1>2, <2>2, <2>3
  <1>5. Boot => req' = req
    BY Zenon DEF Boot, ConfigRejected, StartFails, Serve
  <1>6. (\E s \in Sess : StageEnds(s)) => req' = req
    BY Zenon DEF StageEnds
  <1>7. EndOfInput \/ Signal \/ ProcStep \/ Done \/ UNCHANGED vars => req' = req
    BY DEF EndOfInput, Signal, ProcStep, LifespanEnds, Exit, AllTasksEnded, Done, vars
  <1> QED
    BY <1>2, <1>3, <1>4, <1>5, <1>6, <1>7, Zenon DEF Next

\* mcp_models, list_tools: for every request and all names of arguments it may give,
\* the server refuses these as invalid exactly when the published schema does.
THEOREM SchemaKept == Spec => []SchemaAgrees
  <1>1. Init => SchemaInv
    BY NoRequestType, Zenon DEF Init, SchemaInv, Agreed
  <1>2. SchemaInv => SchemaAgrees
    BY Zenon DEF SchemaInv, Agreed, SchemaAgrees
  <1> QED
    BY <1>1, <1>2, SchemaNext, Invariance, PTL DEF Spec

=============================================================================
