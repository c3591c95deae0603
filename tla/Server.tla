------------------------------- MODULE Server -------------------------------
(***************************************************************************)
(* The life of the server process (cli.py, config.py, server.py): start-up *)
(* checks, tool calls from validation to answer (mcp_models.py), end of    *)
(* input, signals, the teardown of the lifespan and what asyncio.run does  *)
(* to a teardown that is interrupted.                                      *)
(*                                                                         *)
(* Of a session only the position of its close task in the chain of finally*)
(* blocks of SessionManager._shutdown is kept; Sessions, Transfers and     *)
(* Commands model what each position does.  Of a call only which arguments *)
(* it gives; values, names and texts are left out.                         *)
(***************************************************************************)
EXTENDS Integers, FiniteSets

CONSTANTS
    Requests,      \* tools/call requests of the client
    Sess,          \* sessions the client may open
    None

ASSUME ServerAssumption ==
    None \notin Sess

VARIABLES
    proc,       \* where the process is
    exit,       \* its exit code
    requested,  \* run_stdio's shutdown_requested
    cut,        \* the position at which asyncio.run cancelled a close task
    req,        \* the requests
    sess,       \* registered sessions and the position of their close tasks
    master,     \* their ssh masters
    torn,       \* the sessions app.close found registered
    closeError  \* sessions whose close task met an error

vars == <<proc, exit, requested, cut, req, sess, master, torn, closeError>>
procVars == <<proc, exit, requested, torn>>
sessVars == <<cut, sess, master, closeError>>

-----------------------------------------------------------------------------
(* TOOL_DEFINITIONS and the input models: required and optional arguments. *)

Key == {"session_id", "session_key"}
Connect == {"ssh_alias", "host", "user", "port"}
Required ==
    [connect |-> {}, disconnect |-> {"session_id"}, session_list |-> {},
     exec |-> Key \cup {"command"}, sudo_exec |-> Key \cup {"command"},
     stat |-> Key \cup {"remote_path"}, list_directory |-> Key \cup {"remote_path"},
     read_file_range |-> Key \cup {"remote_path"},
     download_start |-> Key \cup {"remote_path", "local_path"},
     upload_start |-> Key \cup {"local_path", "remote_path"},
     transfer_status |-> Key \cup {"operation_id"}, transfer_cancel |-> Key \cup {"operation_id"},
     transfer_list |-> Key]
Tools == DOMAIN Required
Optional(tool) ==
    CASE tool = "connect" -> Connect
      [] tool \in {"exec", "sudo_exec"} -> {"cwd", "timeout", "spool_output"}
      [] tool = "read_file_range" -> {"offset", "max_bytes"}
      [] tool \in {"download_start", "upload_start"} -> {"overwrite"}
      [] OTHER -> {}
Keyed(tool) == Key \subseteq Required[tool]

\* StrictModel: every required argument, no other than the named ones.
Strict(tool, given) ==
    Required[tool] \subseteq given /\ given \subseteq Required[tool] \cup Optional(tool)

\* ConnectInput.connection_spec, called by validate_mode and by the handler.
MutConnectionSpec(given) == "ssh_alias" \in given \/ {"host", "user"} \subseteq given
ConnectionSpec(given) ==
    IF "ssh_alias" \in given THEN given \cap {"host", "user", "port"} = {}
    ELSE {"host", "user"} \subseteq given
Validates(tool, given) == Strict(tool, given) /\ (tool = "connect" => ConnectionSpec(given))

\* The schema list_tools publishes: the model's, and oneOf for connect.
Advertised(tool, given) ==
    /\ Strict(tool, given)
    /\ tool = "connect" =>
          Cardinality({ branch \in {1, 2} :
              IF branch = 1 THEN given \cap Connect = {"ssh_alias"}
              ELSE {"host", "user"} \subseteq given /\ "ssh_alias" \notin given }) = 1

\* The calls a client may make: any subset of the arguments, one unknown name.
Arguments(tool) == SUBSET (Required[tool] \cup Optional(tool) \cup {"unknown"})

-----------------------------------------------------------------------------
Asked(at, tool, s, code, advertised) ==
    [at |-> at, tool |-> tool, sess |-> s, answer |-> code, advertised |-> advertised]
NoRequest == Asked("none", "none", None, "none", FALSE)

Init ==
    /\ proc = "boot" /\ exit = None /\ requested = FALSE
    /\ req = [r \in Requests |-> NoRequest]
    /\ sess = [s \in Sess |-> "none"] /\ master = [s \in Sess |-> "none"]
    /\ cut = [s \in Sess |-> "none"] /\ torn = {} /\ closeError = {}

\* runtime_repository_root: the environment is a project's, of this machine and
\* user (machine.environment_key), of the version of this package.  A standalone
\* build passes its own root.  from_namespace: the root is a directory, numbers
\* are within their bounds, the programs are found.
VenvFacts == {"venv", "namespace", "machine_id", "own_key", "markers", "version"}
MainFacts == {"root", "bounds", "programs"}
Accepted(facts, standalone) == MainFacts \subseteq facts /\ (standalone \/ VenvFacts \subseteq facts)

\* main: what from_namespace rejects is a usage error.
ConfigRejected(facts, standalone) ==
    /\ ~Accepted(facts, standalone)
    /\ proc' = "exited" /\ exit' = 2
    /\ UNCHANGED <<requested, torn, req, sessVars>>

\* _ensure_private_directory, for the internal directory and the two in it: one
\* that is missing is made, one that is no directory or not ours is an error,
\* which leaves the lifespan before a client is served.
Usable(kind) == kind \in {"missing", "ours"}
StartFails(dirs) ==
    /\ \E d \in DOMAIN dirs : ~Usable(dirs[d])
    /\ proc' = "exited" /\ exit' = 1
    /\ UNCHANGED <<requested, torn, req, sessVars>>

Serve(dirs) ==
    /\ \A d \in DOMAIN dirs : Usable(dirs[d])
    /\ proc' = "serving"
    /\ UNCHANGED <<exit, requested, torn, req, sessVars>>

Boot ==
    proc = "boot" /\ \E facts \in SUBSET (VenvFacts \cup MainFacts), standalone \in BOOLEAN :
        \/ ConfigRejected(facts, standalone)
        \/ /\ Accepted(facts, standalone)
           /\ \E dirs \in [{"internal", "spool", "partials"} -> {"missing", "ours", "link", "file", "foreign"}] :
                  StartFails(dirs) \/ Serve(dirs)

-----------------------------------------------------------------------------
(* call_tool.                                                              *)

Answered(r, tool, code, advertised) ==
    req' = [req EXCEPT ![r] = Asked("answered", tool, None, code, advertised)]

Ends(r, at, code) == req' = [req EXCEPT ![r] = [req[r] EXCEPT !.at = at, !.answer = code]]

UnknownTool(r) ==
    /\ Answered(r, "unknown", "unknown_tool", TRUE)
    /\ UNCHANGED <<procVars, sessVars>>

InvalidArguments(r, tool, given) ==
    /\ ~Validates(tool, given)
    /\ Answered(r, tool, "invalid_arguments", Advertised(tool, given))
    /\ UNCHANGED <<procVars, sessVars>>

\* authorize, disconnect: what a session ID and key that are not good get.
Registered(s) == sess[s] \notin {"none", "gone"}
Stages == {"wait", "transfers", "runner", "master"}
Closing(s) == sess[s] \in Stages
KeyErrors(tool, s, right) ==
    IF ~Registered(s) THEN {"session_not_found"}
    ELSE IF ~Keyed(tool) THEN {}
    ELSE IF ~right THEN {"invalid_session_key"}
    ELSE IF Closing(s) THEN {"session_closing"}
    ELSE IF sess[s] = "starting" THEN {"session_not_ready"} ELSE {}
Refused(r, tool, given, s, right) ==
    /\ Validates(tool, given) /\ "session_id" \in given
    /\ \E code \in KeyErrors(tool, s, right) : Answered(r, tool, code, Advertised(tool, given))
    /\ UNCHANGED <<procVars, sessVars>>

\* The handler of a keyed tool or of session_list has what it needs and runs.
Handle(r, tool, given, s) ==
    /\ tool \notin {"connect", "disconnect"} /\ Validates(tool, given)
    /\ Keyed(tool) => KeyErrors(tool, s, TRUE) = {}
    /\ req' = [req EXCEPT ![r] = Asked("running", tool, IF Keyed(tool) THEN s ELSE None, "none",
                                       Advertised(tool, given))]
    /\ UNCHANGED <<procVars, sessVars>>

\* The handler returns, raises RemoteMCPError, or anything else.
Outcomes == {"ok", "error", "internal_error"}
HandlerEnds(r) ==
    /\ req[r].at = "running" /\ req[r].tool \notin {"connect", "disconnect"}
    /\ \E code \in Outcomes : Ends(r, "answered", code)
    /\ UNCHANGED <<procVars, sessVars>>

\* connect: registers a session, waits for its authentication.
OpenSession(r, s, given) ==
    /\ Validates("connect", given)
    /\ sess[s] = "none"
    /\ sess' = [sess EXCEPT ![s] = "starting"] /\ master' = [master EXCEPT ![s] = "alive"]
    /\ req' = [req EXCEPT ![r] = Asked("running", "connect", s, "none", Advertised("connect", given))]
    /\ UNCHANGED <<procVars, cut, closeError>>
ConnectRefused(r, given) ==
    /\ Validates("connect", given)
    /\ Answered(r, "connect", "error", Advertised("connect", given))
    /\ UNCHANGED <<procVars, sessVars>>
StartEnds(r) ==
    LET s == req[r].sess IN
    /\ req[r].at = "running" /\ req[r].tool = "connect" /\ sess[s] = "starting"
    /\ \/ /\ sess' = [sess EXCEPT ![s] = "ready"]
          /\ Ends(r, "answered", "ok")
          /\ UNCHANGED master
       \/ /\ sess' = [sess EXCEPT ![s] = "master"]    \* authentication failed: connect closes it
          /\ master' = [master EXCEPT ![s] = "closed"]
          /\ UNCHANGED req
    /\ UNCHANGED <<procVars, cut, closeError>>

\* _close: the first caller creates the close task.
MutCloseTask(s) == [sess EXCEPT ![s] = IF @ = "ready" THEN "transfers" ELSE @]
CloseTask(s) ==
    [sess EXCEPT ![s] = IF @ = "starting" THEN "wait" ELSE IF @ = "ready" THEN "transfers" ELSE @]
Disconnect(r, s, given) ==
    /\ Validates("disconnect", given)
    /\ Registered(s)
    /\ sess' = CloseTask(s)
    /\ req' = [req EXCEPT ![r] = Asked("running", "disconnect", s, "none", Advertised("disconnect", given))]
    /\ UNCHANGED <<procVars, cut, master, closeError>>

\* connect (after a failure or a disconnect) and disconnect return once the
\* close task has ended.
CloseAwaited(r) ==
    /\ req[r].at = "running" /\ req[r].tool \in {"connect", "disconnect"} /\ sess[req[r].sess] = "gone"
    /\ Ends(r, "answered", IF req[r].tool = "disconnect" /\ req[r].sess \notin closeError
                           THEN "ok" ELSE "error")
    /\ UNCHANGED <<procVars, sessVars>>

\* A CancelledError reaches a handler: notifications/cancelled, or the end of
\* the server.  It is no Exception, so call_tool gives no answer; a connect
\* that was waiting for its session closes it.  (What the handler still waits
\* for before it ends is part of Sessions and Commands.)
CancelHandler(r) ==
    /\ req[r].at = "running"
    /\ Ends(r, "dropped", "none")
    /\ sess' = IF req[r].tool = "connect" THEN CloseTask(req[r].sess) ELSE sess
    /\ UNCHANGED <<procVars, cut, master, closeError>>

-----------------------------------------------------------------------------
(* SessionManager._shutdown: start, transfers, runner, master, each in the *)
(* finally block of the one before.                                        *)

Then(stage) == IF stage = "transfers" THEN "runner" ELSE "master"
StageEnds(s) ==
    /\ proc \notin {"exited", "killed"} /\ Closing(s)
    /\ \/ /\ sess[s] = "wait"                  \* the cancelled start task has ended its master
          /\ sess' = [sess EXCEPT ![s] = Then("wait")] /\ master' = [master EXCEPT ![s] = "closed"]
          /\ UNCHANGED closeError
       \/ /\ sess[s] \in {"transfers", "runner"}
          /\ sess' = [sess EXCEPT ![s] = Then(@)]
          /\ closeError' \in {closeError, closeError \cup {s}}  \* close() raises, the next finally runs
          /\ UNCHANGED master
       \/ /\ sess[s] = "master"
          /\ sess' = [sess EXCEPT ![s] = "gone"]
          /\ \/ master' = [master EXCEPT ![s] = "closed"] /\ UNCHANGED closeError
             \/ UNCHANGED master /\ closeError' = closeError \cup {s}
    /\ UNCHANGED <<procVars, cut, req>>

\* Where a close task goes on that is cancelled at a stage: the start task it
\* waits for is cancelled too and ends its master itself.
MutAfterCut(stage) == "gone"
AfterCut(stage) == IF stage \in {"wait", "master"} THEN "gone" ELSE Then(stage)

-----------------------------------------------------------------------------
(* run_stdio and asyncio.run.                                              *)

\* The client closes stdin, or request_shutdown cancels the main task: the
\* handlers are cancelled and awaited before the lifespan ends.
EndOfInput ==
    /\ proc = "serving"
    /\ proc' = "draining"
    /\ UNCHANGED <<exit, requested, torn, req, sessVars>>

Drained == \A r \in Requests : req[r].at # "running"
\* lifespan: await app.close(), a close task for every registered session.
LifespanEnds ==
    /\ proc = "draining" /\ Drained
    /\ proc' = "closing"
    /\ torn' = { s \in Sess : Registered(s) }
    /\ sess' = [s \in Sess |-> CloseTask(s)[s]]
    /\ UNCHANGED <<exit, requested, cut, req, master, closeError>>

NothingRegistered == \A s \in Sess : ~Registered(s)
MutTornDown == proc = "closing"
TornDown == proc = "closing" /\ NothingRegistered
Exit ==
    /\ TornDown
    /\ proc' = "exited" /\ exit' = IF closeError \cap torn = {} THEN 0 ELSE 1
    /\ UNCHANGED <<requested, torn, req, sessVars>>

\* SIGINT or SIGTERM.  During the teardown the CancelledError leaves app.close:
\* run_stdio swallows it, removes its handlers and returns; asyncio.run then
\* cancels every task that is left and waits for it.  A signal that comes after
\* that, or before the handlers are there, has its default effect.
Signal ==
    \/ /\ proc \in {"serving", "draining"}
       /\ proc' = "draining" /\ requested' = TRUE
       /\ UNCHANGED <<exit, torn, req, sessVars>>
    \/ /\ proc = "closing"
       /\ proc' = "cancelling" /\ requested' = TRUE
       /\ cut' = [s \in Sess |-> IF Closing(s) THEN sess[s] ELSE "ended"]
       /\ sess' = [s \in Sess |-> IF Closing(s) THEN AfterCut(sess[s]) ELSE sess[s]]
       /\ master' = [s \in Sess |-> IF sess[s] = "wait" THEN "closed" ELSE master[s]]
       /\ UNCHANGED <<exit, torn, req, closeError>>
    \/ /\ proc \in {"boot", "cancelling"}
       /\ proc' = "killed" /\ exit' \in {130, 143}
       /\ UNCHANGED <<requested, torn, req, sessVars>>
AllTasksEnded ==
    /\ proc = "cancelling" /\ NothingRegistered
    /\ proc' = "exited" /\ exit' = 0
    /\ UNCHANGED <<requested, torn, req, sessVars>>

Call(r) ==
    /\ proc = "serving" /\ req[r].at = "none"
    /\ \/ UnknownTool(r)
       \/ \E tool \in Tools : \E given \in Arguments(tool) :
            \/ InvalidArguments(r, tool, given)
            \/ \E s \in Sess, right \in BOOLEAN : Refused(r, tool, given, s, right)
            \/ \E s \in Sess : Handle(r, tool, given, s)
       \/ \E given \in Arguments("connect") : ConnectRefused(r, given) \/ \E s \in Sess : OpenSession(r, s, given)
       \/ \E s \in Sess : Disconnect(r, s, {"session_id"})

HandlerStep(r) == HandlerEnds(r) \/ StartEnds(r) \/ CloseAwaited(r)
ProcStep == LifespanEnds \/ Exit \/ AllTasksEnded
Done == proc \in {"exited", "killed"} /\ UNCHANGED vars

Next ==
    \/ Boot
    \/ \E r \in Requests : Call(r) \/ HandlerStep(r) \/ CancelHandler(r)
    \/ \E s \in Sess : StageEnds(s)
    \/ EndOfInput \/ Signal \/ ProcStep \/ Done

Spec == Init /\ [][Next]_vars

\* The library cancels the handlers when its input ends; every stage of a close
\* task has a time limit (Sessions, Transfers, Commands).
FairSpec ==
    /\ Spec
    /\ WF_vars(ProcStep)
    /\ \A s \in Sess : WF_vars(StageEnds(s))
    /\ \A r \in Requests : WF_vars(HandlerStep(r)) /\ WF_vars(proc = "draining" /\ CancelHandler(r))

-----------------------------------------------------------------------------
Codes == {"none", "ok", "error", "internal_error", "unknown_tool", "invalid_arguments", "session_not_found",
          "invalid_session_key", "session_closing", "session_not_ready"}
Request == [at : {"none", "running", "answered", "dropped"}, tool : Tools \cup {"none", "unknown"},
            sess : Sess \cup {None}, answer : Codes, advertised : BOOLEAN]
Positions == Stages \cup {"none", "starting", "ready", "gone"}

\* Every variable keeps the shape the code gives it, and a handler of connect or
\* disconnect waits for a session.
TypeOK ==
    /\ proc \in {"boot", "serving", "draining", "closing", "cancelling", "exited", "killed"}
    /\ exit \in {None, 0, 1, 2, 130, 143} /\ requested \in BOOLEAN
    /\ sess \in [Sess -> Positions] /\ master \in [Sess -> {"none", "alive", "closed"}]
    /\ cut \in [Sess -> Stages \cup {"none", "ended"}]
    /\ torn \subseteq Sess /\ closeError \subseteq Sess
    /\ req \in [Requests -> Request]
    /\ \A r \in Requests :
           req[r].at = "running" /\ req[r].tool \in {"connect", "disconnect"} => req[r].sess \in Sess

\* validate_mode against the published schema: a call is refused as invalid
\* exactly when the schema that list_tools publishes refuses the arguments it
\* gives (which ones; their values are left out).
SchemaAgrees ==
    \A r \in Requests :
        req[r].at # "none" => (req[r].answer = "invalid_arguments" <=> ~req[r].advertised)

\* lifespan, main: exit code 0 of a server whose teardown was not interrupted
\* means that every session it still had is unregistered and its master closed.
ExitZeroIsClean ==
    (proc = "exited" /\ exit = 0 /\ \A s \in Sess : cut[s] = "none") =>
        \A s \in Sess : ~Registered(s) /\ (master[s] = "alive" => s \in closeError \ torn)

\* _shutdown, asyncio.run: a signal that interrupts the teardown costs at most
\* the stage it interrupts: the master of a session is still closed, unless
\* its close was that stage or failed.
InterruptedTeardownCloses ==
    proc = "exited" =>
        \A s \in Sess : master[s] = "alive" => cut[s] = "master" \/ s \in closeError

\* run_stdio: the process ends after the end of its input or a signal, with
\* calls, authentications and close tasks in any position.
ServerEnds == proc \in {"draining", "closing", "cancelling"} ~> proc \in {"exited", "killed"}

=============================================================================
