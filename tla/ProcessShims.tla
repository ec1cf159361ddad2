---------------------------- MODULE ProcessShims ----------------------------
(***************************************************************************)
(* rostran/web/service.py: what requests do to the state of the process    *)
(* they share: sys.stdout, the working directory, the environment and      *)
(* ROS2TerraformTemplate.validate_ros_template.                            *)
(*                                                                         *)
(* A conversion detects the local credentials when it is asked to          *)
(* validate, then, under _transform_lock, sets and restores all four; the  *)
(* /rules request redirects sys.stdout under _rules_lock; /credentials     *)
(* only detects.  Each of them runs in a thread.  One action is one read   *)
(* or write of the shared state.                                           *)
(*                                                                         *)
(* A thread's capture of the output stands for its _LogCapture or          *)
(* StringIO, its workspace for the directory it converts in; once the      *)
(* request is over they are Gone.  sys.stderr is redirected with           *)
(* sys.stdout, by conversions only, and left out.                          *)
(***************************************************************************)
EXTENDS FiniteSets

CONSTANTS
  Threads,
  NoThread,  \* the holder of a free lock
  Overlaps   \* the pairs of Conflicts that may be in flight at once

Kinds == {"convert", "validate", "rules", "credentials"}

\* The kinds of requests that are not kept apart by a common lock.
Conflicts ==
  {{"rules", "convert"}, {"rules", "validate"}, {"validate"}, {"validate", "credentials"}}

ASSUME ShimsAssumption ==
  /\ NoThread \notin Threads
  /\ Threads \cap {"terminal", "home", "gone", "none"} = {}
  /\ Overlaps \subseteq Conflicts

VARIABLES
  at,            \* the next step of each thread
  kind,          \* the request of each thread, a conversion that validates or not
  found,         \* detect_credentials: where the keys of the request are
  oldEnv,        \* _temporary_env: the keys to put back
  oldCwd,        \* _temporary_cwd: the directory to return to
  oldStdout,     \* redirect_stdout: the stream to put back
  lines,         \* the requests whose output each capture has received
  reply,         \* the requests whose output each reply has
  transformLock, \* the holder of _transform_lock
  rulesLock,     \* the holder of _rules_lock
  stdout,        \* sys.stdout: the terminal or the capture of a thread
  cwd,           \* the working directory: home or the workspace of a thread
  env,           \* the access key id and secret of os.environ
  skip,          \* whether validate_ros_template is replaced by a no-op
  host           \* the server's own keys: in its environment, in the config of
                 \* the Aliyun CLI, in a credentials file

reqVars    == <<kind, found, reply>>
savedVars  == <<oldEnv, oldCwd, oldStdout>>
lockVars   == <<transformLock, rulesLock>>
sharedVars == <<stdout, cwd, env, skip>>
shimVars == <<at, reqVars, savedVars, lines, lockVars, sharedVars, host>>

KeyNames == {"id", "secret"}
Keys == {"unset", "server", "cli"}
Sources == {"none", "environment", "cli", "file"}
Converts(t) == kind[t] \in {"convert", "validate"}

ShimsInit ==
  /\ at = [t \in Threads |-> "idle"]
  /\ kind = [t \in Threads |-> "convert"]
  /\ found = [t \in Threads |-> "none"]
  /\ oldEnv = [t \in Threads |-> [n \in KeyNames |-> "unset"]]
  /\ oldCwd = [t \in Threads |-> "home"]
  /\ oldStdout = [t \in Threads |-> "none"]
  /\ lines = [t \in Threads |-> {}]
  /\ reply = [t \in Threads |-> {t}]
  /\ transformLock = NoThread
  /\ rulesLock = NoThread
  /\ stdout = "terminal"
  /\ cwd = "home"
  /\ host \in [env : [KeyNames -> {"unset", "server"}], cli : BOOLEAN, file : BOOLEAN]
  /\ env = host.env
  /\ skip = FALSE

-----------------------------------------------------------------------------
StepTo(t, step) == at' = [at EXCEPT ![t] = step]

Busy(t) == at[t] # "idle"

(***************************************************************************)
(* A request of kind k reaches a thread.                                   *)
(***************************************************************************)
Begin(t, k) ==
  /\ at[t] = "idle"
  /\ \A u \in Threads : Busy(u) => {k, kind[u]} \notin Conflicts \ Overlaps
  /\ StepTo(t, CASE k = "convert" -> "lock"
                 [] k = "rules" -> "rulesLock"
                 [] OTHER -> "detectId")
  /\ kind' = [kind EXCEPT ![t] = k]
  /\ found' = [found EXCEPT ![t] = "none"]
  /\ lines' = [lines EXCEPT ![t] = {}]
  /\ reply' = [reply EXCEPT ![t] = {t}]
  /\ oldStdout' = [oldStdout EXCEPT ![t] = "none"]
  /\ UNCHANGED <<oldEnv, oldCwd, lockVars, sharedVars, host>>

(***************************************************************************)
(* detect_credentials, before _transform_lock is taken.                    *)
(***************************************************************************)
Detected(t, source) ==
  /\ found' = [found EXCEPT ![t] = source]
  /\ StepTo(t, IF kind[t] = "validate" THEN "lock" ELSE "idle")

InFiles == IF host.cli THEN "cli" ELSE IF host.file THEN "file" ELSE "none"

DetectId(t) ==
  /\ at[t] = "detectId"
  /\ IF env["id"] # "unset"
       THEN StepTo(t, "detectSecret") /\ UNCHANGED found
       ELSE Detected(t, InFiles)
  /\ UNCHANGED <<kind, reply, savedVars, lines, lockVars, sharedVars, host>>

DetectSecret(t) ==
  /\ at[t] = "detectSecret"
  /\ Detected(t, IF env["secret"] # "unset" THEN "environment" ELSE InFiles)
  /\ UNCHANGED <<kind, reply, savedVars, lines, lockVars, sharedVars, host>>

-----------------------------------------------------------------------------
(***************************************************************************)
(* _run_transform_workspace: lock, _temporary_env, _temporary_cwd.         *)
(***************************************************************************)
\* Slip: the shims are not serialized.
NoTransformLock(t) ==
  /\ at[t] = "lock"
  /\ transformLock' = t
  /\ StepTo(t, "saveEnv")
  /\ UNCHANGED <<reqVars, savedVars, lines, rulesLock, sharedVars, host>>

AcquireTransformLock(t) ==
  /\ at[t] = "lock"
  /\ transformLock = NoThread
  /\ transformLock' = t
  /\ StepTo(t, "saveEnv")
  /\ UNCHANGED <<reqVars, savedVars, lines, rulesLock, sharedVars, host>>

\* Only keys from the Aliyun CLI's config are put into the environment.
Overrides(t) == IF found[t] = "cli" THEN KeyNames ELSE {}

SaveEnv(t) ==
  /\ at[t] = "saveEnv"
  /\ oldEnv' = [oldEnv EXCEPT ![t] = env]
  /\ StepTo(t, IF Overrides(t) = {} THEN "chdir" ELSE "setId")
  /\ UNCHANGED <<reqVars, oldCwd, oldStdout, lines, lockVars, sharedVars, host>>

SetEnv(t) ==
  /\ \/ /\ at[t] = "setId"
        /\ env' = [env EXCEPT !["id"] = "cli"]
        /\ StepTo(t, "setSecret")
     \/ /\ at[t] = "setSecret"
        /\ env' = [env EXCEPT !["secret"] = "cli"]
        /\ StepTo(t, "chdir")
  /\ UNCHANGED <<reqVars, savedVars, lines, lockVars, stdout, cwd, skip, host>>

\* The workspace of a Terraform conversion may have been evicted meanwhile;
\* a template that is validated has a temporary directory of its own.
Chdir(t) ==
  /\ at[t] = "chdir"
  /\ oldCwd' = [oldCwd EXCEPT ![t] = cwd]
  /\ \/ cwd' = t /\ StepTo(t, "readStdout")
     \/ kind[t] = "convert" /\ UNCHANGED cwd /\ StepTo(t, "restoreEnv")
  /\ UNCHANGED <<reqVars, oldEnv, oldStdout, lines, lockVars, stdout, env, skip, host>>

-----------------------------------------------------------------------------
(***************************************************************************)
(* redirect_stdout reads sys.stdout, then sets it: for a conversion and    *)
(* for /rules alike.                                                       *)
(***************************************************************************)
\* Slip: the rules are rendered without a lock.
NoRulesLock(t) ==
  /\ at[t] = "rulesLock"
  /\ rulesLock' = t
  /\ StepTo(t, "readStdout")
  /\ UNCHANGED <<reqVars, savedVars, lines, transformLock, sharedVars, host>>

AcquireRulesLock(t) ==
  /\ at[t] = "rulesLock"
  /\ rulesLock = NoThread
  /\ rulesLock' = t
  /\ StepTo(t, "readStdout")
  /\ UNCHANGED <<reqVars, savedVars, lines, transformLock, sharedVars, host>>

ReadStdout(t) ==
  /\ at[t] = "readStdout"
  /\ oldStdout' = [oldStdout EXCEPT ![t] = stdout]
  /\ StepTo(t, "setStdout")
  /\ UNCHANGED <<reqVars, oldEnv, oldCwd, lines, lockVars, sharedVars, host>>

SetStdout(t) ==
  /\ at[t] = "setStdout"
  /\ stdout' = t
  /\ StepTo(t, IF Converts(t) THEN "patch" ELSE "run")
  /\ UNCHANGED <<reqVars, savedVars, lines, lockVars, cwd, env, skip, host>>

\* _skip_ros_validation, for all but a validation with credentials.
Validates(t) == kind[t] = "validate" /\ found[t] # "none"

Patch(t) ==
  /\ at[t] = "patch"
  /\ skip' = ~Validates(t)
  /\ StepTo(t, "run")
  /\ UNCHANGED <<reqVars, savedVars, lines, lockVars, stdout, cwd, env, host>>

\* The command prints to whatever sys.stdout is, and succeeds or fails.
Run(t) ==
  /\ at[t] = "run"
  /\ lines' = IF stdout \in Threads THEN [lines EXCEPT ![stdout] = @ \cup {t}] ELSE lines
  /\ StepTo(t, IF Converts(t) THEN "unpatch" ELSE "restoreStdout")
  /\ UNCHANGED <<reqVars, savedVars, lockVars, sharedVars, host>>

Unpatch(t) ==
  /\ at[t] = "unpatch"
  /\ skip' = FALSE
  /\ StepTo(t, "restoreStdout")
  /\ UNCHANGED <<reqVars, savedVars, lines, lockVars, stdout, cwd, env, host>>

RestoreStdout(t) ==
  /\ at[t] = "restoreStdout"
  /\ stdout' = oldStdout[t]
  /\ StepTo(t, IF Converts(t) THEN "restoreCwd" ELSE "unlock")
  /\ UNCHANGED <<reqVars, savedVars, lines, lockVars, cwd, env, skip, host>>

RestoreCwd(t) ==
  /\ at[t] = "restoreCwd"
  /\ cwd' = oldCwd[t]
  /\ StepTo(t, "restoreEnv")
  /\ UNCHANGED <<reqVars, savedVars, lines, lockVars, stdout, env, skip, host>>

\* Slip: keys that were not there before stay.
KeepKeys(t) ==
  /\ at[t] = "restoreEnv"
  /\ StepTo(t, "unlock")
  /\ UNCHANGED <<reqVars, savedVars, lines, lockVars, sharedVars, host>>

\* One key after the other, set again or popped.
RestoreEnv(t) ==
  /\ \/ /\ at[t] = "restoreEnv"
        /\ Overrides(t) = {}
        /\ StepTo(t, "unlock")
        /\ UNCHANGED env
     \/ /\ at[t] = "restoreEnv"
        /\ Overrides(t) # {}
        /\ env' = [env EXCEPT !["id"] = oldEnv[t]["id"]]
        /\ StepTo(t, "restoreSecret")
     \/ /\ at[t] = "restoreSecret"
        /\ env' = [env EXCEPT !["secret"] = oldEnv[t]["secret"]]
        /\ StepTo(t, "unlock")
  /\ UNCHANGED <<reqVars, savedVars, lines, lockVars, stdout, cwd, skip, host>>

Unlock(t) ==
  /\ at[t] = "unlock"
  /\ IF Converts(t)
       THEN transformLock' = NoThread /\ UNCHANGED rulesLock
       ELSE rulesLock' = NoThread /\ UNCHANGED transformLock
  /\ StepTo(t, "reply")
  /\ UNCHANGED <<reqVars, savedVars, lines, sharedVars, host>>

\* The output is joined after the lock is released; a failed chdir has none.
Reply(t) ==
  LET forget(x) == IF x = t THEN "gone" ELSE x IN
  /\ at[t] = "reply"
  /\ reply' = [reply EXCEPT ![t] = IF oldStdout[t] = "none" THEN {t} ELSE lines[t]]
  /\ stdout' = forget(stdout)
  /\ cwd' = forget(cwd)
  /\ oldStdout' = [u \in Threads |-> forget(oldStdout[u])]
  /\ oldCwd' = [u \in Threads |-> forget(oldCwd[u])]
  /\ StepTo(t, "idle")
  /\ UNCHANGED <<kind, found, oldEnv, lines, lockVars, env, skip, host>>

Detect(t) == DetectId(t) \/ DetectSecret(t)

EnterShims(t) ==
  \/ AcquireTransformLock(t) \/ SaveEnv(t) \/ SetEnv(t) \/ Chdir(t)
  \/ AcquireRulesLock(t) \/ ReadStdout(t) \/ SetStdout(t) \/ Patch(t)

LeaveShims(t) == Unpatch(t) \/ RestoreStdout(t) \/ RestoreCwd(t) \/ RestoreEnv(t) \/ Unlock(t)

ShimsNext ==
  \E t \in Threads :
    \/ \E k \in Kinds : Begin(t, k)
    \/ Detect(t) \/ EnterShims(t) \/ Run(t) \/ LeaveShims(t) \/ Reply(t)

ShimsSpec == ShimsInit /\ [][ShimsNext]_shimVars

-----------------------------------------------------------------------------
ThreadSteps == {"idle", "detectId", "detectSecret", "lock", "saveEnv", "setId", "setSecret", "chdir",
          "rulesLock", "readStdout", "setStdout", "patch", "run", "unpatch", "restoreStdout",
          "restoreCwd", "restoreEnv", "restoreSecret", "unlock", "reply"}
RedirectedSteps == {"setStdout", "patch", "run", "unpatch", "restoreStdout"}
Streams == Threads \cup {"terminal", "gone"}
Directories == Threads \cup {"home", "gone"}

\* A thread that has redirected its output has a stream to put back.
RequestTypes ==
  /\ at \in [Threads -> ThreadSteps]
  /\ kind \in [Threads -> Kinds]
  /\ found \in [Threads -> Sources]
  /\ lines \in [Threads -> SUBSET Threads]
  /\ reply \in [Threads -> SUBSET Threads]
  /\ transformLock \in Threads \cup {NoThread}
  /\ rulesLock \in Threads \cup {NoThread}

StreamTypes ==
  /\ stdout \in Streams
  /\ cwd \in Directories
  /\ oldCwd \in [Threads -> Directories]
  /\ oldStdout \in [Threads -> Streams \cup {"none"}]
  /\ \A t \in Threads : at[t] \in RedirectedSteps => oldStdout[t] # "none"

EnvTypes ==
  /\ oldEnv \in [Threads -> [KeyNames -> Keys]]
  /\ env \in [KeyNames -> Keys]
  /\ skip \in BOOLEAN
  /\ host \in [env : [KeyNames -> {"unset", "server"}], cli : BOOLEAN, file : BOOLEAN]

ShimsTypeOK == RequestTypes /\ StreamTypes /\ EnvTypes

\* The log of a conversion and the text of /rules have all of the output of
\* their request and nothing of any other (transform, get_rules).
RepliesAreWhole == \A t \in Threads : reply[t] = {t}

\* When nobody holds a lock the process is as it was at the start, whichever
\* requests failed and in which order they ended.
Restored ==
  transformLock = NoThread /\ rulesLock = NoThread
    => /\ stdout = "terminal" /\ cwd = "home"
       /\ env = host.env /\ skip = FALSE

\* A conversion runs in its own workspace, with the server's keys or the ones
\* it has found itself, and validates if it was asked to and there are keys.
RunsInItsOwnContext ==
  \A t \in Threads :
    at[t] = "run" /\ Converts(t)
      => /\ cwd = t
         /\ env = IF found[t] = "cli" THEN [n \in KeyNames |-> "cli"] ELSE host.env
         /\ skip = ~Validates(t)

\* Keys said to be in the environment are the server's own, not those another
\* request has put there for a while (detect_credentials, /credentials).
SourceIsTrue ==
  \A t \in Threads :
    found[t] = "environment" => \A n \in KeyNames : host.env[n] = "server"

\* A template is validated with the keys that were detected in place.
ValidatedWithKeys ==
  \A t \in Threads :
    at[t] = "run" /\ Validates(t) /\ found[t] # "file"
      => \A n \in KeyNames : env[n] # "unset"
=============================================================================
