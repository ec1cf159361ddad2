--------------------------- MODULE ServerLifecycle ---------------------------
(***************************************************************************)
(* The background service of the command line: `rostran server start`,     *)
(* `stop` and `status` in cli/__main__.py, and the processes they launch   *)
(* and signal.  They know of each other by the process id in               *)
(* ~/.rostran/server.json alone, and nothing keeps two of them apart.      *)
(*                                                                         *)
(* One port: `start --port` is left out, and so is what is printed.        *)
(***************************************************************************)
EXTENDS Naturals

CONSTANTS
  Pids,      \* process ids
  Shells,    \* where commands are entered, one at a time each
  NoPid,     \* no process id
  MaxPolls   \* the polls of server_stop: 50 in the code

ASSUME ServerAssumption == NoPid \notin Pids /\ MaxPolls \in Nat \ {0}

Servers == {"starting", "serving", "ending"}

AtPrompt == [op |-> "none", at |-> "prompt", pid |-> NoPid, polls |-> 0]

VARIABLES
  process,   \* what runs under each process id
  portTaken, \* whether another program, or `start --foreground`, has the port
  pidFile,   \* server.json: "absent", "empty", or the process id it has
  command,   \* the command of each shell
  muddled    \* history: since no server ran, two commands were under way at
             \* once, or one was killed

serverVars == <<process, portTaken, pidFile, command, muddled>>

ServerInit ==
  /\ process = [p \in Pids |-> "none"]
  /\ portTaken \in BOOLEAN
  /\ pidFile = "absent"
  /\ command = [c \in Shells |-> AtPrompt]
  /\ muddled = FALSE

----------------------------------------------------------------------------
\* _process_alive: a signal can be sent to it.
Alive(p) == p # NoPid /\ process[p] # "none"

At(c, op, step) == command[c].op = op /\ command[c].at = step

Go(c, step) == command' = [command EXCEPT ![c].at = step]

Ends(c) == command' = [command EXCEPT ![c] = AtPrompt]

Enter(c, op) ==
  /\ command[c] = AtPrompt
  /\ command' = [command EXCEPT ![c] = [AtPrompt EXCEPT !.op = op, !.at = "read"]]
  /\ LET others == \E d \in Shells \ {c} : command[d] # AtPrompt IN
     muddled' = (others \/ (muddled /\ \E p \in Pids : process[p] \in Servers))
  /\ UNCHANGED <<process, portTaken, pidFile>>

\* _read_server_state: what cannot be parsed is no state.
ReadState(c) ==
  /\ command[c].at = "read"
  /\ command' = [command EXCEPT ![c].at = "probe",
                                ![c].pid = IF pidFile \in Pids THEN pidFile ELSE NoPid]
  /\ UNCHANGED <<process, portTaken, pidFile, muddled>>

\* Slip: a second server is started.
NeverRefuses(p) == FALSE

RefusesToStart(p) == Alive(p)

\* `start` ends if a server runs; `stop` and `status` end if none does, and
\* remove the file, `status` if it had a state.
Probe(c) ==
  LET p == command[c].pid IN
  /\ command[c].at = "probe"
  /\ CASE command[c].op = "start" -> IF RefusesToStart(p) THEN Ends(c) ELSE Go(c, "spawn")
       [] command[c].op = "stop" -> Go(c, IF Alive(p) THEN "signal" ELSE "unlink")
       [] command[c].op = "status" ->
            IF ~Alive(p) /\ p # NoPid THEN Go(c, "unlink") ELSE Ends(c)
  /\ UNCHANGED <<process, portTaken, pidFile, muddled>>

\* Popen
Spawn(c, p) ==
  /\ command[c].at = "spawn"
  /\ process[p] = "none"
  /\ process' = [process EXCEPT ![p] = "starting"]
  /\ command' = [command EXCEPT ![c].at = "open", ![c].pid = p]
  /\ UNCHANGED <<portTaken, pidFile, muddled>>

\* Popen raises: there is no process to be had.
SpawnFails(c) ==
  /\ command[c].at = "spawn"
  /\ \A p \in Pids : process[p] # "none"
  /\ Ends(c)
  /\ UNCHANGED <<process, portTaken, pidFile, muddled>>

\* write_text empties the file, and then writes.
OpenFile(c) ==
  /\ command[c].at = "open"
  /\ pidFile' = "empty"
  /\ Go(c, "write")
  /\ UNCHANGED <<process, portTaken, muddled>>

WriteFile(c) ==
  /\ command[c].at = "write"
  /\ pidFile' = command[c].pid
  /\ Ends(c)
  /\ UNCHANGED <<process, portTaken, muddled>>

\* SIGTERM: a server ends its connections first, and another program does what
\* it likes.
Signalled(p) ==
  [process EXCEPT ![p] = CASE @ = "starting" -> "none"
                           [] @ = "serving" -> "ending"
                           [] OTHER -> @]

\* os.kill fails if the process has ended: `stop` ends, and keeps the file.
Terminate(c) ==
  LET p == command[c].pid IN
  /\ command[c].at = "signal"
  /\ IF Alive(p) THEN process' = Signalled(p) /\ Go(c, "poll")
     ELSE Ends(c) /\ UNCHANGED process
  /\ UNCHANGED <<portTaken, pidFile, muddled>>

\* Slip: it waits as long as it takes.
PollsUncounted(c) == command[c].polls

PollsCounted(c) == command[c].polls + 1

Poll(c) ==
  /\ command[c].at = "poll"
  /\ command[c].polls < MaxPolls
  /\ command' = IF Alive(command[c].pid) THEN [command EXCEPT ![c].polls = PollsCounted(c)]
                ELSE [command EXCEPT ![c].at = "unlink"]
  /\ UNCHANGED <<process, portTaken, pidFile, muddled>>

\* Slip: SIGTERM once more.
TerminateAgain(c) == process' = Signalled(command[c].pid)

\* A process that ended meanwhile is not there to be killed.
SendKill(c) == process' = [process EXCEPT ![command[c].pid] = "none"]

Kill9(c) ==
  /\ command[c].at = "poll"
  /\ command[c].polls = MaxPolls
  /\ SendKill(c)
  /\ Go(c, "unlink")
  /\ UNCHANGED <<portTaken, pidFile, muddled>>

Unlink(c) ==
  /\ command[c].at = "unlink"
  /\ pidFile' = "absent"
  /\ Ends(c)
  /\ UNCHANGED <<process, portTaken, muddled>>

\* The user kills a command.
Abort(c) ==
  /\ command[c] # AtPrompt
  /\ Ends(c)
  /\ muddled' = TRUE
  /\ UNCHANGED <<process, portTaken, pidFile>>

CommandStep(c) ==
  \/ ReadState(c) \/ Probe(c)
  \/ SpawnFails(c) \/ \E p \in Pids : Spawn(c, p)
  \/ OpenFile(c) \/ WriteFile(c)
  \/ Terminate(c) \/ Poll(c) \/ Kill9(c) \/ Unlink(c)

----------------------------------------------------------------------------
\* A server binds its port, or ends because it is taken.
Bind(p) ==
  /\ process[p] = "starting"
  /\ process' = [process EXCEPT ![p] =
       IF portTaken \/ \E q \in Pids : process[q] \in {"serving", "ending"}
         THEN "none" ELSE "serving"]
  /\ UNCHANGED <<portTaken, pidFile, command, muddled>>

\* It ends when it was told to, or crashes; and so do other programs.
ProcessEnds(p) ==
  /\ process[p] # "none"
  /\ process' = [process EXCEPT ![p] = "none"]
  /\ UNCHANGED <<portTaken, pidFile, command, muddled>>

\* The id of a process that has ended is given to another program, which matters
\* while it is known.
Reuse(p) ==
  /\ process[p] = "none"
  /\ p = pidFile \/ \E c \in Shells : p = command[c].pid
  /\ process' = [process EXCEPT ![p] = "another"]
  /\ UNCHANGED <<portTaken, pidFile, command, muddled>>

PortChanges ==
  /\ portTaken \/ \A p \in Pids : process[p] \notin {"serving", "ending"}
  /\ portTaken' = ~portTaken
  /\ UNCHANGED <<process, pidFile, command, muddled>>

ServerNext ==
  \/ \E c \in Shells :
       \/ \E op \in {"start", "stop", "status"} : Enter(c, op)
       \/ CommandStep(c)
       \/ Abort(c)
  \/ \E p \in Pids : Bind(p) \/ ProcessEnds(p) \/ Reuse(p)
  \/ PortChanges

ServerFairness == \A c \in Shells : WF_serverVars(CommandStep(c))

ServerSpec == ServerInit /\ [][ServerNext]_serverVars /\ ServerFairness

----------------------------------------------------------------------------
\* A background server that runs can be found and stopped: it is the one in
\* server.json, and there is no other, whatever crashed, failed to bind or had
\* its id reused in between.  Not so if two commands were under way at once, or
\* one was killed (server_start, server_stop, server_status).
ServerIsRecorded ==
  ~muddled =>
    \A p \in Pids : process[p] \in Servers =>
      \/ pidFile = p
      \/ \E c \in Shells : command[c].pid = p /\ command[c].at \in {"open", "write"}

\* When `stop` has removed the file the server it found there has ended, even one
\* that goes on for as long as its connections do (server_stop).
StopStops ==
  [][\A c \in Shells :
       At(c, "stop", "unlink") /\ command[c].pid # NoPid /\ command'[c] = AtPrompt /\ ~muddled =>
         process[command[c].pid] \notin Servers]_serverVars

\* Every command ends, whatever the server does: the polls are counted
\* (server_stop).
EveryServerCommandEnds ==
  \A c \in Shells : command[c] # AtPrompt ~> command[c] = AtPrompt
=============================================================================
