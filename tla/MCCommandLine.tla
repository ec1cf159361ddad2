---------------------------- MODULE MCCommandLine ----------------------------
(***************************************************************************)
(* The commands of the command line that keep something in ~/.rostran,     *)
(* `rostran rules` and `rostran server`, and the requests that share the   *)
(* process of the server.  A behaviour is of one of the three.             *)
(***************************************************************************)
EXTENDS RulesUpdater, ServerLifecycle, ProcessShims

CONSTANTS
  p1, p2,     \* process ids
  c1, c2,     \* shells
  t1, t2, t3  \* threads

\* What the others leave alone is as in one of its initial states.
ServerUnused == ServerInit /\ ~portTaken

ShimsUnused == ShimsInit /\ host = [env |-> [n \in KeyNames |-> "unset"], cli |-> FALSE, file |-> FALSE]

CommandLineNext ==
  \/ ServerUnused /\ ShimsUnused /\ Next /\ UNCHANGED <<serverVars, shimVars>>
  \/ Init /\ ShimsUnused /\ ServerNext /\ UNCHANGED <<vars, shimVars>>
  \/ Init /\ ServerUnused /\ ShimsNext /\ UNCHANGED <<vars, serverVars>>

\* A file with keys is not looked at beside the keys of the Aliyun CLI.
CommandLineInit ==
  /\ Init /\ ServerInit /\ ShimsInit
  /\ ServerUnused \/ ShimsUnused
  /\ ~(host.cli /\ host.file)

CommandLineSpec ==
  /\ CommandLineInit
  /\ [][CommandLineNext]_<<vars, serverVars, shimVars>>
  /\ WF_vars(Progress) /\ ServerFairness
=============================================================================
