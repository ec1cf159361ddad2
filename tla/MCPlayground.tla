----------------------------- MODULE MCPlayground -----------------------------
(***************************************************************************)
(* The page of the web service with two source formats and two requests.   *)
(***************************************************************************)
EXTENDS Playground

CONSTANTS
  ex,      \* an example
  r1, r2   \* requests

MCFormatOf == [e \in Examples |-> "ros"]

\* Bound: a page reloaded while it converted does not convert again.  What the
\* server still does for the request it left touches no other request.
OneAbandoned ==
  (\E s \in Requests : link[s] = "left") => current' \in {current, Nobody}

\* Nothing tells the requests apart: r1 is the first.
InTurn == link[r1] = "none" => link'[r2] = "none"

\* Bound: the second conversion logs one line, which is enough to mix two logs.
OneLine == lines'[r2] <= 1

MCNext == PlaygroundNext /\ OneAbandoned /\ InTurn /\ OneLine

MCSpec == PlaygroundInit /\ [][MCNext]_pgVars /\ Fairness
=============================================================================
