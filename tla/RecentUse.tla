----------------------------- MODULE RecentUse -----------------------------
(***************************************************************************)
(* TransformService with the history of its cache: in which order requests *)
(* used the projects, whatever the times on disk say of it.  It says what  *)
(* evict owes to the results that were asked for last.                     *)
(***************************************************************************)
EXTENDS TransformService

VARIABLES
  before,  \* the projects that were last used before each project was
  torn     \* the projects that a kill left without the time of their last use,
           \* and that no request has used since

useVars == <<before, torn>>

UseInit == Init /\ before = [k \in Keys |-> {}] /\ torn = {}

\* A request has its result from k, has written its inputs to it or has saved
\* its result there: transform touches the project.
Used(k) ==
  /\ k \in project
  /\ \E t \in Threads : key[t] = k /\ pc[t] \in {"loadTouch", "touch"} /\ pc'[t] # pc[t]

UseServing ==
  /\ Serving
  /\ before' = [k \in Keys |-> IF Used(k) THEN project \ (torn \cup {k})
                               ELSE {j \in before[k] \cap project' : ~Used(j)}]
  /\ torn' = {k \in torn \cap project' : ~Used(k)}

\* Of a project whose metadata.json is missing or truncated nothing is known.
UseRestart ==
  /\ Restart
  /\ torn' = {k \in project : meta[k] # "whole"}
  /\ before' = [k \in Keys |-> IF k \in torn' THEN {} ELSE before[k] \ torn']

UseNext == UseServing \/ UseRestart

UseSpec == UseInit /\ [][UseNext]_<<vars, useVars>>

-----------------------------------------------------------------------------
UseTypeOK == before \in [Keys -> SUBSET Keys] /\ torn \subseteq Keys

UsedAfter(k) == {j \in project : k \in before[j]}

\* A saved result leaves the cache only when MaxProjects projects were used
\* after it (_touch, evict, _last_used_ns).  Not so where a kill tore the
\* metadata of a project: until a request uses that again, evict ranks it by
\* the mtime of its directory, which may put it before or after any other.
RecentResultsStay ==
  [][\A k \in Keys :
       result[k] \in Contents /\ result'[k] \notin Contents
         => \/ k \in torn
            \/ Cardinality(UsedAfter(k) \cup torn) >= MaxProjects]_<<vars, useVars>>
=============================================================================
