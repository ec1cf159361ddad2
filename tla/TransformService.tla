-------------------------- MODULE TransformService --------------------------
(***************************************************************************)
(* rostran/web/service.py: the worker threads that serve Terraform         *)
(* conversions, the persistent project cache they share on disk and the    *)
(* lock around the conversion itself.                                      *)
(*                                                                         *)
(* A thread runs transform(): look for result.json, else prepare the       *)
(* project's in/ and out/ directories, take _transform_lock, convert,      *)
(* release the lock, collect out/, save result.json and evict.  Only the   *)
(* conversion is under the lock: every step on the cache interleaves with  *)
(* those of the other threads.  One action is one call of the file system. *)
(*                                                                         *)
(* A key stands for one conversion (its source files and options), so two  *)
(* requests with one key are identical and must get one answer.  File      *)
(* contents are abstracted to whether they are whole and whether they come *)
(* from the whole input.  The server may be killed between any two steps;  *)
(* the files stay as they are.                                             *)
(***************************************************************************)
EXTENDS Naturals, FiniteSets

CONSTANTS
  Threads,      \* worker threads of asyncio.to_thread
  Keys,         \* cache keys: distinct conversions that clients ask for
  MaxProjects,  \* ROSTRAN_TERRAFORM_CACHE_MAX_PROJECTS
  SharedKeys,   \* the keys that two clients may have in flight at once
  NoThread,     \* the holder of a free lock
  NoKey         \* the key of a thread that never had a request

ASSUME CacheAssumption ==
  /\ MaxProjects \in Nat \ {0}
  /\ IsFiniteSet(Keys)
  /\ SharedKeys \subseteq Keys
  /\ NoThread \notin Threads
  /\ NoKey \notin Keys

VARIABLES
  pc,            \* the next step of each thread
  key,           \* the key of each thread's request
  phase,         \* which of prepare_project and save_result touches and evicts
  got,           \* the targets the thread holds: what it read, wrote or collected
  alone,         \* whether no other request was in flight during the thread's
  answer,        \* what the client of the thread's last request got
  seen,          \* evict: the projects listed, then the ones still to remove
  victim,        \* evict: the project being removed
  toRemove,      \* evict: its entries rmtree has listed and not yet removed
  transformLock, \* the holder of _transform_lock
  project,       \* the keys whose project directory exists
  inDir,         \* in/ of each project
  outDir,        \* out/ of each project
  result,        \* result.json of each project
  meta,          \* metadata.json of each project
  older          \* the projects that the times on disk put before each project

reqVars   == <<key, phase, got, alone>>
evictVars == <<seen, victim, toRemove>>
dirVars   == <<inDir, outDir, result>>
fsVars    == <<project, dirVars, meta, older>>
vars      == <<pc, reqVars, answer, evictVars, transformLock, fsVars>>

Entries == {"input", "in", "out", "result", "meta"}
Contents == {"right", "wrong"}
Answers == {"none", "failed", "lost", "ioError"} \cup Contents
EvictSteps == {"evict", "evictSort", "evictScan", "evictRemove"}
LockedSteps == {"chdir", "convert", "open", "write"}
HoldingSteps == {"loadTouch", "loadWrite", "open", "write", "saveMkdir", "saveOpen", "saveWrite"}
Steps == {"idle", "load", "loadTouch", "loadWrite", "makeProject", "makeIn",
          "clearOut", "removeOut", "makeOut", "truncateIn", "writeIn", "touch",
          "touchWrite", "lock", "collect", "saveMkdir", "saveOpen", "saveWrite"}
           \cup EvictSteps \cup LockedSteps

Init ==
  /\ pc = [t \in Threads |-> "idle"]
  /\ key = [t \in Threads |-> NoKey]
  /\ phase = [t \in Threads |-> "prepare"]
  /\ got = [t \in Threads |-> "none"]
  /\ alone = [t \in Threads |-> FALSE]
  /\ answer = [t \in Threads |-> "none"]
  /\ seen = [t \in Threads |-> {}]
  /\ victim = [t \in Threads |-> NoKey]
  /\ toRemove = [t \in Threads |-> {}]
  /\ transformLock = NoThread
  /\ project = {}
  /\ inDir = [k \in Keys |-> "absent"]
  /\ outDir = [k \in Keys |-> "absent"]
  /\ result = [k \in Keys |-> "absent"]
  /\ meta = [k \in Keys |-> "absent"]
  /\ older = [k \in Keys |-> {}]

-----------------------------------------------------------------------------
Goto(t, step) == pc' = [pc EXCEPT ![t] = step]

\* The thread goes on with its request.
Continue(t, step) == Goto(t, step) /\ UNCHANGED <<reqVars, answer>>

\* The same, with the targets c in hand, in the phase p.
ContinueWith(t, step, p, c) ==
  /\ Goto(t, step)
  /\ phase' = [phase EXCEPT ![t] = p]
  /\ got' = [got EXCEPT ![t] = c]
  /\ UNCHANGED <<key, alone, answer>>

\* The request ends and its client gets a.
Reply(t, a) ==
  /\ Goto(t, "idle")
  /\ key' = [key EXCEPT ![t] = NoKey]
  /\ phase' = [phase EXCEPT ![t] = "prepare"]
  /\ got' = [got EXCEPT ![t] = "none"]
  /\ alone' = [alone EXCEPT ![t] = FALSE]
  /\ answer' = [answer EXCEPT ![t] = a]

(***************************************************************************)
(* The time of a project (_last_used_ns) is the one its metadata.json has, *)
(* or else the mtime of its directory.  Clocks are abstracted to the order *)
(* of these times.                                                         *)
(***************************************************************************)
TimedByDir(k) == meta[k] # "whole"

\* The time of k is now the next after those of S.
Placed(k, S) ==
  [j \in Keys |-> IF j = k THEN S
                 ELSE IF j \in project \ S THEN older[j] \cup {k}
                 ELSE older[j] \ {k}]

Latest(k) == Placed(k, project \ {k})

\* An entry is put into the directory of k or removed from it.
DirChanges(k) == older' = IF TimedByDir(k) THEN Latest(k) ELSE older

MakeDir(k) == project' = project \cup {k} /\ UNCHANGED meta

Busy(t) == pc[t] # "idle"

(***************************************************************************)
(* A request for k reaches a thread.                                       *)
(***************************************************************************)
Begin(t, k) ==
  /\ pc[t] = "idle"
  /\ k \in SharedKeys \/ \A u \in Threads : Busy(u) => key[u] # k
  /\ Goto(t, "load")
  /\ key' = [key EXCEPT ![t] = k]
  /\ alone' = [u \in Threads |-> u = t /\ \A v \in Threads : ~Busy(v)]
  /\ answer' = [answer EXCEPT ![t] = "none"]
  /\ UNCHANGED <<phase, got, evictVars, transformLock, fsVars>>

\* Slip: the result is saved but never looked for.
LoadNothing(t) ==
  /\ pc[t] = "load"
  /\ Continue(t, "makeProject")
  /\ UNCHANGED <<evictVars, transformLock, fsVars>>

(***************************************************************************)
(* load_result: a missing or unparseable result.json is a miss.            *)
(***************************************************************************)
LoadResult(t) ==
  /\ pc[t] = "load"
  /\ IF result[key[t]] \in Contents
       THEN ContinueWith(t, "loadTouch", "prepare", result[key[t]])
       ELSE Continue(t, "makeProject")
  /\ UNCHANGED <<evictVars, transformLock, fsVars>>

(***************************************************************************)
(* _touch: write_text truncates metadata.json, or makes it, and writes the *)
(* time into it.  It fails if the project has been evicted; what is        *)
(* written to a file unlinked meanwhile is lost.  Truncating it does not   *)
(* change the directory: its mtime is any time until now.                  *)
(***************************************************************************)
OpenMeta(k) ==
  /\ meta' = [meta EXCEPT ![k] = "partial"]
  /\ \/ meta[k] = "absent" /\ older' = Latest(k)
     \/ meta[k] = "partial" /\ UNCHANGED older
     \/ /\ meta[k] = "whole"
        /\ \E S \in SUBSET (project \ {k}) :
             /\ \A j \in S : older[j] \subseteq S \cup {k}
             /\ older' = Placed(k, S)

WriteMeta(k) ==
  IF meta[k] = "absent"
    THEN UNCHANGED <<meta, older>>
    ELSE /\ meta' = [meta EXCEPT ![k] = "whole"]
         /\ older' = Latest(k)

\* Slip: a hit is no use of the project.
LoadUntouched(t) ==
  /\ pc[t] = "loadTouch"
  /\ Reply(t, got[t])
  /\ UNCHANGED <<evictVars, transformLock, fsVars>>

\* The touch that follows a hit is outside the try.
LoadTouch(t) ==
  LET k == key[t] IN
  /\ pc[t] = "loadTouch"
  /\ IF k \in project
       THEN Continue(t, "loadWrite") /\ OpenMeta(k)
       ELSE Reply(t, "ioError") /\ UNCHANGED <<meta, older>>
  /\ UNCHANGED <<evictVars, transformLock, project, dirVars>>

LoadTouchWrite(t) ==
  /\ pc[t] = "loadWrite"
  /\ Reply(t, got[t])
  /\ WriteMeta(key[t])
  /\ UNCHANGED <<evictVars, transformLock, project, dirVars>>

(***************************************************************************)
(* prepare_project: the project and its in/ may exist already, out/ is     *)
(* made anew and the inputs are written over.                              *)
(***************************************************************************)
MakeProject(t) ==
  /\ pc[t] = "makeProject"
  /\ MakeDir(key[t])
  /\ IF key[t] \in project THEN UNCHANGED older ELSE DirChanges(key[t])
  /\ Continue(t, "makeIn")
  /\ UNCHANGED <<evictVars, transformLock, dirVars>>

MakeIn(t) ==
  LET k == key[t] IN
  /\ pc[t] = "makeIn"
  /\ IF k \in project
       THEN /\ Continue(t, "clearOut")
            /\ inDir' = [inDir EXCEPT ![k] = IF @ = "absent" THEN "empty" ELSE @]
            /\ IF inDir[k] = "absent" THEN DirChanges(k) ELSE UNCHANGED older
       ELSE /\ Reply(t, "ioError")
            /\ UNCHANGED <<inDir, older>>
  /\ UNCHANGED <<evictVars, transformLock, project, outDir, result, meta>>

\* Slip: the outputs of an earlier run are not cleared.
KeepOut(t) ==
  /\ pc[t] = "clearOut"
  /\ Continue(t, "makeOut")
  /\ UNCHANGED <<evictVars, transformLock, fsVars>>

\* rmtree(out_dir) unlinks the files, then removes the directory.
ClearOut(t) ==
  LET k == key[t] IN
  /\ pc[t] = "clearOut"
  /\ IF outDir[k] = "absent"
       THEN Continue(t, "makeOut") /\ UNCHANGED outDir
       ELSE /\ Continue(t, "removeOut")
            /\ outDir' = [outDir EXCEPT ![k] = "empty"]
  /\ UNCHANGED <<evictVars, transformLock, project, inDir, result, meta, older>>

RemoveOut(t) ==
  LET k == key[t] IN
  /\ pc[t] = "removeOut"
  /\ IF outDir[k] = "empty"
       THEN /\ Continue(t, "makeOut")
            /\ outDir' = [outDir EXCEPT ![k] = "absent"]
            /\ DirChanges(k)
       ELSE /\ Reply(t, "ioError")
            /\ UNCHANGED <<outDir, older>>
  /\ UNCHANGED <<evictVars, transformLock, project, inDir, result, meta>>

MakeOut(t) ==
  LET k == key[t] IN
  /\ pc[t] = "makeOut"
  /\ IF k \in project /\ outDir[k] = "absent"
       THEN /\ Continue(t, "truncateIn")
            /\ outDir' = [outDir EXCEPT ![k] = "empty"]
            /\ DirChanges(k)
       ELSE /\ Reply(t, "ioError")
            /\ UNCHANGED <<outDir, older>>
  /\ UNCHANGED <<evictVars, transformLock, project, inDir, result, meta>>

\* Slip: inputs that are there already are not written again.
KeepIn(t) ==
  LET k == key[t] IN
  /\ pc[t] = "truncateIn"
  /\ IF inDir[k] = "empty"
       THEN /\ Continue(t, "writeIn")
            /\ inDir' = [inDir EXCEPT ![k] = "partial"]
       ELSE /\ Continue(t, "touch")
            /\ UNCHANGED inDir
  /\ UNCHANGED <<evictVars, transformLock, project, outDir, result, meta, older>>

\* _write_input_files makes the missing parents of a file, project (which has
\* no in/ either) included, and opening a file for writing truncates it.
TruncateIn(t) ==
  LET k == key[t] IN
  /\ pc[t] = "truncateIn"
  /\ Continue(t, "writeIn")
  /\ MakeDir(k)
  /\ IF inDir[k] = "absent" THEN DirChanges(k) ELSE UNCHANGED older
  /\ inDir' = [inDir EXCEPT ![k] = "partial"]
  /\ UNCHANGED <<evictVars, transformLock, outDir, result>>

\* What is written to a file unlinked meanwhile is lost; while in/ is being
\* removed some of the files written may be gone already.
WriteIn(t) ==
  LET k == key[t]
      removing == \E u \in Threads : pc[u] = "evictRemove" /\ victim[u] = k
  IN
  /\ pc[t] = "writeIn"
  /\ Continue(t, "touch")
  /\ \/ /\ inDir[k] = "partial"
        /\ inDir' = [inDir EXCEPT ![k] = "full"]
     \/ /\ inDir[k] # "partial" \/ removing
        /\ UNCHANGED inDir
  /\ UNCHANGED <<evictVars, transformLock, project, outDir, result, meta, older>>

-----------------------------------------------------------------------------
(***************************************************************************)
(* _touch and evict at the end of prepare_project and of save_result.      *)
(***************************************************************************)
Touch(t) ==
  LET k == key[t] IN
  /\ pc[t] = "touch"
  /\ IF k \in project
       THEN Continue(t, "touchWrite") /\ OpenMeta(k)
       ELSE Reply(t, "ioError") /\ UNCHANGED <<meta, older>>
  /\ UNCHANGED <<evictVars, transformLock, project, dirVars>>

TouchWrite(t) ==
  /\ pc[t] = "touchWrite"
  /\ Continue(t, "evict")
  /\ WriteMeta(key[t])
  /\ UNCHANGED <<evictVars, transformLock, project, dirVars>>

\* After evict: prepare_project returns to the conversion, save_result to the
\* client.
Return(t) ==
  IF phase[t] = "prepare"
    THEN Continue(t, "lock")
    ELSE Reply(t, got[t])

EvictList(t) ==
  /\ pc[t] = "evict"
  /\ IF Cardinality(project) <= MaxProjects
       THEN Return(t) /\ UNCHANGED seen
       ELSE /\ Continue(t, "evictSort")
            /\ seen' = [seen EXCEPT ![t] = project]
  /\ UNCHANGED <<victim, toRemove, transformLock, fsVars>>

\* Slip: one project too many is kept.
TooFewVictims(S) ==
  {k \in S : Cardinality({j \in S : k \in older[j]}) > MaxProjects}

\* The projects of S that at least MaxProjects others were used after.
Victims(S) ==
  {k \in S : Cardinality({j \in S : k \in older[j]}) >= MaxProjects}

\* _last_used_ns falls back on stat, which fails for a directory that is gone.
EvictSort(t) ==
  /\ pc[t] = "evictSort"
  /\ IF seen[t] \subseteq project
       THEN /\ Continue(t, "evictScan")
            /\ seen' = [seen EXCEPT ![t] = Victims(@)]
       ELSE /\ Reply(t, "ioError")
            /\ seen' = [seen EXCEPT ![t] = {}]
  /\ UNCHANGED <<victim, toRemove, transformLock, fsVars>>

EntriesOf(k) ==
  {e \in Entries : \/ e = "input" /\ inDir[k] = "full"
                   \/ e = "in" /\ inDir[k] # "absent"
                   \/ e = "out" /\ outDir[k] # "absent"
                   \/ e = "result" /\ result[k] # "absent"
                   \/ e = "meta" /\ meta[k] # "absent"}

\* rmtree(project, ignore_errors=True) lists the entries of the next victim.
EvictScan(t) ==
  /\ pc[t] = "evictScan"
  /\ \/ /\ seen[t] = {}
        /\ Return(t)
        /\ UNCHANGED evictVars
     \/ \E k \in seen[t] :
          /\ Continue(t, "evictRemove")
          /\ seen' = [seen EXCEPT ![t] = @ \ {k}]
          /\ victim' = [victim EXCEPT ![t] = k]
          /\ toRemove' = [toRemove EXCEPT ![t] = EntriesOf(k)]
  /\ UNCHANGED <<transformLock, fsVars>>

\* It removes them one after the other, a source file before the rest of in/;
\* in/ stays if a request under way has put a file back.
EvictEntry(t) ==
  LET k == victim[t]
      inUse == \E u \in Threads \ {t} : Busy(u) /\ key[u] = k
      left(e) == CASE e = "input" /\ inDir[k] = "full" -> {"partial"}
                   [] e = "in" -> {"absent"} \cup (IF inUse THEN {inDir[k]} \ {"empty"} ELSE {})
                   [] OTHER -> {inDir[k]}
  IN
  /\ pc[t] = "evictRemove"
  /\ \E e \in toRemove[t] :
       /\ e = "in" => "input" \notin toRemove[t]
       /\ toRemove' = [toRemove EXCEPT ![t] = @ \ {e}]
       /\ \E l \in left(e) : inDir' = [inDir EXCEPT ![k] = l]
       /\ outDir' = IF e = "out" THEN [outDir EXCEPT ![k] = "absent"] ELSE outDir
       /\ result' = IF e = "result" THEN [result EXCEPT ![k] = "absent"] ELSE result
       /\ meta' = IF e = "meta" THEN [meta EXCEPT ![k] = "absent"] ELSE meta
       /\ LET changes == e \in EntriesOf(k) \ {"input"} /\ (e = "in" => inDir'[k] = "absent") IN
          older' = IF changes /\ (TimedByDir(k) \/ e = "meta") THEN Latest(k) ELSE older
  /\ UNCHANGED <<pc, reqVars, answer, seen, victim, transformLock, project>>

\* and then the directory, unless something was put into it meanwhile.
EvictRmdir(t) ==
  LET k == victim[t] IN
  /\ pc[t] = "evictRemove"
  /\ toRemove[t] = {}
  /\ Continue(t, "evictScan")
  /\ IF EntriesOf(k) = {}
       THEN /\ project' = project \ {k}
            /\ older' = [j \in Keys |-> IF j = k THEN {} ELSE older[j] \ {k}]
       ELSE UNCHANGED <<project, older>>
  /\ victim' = [victim EXCEPT ![t] = NoKey]
  /\ UNCHANGED <<seen, toRemove, transformLock, dirVars, meta>>

-----------------------------------------------------------------------------
(***************************************************************************)
(* _run_transform_workspace: the conversion, under _transform_lock.        *)
(***************************************************************************)
AcquireLock(t) ==
  /\ pc[t] = "lock"
  /\ transformLock = NoThread
  /\ transformLock' = t
  /\ Continue(t, "chdir")
  /\ UNCHANGED <<evictVars, fsVars>>

Release == transformLock' = NoThread

Chdir(t) ==
  /\ pc[t] = "chdir"
  /\ IF key[t] \in project
       THEN Continue(t, "convert") /\ UNCHANGED transformLock
       ELSE Reply(t, "ioError") /\ Release
  /\ UNCHANGED <<evictVars, fsVars>>

\* Slip: the lock is kept when the source is refused.
ConvertKeepsLock(t) ==
  LET k == key[t] IN
  /\ pc[t] = "convert"
  /\ inDir[k] # "absent" /\ outDir[k] # "absent"
  /\ \/ Reply(t, "failed")
     \/ ContinueWith(t, "open", "prepare", "right")
  /\ UNCHANGED <<transformLock, evictVars, fsVars>>

\* The command finds its source and the target's directory, or ends with
\* TemplateNotExist or PathNotExist; then it reads the source, which may be
\* refused (failed).
Convert(t) ==
  LET k == key[t] IN
  /\ pc[t] = "convert"
  /\ \/ /\ inDir[k] = "absent" \/ outDir[k] = "absent"
        /\ Reply(t, "lost")
        /\ Release
     \/ /\ inDir[k] # "absent" /\ outDir[k] # "absent"
        /\ Reply(t, "failed")
        /\ Release
     \/ /\ inDir[k] # "absent" /\ outDir[k] # "absent"
        /\ ContinueWith(t, "open", "prepare", IF inDir[k] = "full" THEN "right" ELSE "wrong")
        /\ UNCHANGED transformLock
  /\ UNCHANGED <<evictVars, fsVars>>

\* RosTemplate.save: open for writing, then dump.
OpenTarget(t) ==
  LET k == key[t] IN
  /\ pc[t] = "open"
  /\ IF outDir[k] = "absent"
       THEN /\ Reply(t, "lost")
            /\ Release
            /\ UNCHANGED outDir
       ELSE /\ Continue(t, "write")
            /\ outDir' = [outDir EXCEPT ![k] = "partial"]
            /\ UNCHANGED transformLock
  /\ UNCHANGED <<evictVars, project, inDir, result, meta, older>>

WriteTarget(t) ==
  LET k == key[t] IN
  /\ pc[t] = "write"
  /\ outDir' = [outDir EXCEPT ![k] = IF @ = "partial" THEN got[t] ELSE @]
  /\ Continue(t, "collect")
  /\ Release
  /\ UNCHANGED <<evictVars, project, inDir, result, meta, older>>

\* _collect_outputs, after the lock is released: no file is EmptyOutput.
CollectOutputs(t) ==
  LET k == key[t] IN
  /\ pc[t] = "collect"
  /\ IF outDir[k] \in {"absent", "empty"}
       THEN Reply(t, "lost")
       ELSE ContinueWith(t, "saveMkdir", "save", IF outDir[k] = "right" THEN "right" ELSE "wrong")
  /\ UNCHANGED <<evictVars, transformLock, fsVars>>

(***************************************************************************)
(* save_result: write_text truncates result.json and writes it.            *)
(***************************************************************************)
SaveMkdir(t) ==
  /\ pc[t] = "saveMkdir"
  /\ MakeDir(key[t])
  /\ IF key[t] \in project THEN UNCHANGED older ELSE DirChanges(key[t])
  /\ Continue(t, "saveOpen")
  /\ UNCHANGED <<evictVars, transformLock, dirVars>>

SaveOpen(t) ==
  LET k == key[t] IN
  /\ pc[t] = "saveOpen"
  /\ IF k \in project
       THEN /\ Continue(t, "saveWrite")
            /\ result' = [result EXCEPT ![k] = "partial"]
            /\ IF result[k] = "absent" THEN DirChanges(k) ELSE UNCHANGED older
       ELSE /\ Reply(t, "ioError")
            /\ UNCHANGED <<result, older>>
  /\ UNCHANGED <<evictVars, transformLock, project, inDir, outDir, meta>>

SaveWrite(t) ==
  LET k == key[t] IN
  /\ pc[t] = "saveWrite"
  /\ result' = [result EXCEPT ![k] = IF @ = "absent" THEN @ ELSE got[t]]
  /\ Continue(t, "touch")
  /\ UNCHANGED <<evictVars, transformLock, project, inDir, outDir, meta, older>>

-----------------------------------------------------------------------------
(***************************************************************************)
(* server.run ends in os._exit(0), whatever the threads are doing, and the *)
(* process may be killed: the files stay, all else starts afresh.          *)
(***************************************************************************)
Restart ==
  /\ \E t \in Threads : Busy(t)
  /\ pc' = [t \in Threads |-> "idle"]
  /\ key' = [t \in Threads |-> NoKey]
  /\ phase' = [t \in Threads |-> "prepare"]
  /\ got' = [t \in Threads |-> "none"]
  /\ alone' = [t \in Threads |-> FALSE]
  /\ answer' = [t \in Threads |-> "none"]
  /\ seen' = [t \in Threads |-> {}]
  /\ victim' = [t \in Threads |-> NoKey]
  /\ toRemove' = [t \in Threads |-> {}]
  /\ transformLock' = NoThread
  /\ UNCHANGED fsVars

Load(t) == LoadResult(t) \/ LoadTouch(t) \/ LoadTouchWrite(t)

Prepare(t) ==
  \/ MakeProject(t) \/ MakeIn(t) \/ ClearOut(t) \/ RemoveOut(t) \/ MakeOut(t)
  \/ TruncateIn(t) \/ WriteIn(t)

TouchEvict(t) ==
  \/ Touch(t) \/ TouchWrite(t) \/ EvictList(t) \/ EvictSort(t) \/ EvictScan(t)
  \/ EvictEntry(t) \/ EvictRmdir(t)

Locked(t) == Chdir(t) \/ Convert(t) \/ OpenTarget(t) \/ WriteTarget(t)

Save(t) == SaveMkdir(t) \/ SaveOpen(t) \/ SaveWrite(t)

Work(t) ==
  \/ Load(t) \/ Prepare(t) \/ TouchEvict(t)
  \/ AcquireLock(t) \/ Locked(t) \/ CollectOutputs(t) \/ Save(t)

Serving == \E t \in Threads : Work(t) \/ \E k \in Keys : Begin(t, k)

Next == Serving \/ Restart

Spec == Init /\ [][Next]_vars

\* Threads run until their request is answered, and one that waits for
\* _transform_lock gets it if it is free again and again.
Fairness == \A t \in Threads : WF_vars(Work(t)) /\ SF_vars(AcquireLock(t))

FairSpec == Spec /\ Fairness

-----------------------------------------------------------------------------
\* A thread with a request has its key, one with targets to give or to write
\* has those, one that removes a project has that.
RequestTypes ==
  /\ pc \in [Threads -> Steps]
  /\ key \in [Threads -> Keys \cup {NoKey}]
  /\ phase \in [Threads -> {"prepare", "save"}]
  /\ got \in [Threads -> Contents \cup {"none"}]
  /\ alone \in [Threads -> BOOLEAN]
  /\ answer \in [Threads -> Answers]
  /\ \A t \in Threads : Busy(t) => key[t] \in Keys
  /\ \A t \in Threads : pc[t] \in HoldingSteps => got[t] \in Contents

EvictTypes ==
  /\ seen \in [Threads -> SUBSET Keys]
  /\ victim \in [Threads -> Keys \cup {NoKey}]
  /\ toRemove \in [Threads -> SUBSET Entries]
  /\ transformLock \in Threads \cup {NoThread}
  /\ \A t \in Threads : pc[t] = "evictRemove" => victim[t] \in Keys

DiskTypes ==
  /\ project \subseteq Keys
  /\ inDir \in [Keys -> {"absent", "empty", "partial", "full"}]
  /\ outDir \in [Keys -> {"absent", "empty", "partial"} \cup Contents]
  /\ result \in [Keys -> {"absent", "partial"} \cup Contents]
  /\ meta \in [Keys -> {"absent", "partial", "whole"}]
  /\ older \in [Keys -> SUBSET Keys]

TypeOK == RequestTypes /\ EvictTypes /\ DiskTypes

\* No client is given targets that were converted from less than its sources,
\* or less than all of the targets (transform, _collect_outputs, load_result):
\* neither another request's steps nor what a killed server left behind show.
AnswersAreRight ==
  \A t \in Threads : answer[t] \in {"none", "right", "failed", "lost", "ioError"}

\* No request fails for want of the directories and files that its own thread
\* has just made (EmptyOutput, PathNotExist, FileExistsError, ...).
NoSpuriousFailure == \A t \in Threads : answer[t] \notin {"lost", "ioError"}

\* A conversion whose result is saved is not run again: repeated identical
\* conversions are served from the cache.
SavedIsReused ==
  [][\A t \in Threads : Convert(t) => result[key[t]] \notin Contents]_vars

\* Whatever fails on the way, every request is answered: no thread is left
\* waiting for _transform_lock.
EveryRequestEnds == \A t \in Threads : Busy(t) ~> ~Busy(t)

\* The lock is held exactly by the thread that converts, so that one working
\* directory and one redirected output serve at a time, and it is free when
\* that thread has ended in whatever way (_run_transform_workspace).
LockHeldWhileConverting ==
  \A t \in Threads : transformLock = t <=> pc[t] \in LockedSteps

\* Whatever overlapping requests, evictions and kills have left on disk, a
\* request that then runs alone is converted from whole inputs and does not
\* fail for want of files; only a wrong result saved earlier can show.
SoloRequestIsServed ==
  [][\A t \in Threads :
       alone[t] /\ pc'[t] = "idle"
         => \/ answer'[t] \in {"none", "right", "failed"}
            \/ pc[t] = "loadWrite" /\ answer'[t] = "wrong"]_vars

\* and it starts its conversion with at most MaxProjects projects on disk.
CleanedUp ==
  \A t \in Threads :
    alone[t] /\ pc[t] = "lock" => Cardinality(project) <= MaxProjects

\* The service seen from outside: see ConversionService.
Abs == INSTANCE ConversionService WITH
  request <- key,
  reply <- answer,
  published <- {k \in Keys : result[k] = "right"}

\* The cached, threaded service does what ConversionService promises.
ImplementsConversionService == Abs!Spec
=============================================================================
