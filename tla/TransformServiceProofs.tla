----------------------- MODULE TransformServiceProofs -----------------------
(***************************************************************************)
(* Theorems about TransformService, for all threads, keys and cache sizes. *)
(***************************************************************************)
EXTENDS RecentUse, FiniteSetTheorems, WellFoundedInduction, TLAPS

(***************************************************************************)
(* The variables keep their types.  What a step does to the request of its *)
(* thread has one of four forms, whatever it does on disk.                 *)
(***************************************************************************)
LEMMA ContinueTypes ==
  ASSUME RequestTypes, NEW t \in Threads, Busy(t),
         NEW s \in Steps, s \in HoldingSteps => got[t] \in Contents, Continue(t, s)
  PROVE  RequestTypes'
  BY DEF RequestTypes, Busy, Continue, Goto, reqVars

LEMMA ContinueWithTypes ==
  ASSUME RequestTypes, NEW t \in Threads, Busy(t),
         NEW s \in Steps, NEW p \in {"prepare", "save"}, NEW c \in Contents,
         ContinueWith(t, s, p, c)
  PROVE  RequestTypes'
  BY DEF RequestTypes, Busy, ContinueWith, Goto

LEMMA ReplyTypes ==
  ASSUME RequestTypes, NEW t \in Threads, NEW a \in Answers, Reply(t, a)
  PROVE  RequestTypes'
<1>1. "idle" \in Steps
  BY DEF Steps
<1>2. pc' \in [Threads -> Steps] /\ key' \in [Threads -> Keys \cup {NoKey}]
  BY <1>1 DEF RequestTypes, Reply, Goto
<1>3. /\ phase' \in [Threads -> {"prepare", "save"}]
      /\ got' \in [Threads -> Contents \cup {"none"}]
      /\ alone' \in [Threads -> BOOLEAN]
      /\ answer' \in [Threads -> Answers]
  BY DEF RequestTypes, Reply
<1>4. \A u \in Threads : Busy(u)' => key'[u] \in Keys
  BY DEF RequestTypes, Reply, Goto, Busy
<1>5. \A u \in Threads : pc'[u] \in HoldingSteps => got'[u] \in Contents
  BY DEF RequestTypes, Reply, Goto, HoldingSteps
<1>6. QED
  BY <1>2, <1>3, <1>4, <1>5 DEF RequestTypes

\* A new time for k keeps the types of what is on disk.
LEMMA OlderType ==
  ASSUME DiskTypes, NEW k \in Keys,
         older' = older \/ older' = Latest(k) \/ \E S \in SUBSET project : older' = Placed(k, S)
  PROVE  older' \in [Keys -> SUBSET Keys]
  BY DEF DiskTypes, Latest, Placed

LEMMA MetaTypes ==
  ASSUME DiskTypes, NEW k \in Keys, OpenMeta(k) \/ WriteMeta(k) \/ UNCHANGED <<meta, older>>
  PROVE  meta' \in [Keys -> {"absent", "partial", "whole"}] /\ older' \in [Keys -> SUBSET Keys]
<1>1. older' = older \/ older' = Latest(k) \/ \E S \in SUBSET project : older' = Placed(k, S)
  BY DEF OpenMeta, WriteMeta
<1>2. meta' \in [Keys -> {"absent", "partial", "whole"}]
  BY DEF OpenMeta, WriteMeta, DiskTypes
<1>3. QED
  BY <1>1, <1>2, OlderType

\* Only a thread that has a request works.
LEMMA WorkIsBusy ==
  ASSUME NEW t \in Threads, Work(t)
  PROVE  Busy(t)
  BY DEF Work, Load, LoadResult, LoadTouch, LoadTouchWrite, Prepare, MakeProject, MakeIn, ClearOut,
     RemoveOut, MakeOut, TruncateIn, WriteIn, TouchEvict, Touch, TouchWrite, EvictList, EvictSort, EvictScan,
     EvictEntry, EvictRmdir, AcquireLock, Locked, Chdir, Convert, OpenTarget,
     WriteTarget, CollectOutputs, Save, SaveMkdir, SaveOpen, SaveWrite, Busy

LEMMA WorkRequestTypes ==
  ASSUME TypeOK, NEW t \in Threads, Work(t)
  PROVE  RequestTypes'
<1> DEFINE k == key[t]
<1>1. RequestTypes /\ got[t] \in Answers
  BY DEF TypeOK, RequestTypes, Answers
<1>2. Busy(t)
  BY WorkIsBusy
<1>3. {"lost", "failed", "ioError"} \subseteq Answers
  BY DEF Answers
<1>4. Contents = {"right", "wrong"}
  BY DEF Contents
<1>5. CASE \/ \E s \in Steps : (s \in HoldingSteps => pc[t] \in HoldingSteps) /\ Continue(t, s)
           \/ \E s \in Steps, p \in {"prepare", "save"}, c \in Contents : ContinueWith(t, s, p, c)
           \/ \E a \in Answers : Reply(t, a)
           \/ UNCHANGED <<pc, reqVars, answer>>
  <2>1. CASE \E s \in Steps : (s \in HoldingSteps => pc[t] \in HoldingSteps) /\ Continue(t, s)
    BY <1>1, <1>2, <2>1, ContinueTypes DEF RequestTypes
  <2>2. CASE \E s \in Steps, p \in {"prepare", "save"}, c \in Contents : ContinueWith(t, s, p, c)
    BY <1>1, <1>2, <2>2, ContinueWithTypes
  <2>3. CASE \E a \in Answers : Reply(t, a)
    BY <1>1, <2>3, ReplyTypes
  <2>4. CASE UNCHANGED <<pc, reqVars, answer>>
    BY <1>1, <2>4 DEF RequestTypes, reqVars, Busy
  <2>5. QED
    BY <1>5, <2>1, <2>2, <2>3, <2>4
<1>6. CASE Load(t)
  BY <1>1, <1>3, <1>5, <1>6 DEF Load, LoadResult, LoadTouch, LoadTouchWrite, Steps, HoldingSteps
<1>7. CASE Prepare(t)
  BY <1>3, <1>5, <1>7 DEF Prepare, MakeProject, MakeIn, ClearOut, RemoveOut, MakeOut,
     TruncateIn, WriteIn, Steps, HoldingSteps
<1>8. CASE TouchEvict(t)
  BY <1>1, <1>3, <1>5, <1>8 DEF TouchEvict, Touch, TouchWrite, EvictList, EvictSort, EvictScan, EvictEntry,
     EvictRmdir, Return, Steps, EvictSteps, HoldingSteps
<1>9. CASE AcquireLock(t) \/ Locked(t)
  BY <1>3, <1>4, <1>5, <1>9 DEF AcquireLock, Locked, Chdir, Convert, OpenTarget, WriteTarget,
     Steps, LockedSteps, HoldingSteps
<1>10. CASE CollectOutputs(t) \/ Save(t)
  BY <1>3, <1>4, <1>5, <1>10 DEF CollectOutputs, Save, SaveMkdir, SaveOpen, SaveWrite, Steps, HoldingSteps
<1>11. QED
  BY <1>6, <1>7, <1>8, <1>9, <1>10 DEF Work

LEMMA WorkEvictTypes ==
  ASSUME TypeOK, NEW t \in Threads, Work(t)
  PROVE  EvictTypes'
<1>1. EvictTypes /\ RequestTypes /\ DiskTypes
  BY DEF TypeOK
<1>2. CASE Load(t) \/ Prepare(t) \/ CollectOutputs(t) \/ Save(t)
  <2>1. UNCHANGED evictVars /\ UNCHANGED transformLock
    BY <1>2 DEF Load, LoadResult, LoadTouch, LoadTouchWrite, Prepare, MakeProject, MakeIn, ClearOut, RemoveOut,
       MakeOut, TruncateIn, WriteIn, CollectOutputs, Save, SaveMkdir, SaveOpen, SaveWrite
  <2>2. \A u \in Threads : pc'[u] = "evictRemove" => pc[u] = "evictRemove"
    BY <1>1, <1>2 DEF Load, LoadResult, LoadTouch, LoadTouchWrite, Prepare, MakeProject, MakeIn, ClearOut, RemoveOut,
       MakeOut, TruncateIn, WriteIn, CollectOutputs, Save, SaveMkdir, SaveOpen, SaveWrite,
       Continue, ContinueWith, Reply, Goto, RequestTypes
  <2>3. QED
    BY <1>1, <2>1, <2>2 DEF EvictTypes, evictVars
<1>3. CASE AcquireLock(t) \/ Locked(t)
  <2>1. UNCHANGED evictVars /\ transformLock' \in {transformLock, t, NoThread}
    BY <1>3 DEF AcquireLock, Locked, Chdir, Convert, OpenTarget, WriteTarget, Release
  <2>2. \A u \in Threads : pc'[u] = "evictRemove" => pc[u] = "evictRemove"
    BY <1>1, <1>3 DEF AcquireLock, Locked, Chdir, Convert, OpenTarget, WriteTarget,
       Continue, ContinueWith, Reply, Goto, RequestTypes
  <2>3. QED
    BY <1>1, <2>1, <2>2 DEF EvictTypes, evictVars
<1>4. CASE Touch(t) \/ TouchWrite(t) \/ EvictList(t) \/ EvictSort(t)
  <2>1. UNCHANGED <<victim, toRemove, transformLock>> /\ seen' \in [Threads -> SUBSET Keys]
    BY <1>1, <1>4 DEF Touch, TouchWrite, EvictList, EvictSort, Victims, evictVars, EvictTypes, DiskTypes
  <2>2. \A u \in Threads : pc'[u] = "evictRemove" => pc[u] = "evictRemove"
    BY <1>1, <1>4 DEF Touch, TouchWrite, EvictList, EvictSort, Return, Continue, Reply, Goto, RequestTypes
  <2>3. QED
    BY <1>1, <2>1, <2>2 DEF EvictTypes
<1>5. CASE EvictScan(t)
  <2>1. CASE Return(t) /\ UNCHANGED evictVars
    BY <1>1, <1>5, <2>1 DEF EvictScan, Return, Continue, Reply, Goto, RequestTypes, EvictTypes,
       evictVars
  <2>2. ASSUME NEW k \in seen[t],
               Continue(t, "evictRemove"),
               seen' = [seen EXCEPT ![t] = @ \ {k}],
               victim' = [victim EXCEPT ![t] = k],
               toRemove' = [toRemove EXCEPT ![t] = EntriesOf(k)],
               UNCHANGED transformLock
        PROVE  EvictTypes'
    <3>1. k \in Keys /\ EntriesOf(k) \subseteq Entries
      BY <1>1 DEF EvictTypes, EntriesOf
    <3>2. seen' \in [Threads -> SUBSET Keys] /\ toRemove' \in [Threads -> SUBSET Entries]
      BY <1>1, <2>2, <3>1 DEF EvictTypes
    <3>3. \A u \in Threads : pc'[u] = "evictRemove" => victim'[u] \in Keys
      BY <1>1, <2>2, <3>1 DEF EvictTypes, RequestTypes, Continue, Goto
    <3>4. QED
      BY <1>1, <2>2, <3>1, <3>2, <3>3 DEF EvictTypes
  <2>3. QED
    BY <1>5, <2>1, <2>2 DEF EvictScan
<1>6. CASE EvictEntry(t)
  BY <1>1, <1>6 DEF EvictEntry, EvictTypes
<1>7. CASE EvictRmdir(t)
  BY <1>1, <1>7 DEF EvictRmdir, EvictTypes, Continue, Goto, RequestTypes
<1>8. QED
  BY <1>2, <1>3, <1>4, <1>5, <1>6, <1>7 DEF Work, TouchEvict

LEMMA WorkDiskTypes ==
  ASSUME TypeOK, NEW t \in Threads, Work(t)
  PROVE  DiskTypes'
<1> DEFINE k == key[t]
<1>1. EvictTypes /\ RequestTypes /\ DiskTypes
  BY DEF TypeOK
<1>2. Busy(t) /\ k \in Keys
  BY <1>1, WorkIsBusy DEF RequestTypes
<1>3. pc[t] \in HoldingSteps => got[t] \in Contents
  BY <1>1 DEF RequestTypes
<1>4. CASE UNCHANGED fsVars
  BY <1>1, <1>4 DEF DiskTypes, fsVars, dirVars
<1>5. CASE Load(t) \/ Touch(t) \/ TouchWrite(t)
  <2>1. CASE LoadResult(t)
    BY <1>4, <2>1 DEF LoadResult
  <2>2. CASE LoadTouch(t) \/ LoadTouchWrite(t) \/ Touch(t) \/ TouchWrite(t)
    <3>1. /\ OpenMeta(k) \/ WriteMeta(k) \/ UNCHANGED <<meta, older>>
          /\ UNCHANGED <<project, inDir, outDir, result>>
      BY <2>2 DEF LoadTouch, LoadTouchWrite, Touch, TouchWrite, dirVars
    <3>2. QED
      BY <1>1, <1>2, <3>1, MetaTypes DEF DiskTypes
  <2>3. QED
    BY <1>5, <2>1, <2>2 DEF Load
<1>6. ASSUME UNCHANGED meta, project' \subseteq Keys,
             older' = older \/ older' = Latest(k),
             inDir' \in [Keys -> {"absent", "empty", "partial", "full"}],
             outDir' \in [Keys -> {"absent", "empty", "partial"} \cup Contents],
             result' \in [Keys -> {"absent", "partial"} \cup Contents]
      PROVE  DiskTypes'
  BY <1>1, <1>2, <1>6, OlderType DEF DiskTypes
<1>7. CASE Prepare(t)
  <2>1. CASE MakeProject(t) \/ TruncateIn(t)
    BY <1>1, <1>2, <1>6, <2>1 DEF MakeProject, TruncateIn, MakeDir, DirChanges, DiskTypes, dirVars
  <2>2. CASE MakeIn(t) \/ RemoveOut(t) \/ MakeOut(t)
    BY <1>1, <1>2, <1>6, <2>2 DEF MakeIn, RemoveOut, MakeOut, DirChanges, DiskTypes
  <2>3. CASE ClearOut(t) \/ WriteIn(t)
    BY <1>1, <1>2, <1>6, <2>3 DEF ClearOut, WriteIn, DiskTypes
  <2>4. QED
    BY <1>7, <2>1, <2>2, <2>3 DEF Prepare
<1>8. CASE EvictList(t) \/ EvictSort(t) \/ EvictScan(t)
  BY <1>4, <1>8 DEF EvictList, EvictSort, EvictScan
<1>9. CASE EvictEntry(t)
  <2>1. victim[t] \in Keys /\ (older' = older \/ older' = Latest(victim[t]))
    BY <1>1, <1>9 DEF EvictEntry, EvictTypes
  <2>2. older' \in [Keys -> SUBSET Keys]
    BY <1>1, <2>1, OlderType
  <2>3. /\ project' \subseteq Keys
        /\ inDir' \in [Keys -> {"absent", "empty", "partial", "full"}]
        /\ outDir' \in [Keys -> {"absent", "empty", "partial"} \cup Contents]
        /\ result' \in [Keys -> {"absent", "partial"} \cup Contents]
        /\ meta' \in [Keys -> {"absent", "partial", "whole"}]
    BY <1>1, <1>9, <2>1 DEF EvictEntry, DiskTypes
  <2>4. QED
    BY <2>2, <2>3 DEF DiskTypes
<1>10. CASE EvictRmdir(t)
  BY <1>1, <1>10 DEF EvictRmdir, DiskTypes, dirVars
<1>11. CASE AcquireLock(t) \/ Locked(t)
  BY <1>1, <1>2, <1>3, <1>4, <1>11 DEF AcquireLock, Locked, Chdir, Convert, OpenTarget,
     WriteTarget, DiskTypes, HoldingSteps
<1>12. CASE CollectOutputs(t) \/ SaveWrite(t)
  BY <1>1, <1>2, <1>3, <1>4, <1>12 DEF CollectOutputs, SaveWrite, DiskTypes, HoldingSteps
<1>13. CASE SaveMkdir(t) \/ SaveOpen(t)
  BY <1>1, <1>2, <1>6, <1>13 DEF SaveMkdir, SaveOpen, MakeDir, DirChanges, DiskTypes, dirVars
<1>14. QED
  BY <1>5, <1>7, <1>8, <1>9, <1>10, <1>11, <1>12, <1>13 DEF Work, TouchEvict, Save

LEMMA InitTypes == Init => TypeOK
  BY CacheAssumption DEF Init, TypeOK, RequestTypes, EvictTypes, DiskTypes, Steps, Answers,
     HoldingSteps, Busy

\* Every variable keeps its type, whatever requests overlap and whenever the
\* server is killed.
THEOREM TypeCorrect == Spec => []TypeOK
<1>1. TypeOK /\ [Next]_vars => TypeOK'
  <2> SUFFICES ASSUME TypeOK, [Next]_vars
               PROVE  TypeOK'
    OBVIOUS
  <2>1. CASE \E t \in Threads : Work(t)
    BY <2>1, WorkRequestTypes, WorkEvictTypes, WorkDiskTypes DEF TypeOK
  <2>2. ASSUME NEW t \in Threads, NEW k \in Keys, Begin(t, k)
        PROVE  TypeOK'
    BY <2>2 DEF Begin, Goto, Busy, TypeOK, RequestTypes, EvictTypes, DiskTypes, Steps, Answers, HoldingSteps,
       evictVars, fsVars, dirVars
  <2>3. CASE Restart
    BY <2>3 DEF Restart, Busy, TypeOK, RequestTypes, EvictTypes, DiskTypes, Steps, Answers, HoldingSteps,
       fsVars, dirVars
  <2>4. CASE UNCHANGED vars
    BY <2>4 DEF vars, reqVars, evictVars, fsVars, dirVars, Busy, TypeOK, RequestTypes,
       EvictTypes, DiskTypes
  <2>5. QED
    BY <2>1, <2>2, <2>3, <2>4 DEF Next, Serving
<1>2. QED
  BY <1>1, InitTypes, PTL DEF Spec

-----------------------------------------------------------------------------
\* The lock and the steps under it go together for every number of threads,
\* whichever of them fail and whenever the server is killed.
THEOREM LockExclusive == Spec => []LockHeldWhileConverting
<1>1. Init => LockHeldWhileConverting
  BY CacheAssumption DEF Init, LockHeldWhileConverting, LockedSteps
<1>2. TypeOK /\ LockHeldWhileConverting /\ [Next]_vars => LockHeldWhileConverting'
  <2> SUFFICES ASSUME TypeOK, LockHeldWhileConverting, [Next]_vars
               PROVE  LockHeldWhileConverting'
    OBVIOUS
  <2>1. pc \in [Threads -> Steps] /\ NoThread \notin Threads
    BY CacheAssumption DEF TypeOK, RequestTypes
  <2>2. ASSUME NEW t \in Threads, AcquireLock(t)
        PROVE  LockHeldWhileConverting'
    BY <2>1, <2>2 DEF AcquireLock, Continue, Goto, LockHeldWhileConverting, LockedSteps
  <2>3. ASSUME NEW t \in Threads, Locked(t)
        PROVE  LockHeldWhileConverting'
    BY <2>1, <2>3 DEF Locked, Chdir, Convert, OpenTarget, WriteTarget, Continue, ContinueWith,
       Reply, Goto, Release, LockHeldWhileConverting, LockedSteps
  <2>4. ASSUME NEW t \in Threads, UNCHANGED transformLock,
               \/ UNCHANGED pc
               \/ pc[t] \notin LockedSteps /\ \E s \in Steps \ LockedSteps : Goto(t, s)
        PROVE  LockHeldWhileConverting'
    BY <2>1, <2>4 DEF Goto, LockHeldWhileConverting
  <2>5. ASSUME NEW t \in Threads, Load(t) \/ Prepare(t)
        PROVE  LockHeldWhileConverting'
    BY <2>4, <2>5 DEF Load, LoadResult, LoadTouch, LoadTouchWrite, Prepare, MakeProject, MakeIn, ClearOut, RemoveOut,
       MakeOut, TruncateIn, WriteIn, Continue, ContinueWith, Reply, Steps, LockedSteps
  <2>6. ASSUME NEW t \in Threads, TouchEvict(t)
        PROVE  LockHeldWhileConverting'
    BY <2>4, <2>6 DEF TouchEvict, Touch, TouchWrite, EvictList, EvictSort, EvictScan, EvictEntry, EvictRmdir,
       Return, Continue, Reply, Steps, EvictSteps, LockedSteps
  <2>7. ASSUME NEW t \in Threads, CollectOutputs(t) \/ Save(t)
        PROVE  LockHeldWhileConverting'
    BY <2>4, <2>7 DEF CollectOutputs, Save, SaveMkdir, SaveOpen, SaveWrite, Continue,
       ContinueWith, Reply, Steps, LockedSteps
  <2>8. ASSUME NEW t \in Threads, NEW k \in Keys, Begin(t, k)
        PROVE  LockHeldWhileConverting'
    BY <2>4, <2>8 DEF Begin, Steps, LockedSteps
  <2>9. CASE Restart
    BY <2>1, <2>9 DEF Restart, LockHeldWhileConverting, LockedSteps
  <2>10. CASE UNCHANGED vars
    BY <2>10 DEF vars, LockHeldWhileConverting
  <2>11. QED
    BY <2>2, <2>3, <2>5, <2>6, <2>7, <2>8, <2>9, <2>10 DEF Next, Serving, Work
<1>3. QED
  BY <1>1, <1>2, TypeCorrect, PTL DEF Spec

(***************************************************************************)
(* When no two requests in flight are identical and the cache has room for *)
(* every conversion asked for, a thread has the project directory of its   *)
(* request to itself, and the service implements ConversionService.        *)
(* Without the first assumption a thread clears out/ under the conversion  *)
(* of another, without the second evict removes the project under it.      *)
(***************************************************************************)
Isolated ==
  /\ SharedKeys = {}
  /\ Cardinality(Keys) <= MaxProjects

\* No project is shared by two threads, and none is ever removed.
Apart ==
  /\ \A t \in Threads : ~Busy(t) => key[t] = NoKey
  /\ \A t, u \in Threads : Busy(t) /\ t # u => key[t] # key[u]
  /\ \A t \in Threads : pc[t] \notin {"evictSort", "evictScan", "evictRemove"}

\* touch and evict run twice: out/ and in/ are ready the first time, the
\* result is saved the second.
SaveSteps == {"saveMkdir", "saveOpen", "saveWrite"}

PhaseFitsStep ==
  \A t \in Threads :
    pc[t] \notin {"touch", "touchWrite", "evict"}
      => phase[t] = IF pc[t] \in SaveSteps THEN "save" ELSE "prepare"

Touching(t, p) == pc[t] \in {"touch", "touchWrite", "evict"} /\ phase[t] = p

HasInputs(t) == pc[t] \in {"lock", "chdir", "convert"} \/ Touching(t, "prepare")

HasSaved(t) == pc[t] \in {"loadTouch", "loadWrite"} \/ Touching(t, "save")

\* What a thread has made in its project is as it has left it.
Undisturbed(t) ==
  LET k == key[t] IN
  Busy(t) =>
    /\ pc[t] \notin {"load", "makeProject"} => k \in project
    /\ pc[t] = "removeOut" => outDir[k] = "empty"
    /\ pc[t] = "makeOut" => outDir[k] = "absent"
    /\ pc[t] \in {"truncateIn", "writeIn", "open"} \/ HasInputs(t) => outDir[k] = "empty"
    /\ pc[t] = "write" => outDir[k] = "partial"
    /\ pc[t] = "collect" => outDir[k] = "right"
    /\ pc[t] = "writeIn" => inDir[k] = "partial"
    /\ HasInputs(t) => inDir[k] = "full"
    /\ pc[t] \in HoldingSteps \/ HasSaved(t) => got[t] = "right"
    /\ pc[t] = "saveWrite" => result[k] = "partial"
    /\ pc[t] # "load" => (HasSaved(t) <=> result[k] = "right")

OnlyRight ==
  /\ \A k \in Keys : result[k] # "wrong" /\ (result[k] # "absent" => k \in project)
  /\ \A t \in Threads : answer[t] \in {"none", "right", "failed"}

IsolatedInv ==
  /\ TypeOK
  /\ Apart
  /\ PhaseFitsStep
  /\ \A t \in Threads : Undisturbed(t)
  /\ OnlyRight

-----------------------------------------------------------------------------
\* A step of t leaves the other threads and their projects alone, and removes
\* no project.
Local(t) ==
  /\ \A u \in Threads \ {t} :
       /\ pc'[u] = pc[u] /\ key'[u] = key[u] /\ phase'[u] = phase[u]
       /\ got'[u] = got[u] /\ answer'[u] = answer[u]
  /\ \A j \in Keys \ {key[t]} :
       inDir'[j] = inDir[j] /\ outDir'[j] = outDir[j] /\ result'[j] = result[j]
  /\ project \subseteq project'

LEMMA ControlIsLocal ==
  ASSUME TypeOK, NEW t \in Threads,
         \/ \E s \in Steps : Continue(t, s)
         \/ \E s \in Steps, p \in {"prepare", "save"}, c \in Contents : ContinueWith(t, s, p, c)
         \/ \E a \in Answers : Reply(t, a)
  PROVE  \A u \in Threads \ {t} :
           /\ pc'[u] = pc[u] /\ key'[u] = key[u] /\ phase'[u] = phase[u]
           /\ got'[u] = got[u] /\ answer'[u] = answer[u]
  BY DEF TypeOK, RequestTypes, Continue, ContinueWith, Reply, Goto, reqVars

\* Where nothing is evicted, evict returns at once.
LEMMA NothingToEvict ==
  ASSUME Isolated, IsolatedInv, NEW t \in Threads, TouchEvict(t)
  PROVE  Touch(t) \/ TouchWrite(t) \/ (pc[t] = "evict" /\ Return(t) /\ UNCHANGED <<evictVars, transformLock, fsVars>>)
<1>1. pc[t] \notin {"evictSort", "evictScan", "evictRemove"} /\ project \subseteq Keys
  BY DEF IsolatedInv, Apart, TypeOK, DiskTypes
<1>2. IsFiniteSet(Keys) /\ MaxProjects \in Nat
  BY CacheAssumption
<1>3. Cardinality(project) <= Cardinality(Keys) /\ Cardinality(project) \in Nat /\ Cardinality(Keys) \in Nat
  BY <1>1, <1>2, FS_Subset, FS_CardinalityType
<1>4. Cardinality(project) <= MaxProjects
  BY <1>2, <1>3 DEF Isolated
<1>5. QED
  BY <1>1, <1>4 DEF TouchEvict, EvictList, EvictSort, EvictScan, EvictEntry, EvictRmdir, evictVars

\* A step of t leaves t where the invariant wants it.
Fine(t) ==
  /\ Local(t)
  /\ pc'[t] \notin {"evictSort", "evictScan", "evictRemove"}
  /\ key'[t] = IF pc'[t] = "idle" THEN NoKey ELSE key[t]
  /\ pc'[t] \notin {"touch", "touchWrite", "evict"}
       => phase'[t] = IF pc'[t] \in SaveSteps THEN "save" ELSE "prepare"
  /\ Undisturbed(t)'
  /\ result'[key[t]] # "wrong" /\ (result'[key[t]] # "absent" => key[t] \in project')
  /\ answer'[t] \in {"none", "right", "failed"}

LEMMA LoadIsFine ==
  ASSUME IsolatedInv, NEW t \in Threads, Load(t)
  PROVE  Fine(t)
<1> USE DEF IsolatedInv, TypeOK, RequestTypes, DiskTypes, Apart, PhaseFitsStep, OnlyRight, Fine, Local,
        Undisturbed, Touching, HasInputs, HasSaved, HoldingSteps, SaveSteps, Busy, Contents,
        Continue, ContinueWith, Reply, Goto, reqVars, fsVars, dirVars
<1>1. CASE LoadResult(t)
  BY <1>1 DEF LoadResult
<1>2. CASE LoadTouch(t)
  BY <1>2 DEF LoadTouch
<1>3. CASE LoadTouchWrite(t)
  BY <1>3 DEF LoadTouchWrite
<1>4. QED
  BY <1>1, <1>2, <1>3 DEF Load

LEMMA PrepareIsFine ==
  ASSUME IsolatedInv, NEW t \in Threads, Prepare(t)
  PROVE  Fine(t)
<1> USE DEF IsolatedInv, TypeOK, RequestTypes, DiskTypes, Apart, PhaseFitsStep, OnlyRight, Fine, Local,
        Undisturbed, Touching, HasInputs, HasSaved, HoldingSteps, SaveSteps, Busy, Contents,
        Continue, ContinueWith, Reply, Goto, reqVars, fsVars, dirVars
<1>1. CASE MakeProject(t)
  BY <1>1 DEF MakeProject, MakeDir
<1>2. CASE MakeIn(t)
  BY <1>2 DEF MakeIn
<1>3. CASE ClearOut(t)
  BY <1>3 DEF ClearOut
<1>4. CASE RemoveOut(t)
  <2>1. /\ pc[t] = "removeOut" /\ Continue(t, "makeOut") /\ outDir' = [outDir EXCEPT ![key[t]] = "absent"]
        /\ UNCHANGED <<project, inDir, result>>
    BY <1>4 DEF RemoveOut
  <2>2. QED
    BY <2>1
<1>5. CASE MakeOut(t)
  <2>1. /\ pc[t] = "makeOut" /\ Continue(t, "truncateIn") /\ outDir' = [outDir EXCEPT ![key[t]] = "empty"]
        /\ UNCHANGED <<project, inDir, result>>
    BY <1>5 DEF MakeOut
  <2>2. QED
    BY <2>1
<1>6. CASE TruncateIn(t)
  BY <1>6 DEF TruncateIn, MakeDir
<1>7. CASE WriteIn(t)
  BY <1>7 DEF WriteIn
<1>8. QED
  BY <1>1, <1>2, <1>3, <1>4, <1>5, <1>6, <1>7 DEF Prepare

LEMMA TouchEvictIsFine ==
  ASSUME Isolated, IsolatedInv, NEW t \in Threads, TouchEvict(t)
  PROVE  Fine(t)
<1> USE DEF IsolatedInv, TypeOK, RequestTypes, DiskTypes, Apart, PhaseFitsStep, OnlyRight, Fine, Local,
        Undisturbed, Touching, HasInputs, HasSaved, HoldingSteps, SaveSteps, Busy, Contents,
        Continue, ContinueWith, Reply, Goto, reqVars, fsVars, dirVars
<1>1. CASE Touch(t)
  BY <1>1 DEF Touch
<1>2. CASE TouchWrite(t)
  BY <1>2 DEF TouchWrite
<1>3. CASE pc[t] = "evict" /\ Return(t) /\ UNCHANGED <<evictVars, transformLock, fsVars>>
  BY <1>3 DEF Return
<1>4. QED
  BY <1>1, <1>2, <1>3, NothingToEvict

LEMMA ConversionIsFine ==
  ASSUME IsolatedInv, NEW t \in Threads, AcquireLock(t) \/ Locked(t) \/ CollectOutputs(t)
  PROVE  Fine(t)
<1> USE DEF IsolatedInv, TypeOK, RequestTypes, DiskTypes, Apart, PhaseFitsStep, OnlyRight, Fine, Local,
        Undisturbed, Touching, HasInputs, HasSaved, HoldingSteps, SaveSteps, Busy, Contents,
        Continue, ContinueWith, Reply, Goto, reqVars, fsVars, dirVars
<1>1. CASE AcquireLock(t)
  BY <1>1 DEF AcquireLock
<1>2. CASE Chdir(t)
  BY <1>2 DEF Chdir
<1>3. CASE Convert(t)
  BY <1>3 DEF Convert
<1>4. CASE OpenTarget(t)
  BY <1>4 DEF OpenTarget
<1>5. CASE WriteTarget(t)
  BY <1>5 DEF WriteTarget
<1>6. CASE CollectOutputs(t)
  BY <1>6 DEF CollectOutputs
<1>7. QED
  BY <1>1, <1>2, <1>3, <1>4, <1>5, <1>6 DEF Locked

LEMMA SaveIsFine ==
  ASSUME IsolatedInv, NEW t \in Threads, Save(t)
  PROVE  Fine(t)
<1> USE DEF IsolatedInv, TypeOK, RequestTypes, DiskTypes, Apart, PhaseFitsStep, OnlyRight, Fine, Local,
        Undisturbed, Touching, HasInputs, HasSaved, HoldingSteps, SaveSteps, Busy, Contents,
        Continue, ContinueWith, Reply, Goto, reqVars, fsVars, dirVars
<1>1. CASE SaveMkdir(t)
  BY <1>1 DEF SaveMkdir, MakeDir
<1>2. CASE SaveOpen(t)
  BY <1>2 DEF SaveOpen
<1>3. CASE SaveWrite(t)
  BY <1>3 DEF SaveWrite
<1>4. QED
  BY <1>1, <1>2, <1>3 DEF Save

LEMMA WorkIsFine ==
  ASSUME Isolated, IsolatedInv, NEW t \in Threads, Work(t)
  PROVE  Fine(t)
  BY LoadIsFine, PrepareIsFine, TouchEvictIsFine, ConversionIsFine, SaveIsFine DEF Work

\* So every step keeps the invariant: for the threads that do not move because
\* their keys differ from the key of the one that does.
LEMMA WorkKeepsInv ==
  ASSUME Isolated, IsolatedInv, TypeOK', NEW t \in Threads, Work(t)
  PROVE  IsolatedInv'
<1>1. Fine(t) /\ Local(t) /\ Busy(t) /\ key[t] \in Keys
  BY WorkIsFine, WorkIsBusy DEF Fine, IsolatedInv, TypeOK, RequestTypes
<1>2. Apart'
  BY <1>1, CacheAssumption DEF Fine, Local, IsolatedInv, Apart, Busy, TypeOK, RequestTypes
<1>3. PhaseFitsStep'
  BY <1>1 DEF Fine, Local, IsolatedInv, PhaseFitsStep
<1>4. ASSUME NEW u \in Threads
      PROVE  Undisturbed(u)'
  <2>1. CASE u = t
    BY <1>1, <2>1 DEF Fine
  <2>2. CASE u # t /\ Busy(u)
    <3>1. key[u] \in Keys \ {key[t]}
      BY <1>1, <2>2 DEF IsolatedInv, Apart, TypeOK, RequestTypes
    <3>2. QED
      BY <1>1, <2>2, <3>1 DEF Local, IsolatedInv, Undisturbed, Touching, HasInputs, HasSaved, Busy
  <2>3. CASE u # t /\ ~Busy(u)
    BY <1>1, <2>3 DEF Local, Undisturbed, Busy
  <2>4. QED
    BY <2>1, <2>2, <2>3
<1>5. OnlyRight'
  BY <1>1 DEF Fine, Local, IsolatedInv, OnlyRight
<1>6. QED
  BY <1>2, <1>3, <1>4, <1>5 DEF IsolatedInv

LEMMA BeginKeepsInv ==
  ASSUME Isolated, IsolatedInv, TypeOK', NEW t \in Threads, NEW k \in Keys, Begin(t, k)
  PROVE  IsolatedInv'
<1>1. /\ pc' = [pc EXCEPT ![t] = "load"] /\ key' = [key EXCEPT ![t] = k]
      /\ answer' = [answer EXCEPT ![t] = "none"]
      /\ UNCHANGED <<phase, got, project, inDir, outDir, result>>
      /\ ~Busy(t)
      /\ \A u \in Threads : Busy(u) => key[u] # k
  BY DEF Begin, Goto, Isolated, fsVars, dirVars, Busy
<1>2. TypeOK /\ Apart /\ PhaseFitsStep /\ OnlyRight /\ \A u \in Threads : Undisturbed(u)
  BY DEF IsolatedInv
<1>3. Apart'
  BY <1>1, <1>2, CacheAssumption DEF Apart, Busy, TypeOK, RequestTypes
<1>4. PhaseFitsStep'
  BY <1>1, <1>2 DEF PhaseFitsStep, Busy, SaveSteps, TypeOK, RequestTypes
<1>5. \A u \in Threads : Undisturbed(u)'
  BY <1>1, <1>2 DEF Undisturbed, Touching, HasInputs, HasSaved, Busy, HoldingSteps, TypeOK,
     RequestTypes
<1>6. OnlyRight'
  BY <1>1, <1>2 DEF OnlyRight, TypeOK, RequestTypes
<1>7. QED
  BY <1>3, <1>4, <1>5, <1>6 DEF IsolatedInv

\* Distinct requests with room for all of them never disturb each other.
THEOREM IsolatedInvariant ==
  ASSUME Isolated
  PROVE  Spec => []IsolatedInv
<1>1. Init => IsolatedInv
  <2> SUFFICES ASSUME Init
               PROVE  Apart /\ PhaseFitsStep /\ OnlyRight /\ \A t \in Threads : Undisturbed(t)
    BY InitTypes DEF IsolatedInv
  <2>1. QED
    BY DEF Init, Apart, PhaseFitsStep, OnlyRight, Undisturbed, Busy, SaveSteps
<1>2. IsolatedInv /\ TypeOK' /\ [Next]_vars => IsolatedInv'
  <2> SUFFICES ASSUME IsolatedInv, TypeOK', [Next]_vars
               PROVE  IsolatedInv'
    OBVIOUS
  <2>1. CASE Serving
    BY <2>1, WorkKeepsInv, BeginKeepsInv DEF Serving
  <2>2. CASE Restart
    BY <2>2 DEF Restart, IsolatedInv, Apart, PhaseFitsStep, OnlyRight, Undisturbed, Busy,
       SaveSteps, fsVars, dirVars
  <2>3. CASE UNCHANGED vars
    BY <2>3 DEF vars, reqVars, fsVars, dirVars, IsolatedInv, Apart, PhaseFitsStep, OnlyRight,
       Undisturbed, Touching, HasInputs, HasSaved, Busy
  <2>4. QED
    BY <2>1, <2>2, <2>3 DEF Next
<1>3. QED
  BY <1>1, <1>2, TypeCorrect, PTL DEF Spec

\* Every client gets the targets of all of its sources, or a refusal.
THEOREM RightAnswers ==
  ASSUME Isolated
  PROVE  Spec => []AnswersAreRight
<1>1. IsolatedInv => AnswersAreRight
  BY DEF IsolatedInv, OnlyRight, AnswersAreRight
<1>2. QED
  BY <1>1, IsolatedInvariant, PTL

\* No request fails for want of the files its own thread has made.
THEOREM NoFailureOfItsOwn ==
  ASSUME Isolated
  PROVE  Spec => []NoSpuriousFailure
<1>1. IsolatedInv => NoSpuriousFailure
  BY DEF IsolatedInv, OnlyRight, NoSpuriousFailure
<1>2. QED
  BY <1>1, IsolatedInvariant, PTL

\* A conversion whose result is saved is never run again.
THEOREM SavedIsReusedAlways ==
  ASSUME Isolated
  PROVE  Spec => SavedIsReused
<1>1. IsolatedInv /\ [Next]_vars
        => [\A t \in Threads : Convert(t) => result[key[t]] \notin Contents]_vars
  <2> SUFFICES ASSUME IsolatedInv, NEW t \in Threads, Convert(t)
               PROVE  result[key[t]] \notin Contents
    OBVIOUS
  <2>1. Busy(t) /\ pc[t] = "convert" /\ key[t] \in Keys
    BY DEF Convert, Busy, IsolatedInv, TypeOK, RequestTypes
  <2>2. QED
    BY <2>1 DEF IsolatedInv, Undisturbed, HasSaved, Touching, OnlyRight, Contents
<1>2. QED
  BY <1>1, IsolatedInvariant, PTL DEF Spec, SavedIsReused

-----------------------------------------------------------------------------
Published == {k \in Keys : result[k] = "right"}

\* Each step of a thread is a step of ConversionService or invisible to it.
LEMMA WorkImplements ==
  ASSUME Isolated, IsolatedInv, NEW t \in Threads, Work(t)
  PROVE  Abs!Next \/ UNCHANGED Abs!vars
<1> DEFINE k == key[t]
<1>1. /\ TypeOK /\ Busy(t) /\ k \in Keys /\ Undisturbed(t) /\ OnlyRight
      /\ (Touching(t, "prepare") \/ Touching(t, "save")) \/ pc[t] \notin {"touch", "touchWrite", "evict"}
  BY WorkIsBusy DEF IsolatedInv, TypeOK, RequestTypes, Touching
<1>2. CASE UNCHANGED <<key, answer, result>>
  BY <1>2 DEF Abs!vars
<1>3. CASE /\ UNCHANGED <<key, answer>>
           /\ result' = [result EXCEPT ![k] = "partial"]
           /\ result[k] # "right"
  <2>1. Published' = Published
    BY <1>1, <1>3 DEF TypeOK, DiskTypes, Published
  <2>2. QED
    BY <1>3, <2>1 DEF Abs!vars, Published
<1>4. CASE /\ UNCHANGED <<key, answer>>
           /\ result' = [result EXCEPT ![k] = "right"]
           /\ result[k] # "right"
  <2>1. Published' = Published \cup {k} /\ k \in Keys \ Published
    BY <1>1, <1>4 DEF TypeOK, DiskTypes, Published
  <2>2. Abs!Publish(t)
    BY <1>4, <2>1 DEF Abs!Publish, Published
  <2>3. QED
    BY <2>2 DEF Abs!Next
<1>5. CASE Reply(t, "right") /\ UNCHANGED result /\ result[k] = "right"
  <2>1. Abs!Serve(t)
    BY <1>1, <1>5 DEF Abs!Serve, Abs!End, Reply, Published
  <2>2. QED
    BY <2>1 DEF Abs!Next
<1>6. CASE Reply(t, "failed") /\ UNCHANGED result /\ result[k] # "right"
  <2>1. Abs!Refuse(t)
    BY <1>1, <1>6 DEF Abs!Refuse, Abs!End, Reply, Published
  <2>2. QED
    BY <2>1 DEF Abs!Next
<1> USE DEF TypeOK, RequestTypes, Undisturbed, Touching, HasInputs, HasSaved, HoldingSteps
<1>7. CASE Load(t)
  BY <1>1, <1>2, <1>5, <1>7 DEF Load, LoadResult, LoadTouch, LoadTouchWrite, Continue, ContinueWith, reqVars, fsVars,
     dirVars
<1>8. CASE Prepare(t)
  BY <1>1, <1>2, <1>8 DEF Prepare, MakeProject, MakeIn, ClearOut, RemoveOut, MakeOut, TruncateIn,
     WriteIn, Continue, reqVars, fsVars, dirVars
<1>9. CASE TouchEvict(t)
  BY <1>1, <1>2, <1>5, <1>9, NothingToEvict DEF Touch, TouchWrite, Return, Continue, reqVars, fsVars, dirVars
<1>10. CASE AcquireLock(t) \/ Locked(t) \/ CollectOutputs(t)
  BY <1>1, <1>2, <1>6, <1>10 DEF AcquireLock, Locked, Chdir, Convert, OpenTarget, WriteTarget,
     CollectOutputs, Continue, ContinueWith, reqVars, fsVars, dirVars
<1>11. CASE Save(t)
  BY <1>1, <1>2, <1>3, <1>4, <1>11 DEF Save, SaveMkdir, SaveOpen, SaveWrite, Continue, reqVars,
     fsVars, dirVars
<1>12. QED
  BY <1>7, <1>8, <1>9, <1>10, <1>11 DEF Work

\* The cached service with its threads, its files and its restarts implements
\* ConversionService: what was converted once is served from then on.
THEOREM Implementation ==
  ASSUME Isolated
  PROVE  Spec => ImplementsConversionService
<1>1. Init => Abs!Init
  BY DEF Init, Abs!Init
<1>2. IsolatedInv /\ [Next]_vars => [Abs!Next]_Abs!vars
  <2> SUFFICES ASSUME IsolatedInv, [Next]_vars
               PROVE  Abs!Next \/ UNCHANGED Abs!vars
    OBVIOUS
  <2>1. ASSUME NEW t \in Threads, Work(t)
        PROVE  Abs!Next \/ UNCHANGED Abs!vars
    BY <2>1, WorkImplements
  <2>2. ASSUME NEW t \in Threads, NEW k \in Keys, Begin(t, k)
        PROVE  Abs!Next
    <3>1. key[t] = NoKey /\ \A u \in Threads : key[u] # k
      BY <2>2, CacheAssumption DEF Begin, Isolated, Busy, IsolatedInv, Apart
    <3>2. Abs!Submit(t, k)
      BY <2>2, <3>1 DEF Begin, Abs!Submit, fsVars, dirVars
    <3>3. QED
      BY <3>2 DEF Abs!Next
  <2>3. CASE Restart
    BY <2>3 DEF Restart, Abs!Restart, Abs!Next, fsVars, dirVars
  <2>4. CASE UNCHANGED vars
    BY <2>4 DEF vars, reqVars, fsVars, dirVars, Abs!vars
  <2>5. QED
    BY <2>1, <2>2, <2>3, <2>4 DEF Next, Serving
<1>3. QED
  BY <1>1, <1>2, IsolatedInvariant, PTL DEF Spec, ImplementsConversionService, Abs!Spec

-----------------------------------------------------------------------------
(***************************************************************************)
(* What evict removes: the projects whose time at least MaxProjects others *)
(* come after.  older ranks the projects on disk, and no others.           *)
(***************************************************************************)
Ranked ==
  /\ \A k \in Keys : older[k] \subseteq project \ {k}
  /\ \A k \in Keys \ project : older[k] = {}
  /\ \A i, j, k \in Keys : i \in older[j] /\ j \in older[k] => i \in older[k]
  /\ \A j, k \in project : j # k => j \in older[k] \/ k \in older[j]

\* The projects of S that come after k.
Newer(S, k) == {j \in S : k \in older[j]}

LEMMA Smallest ==
  ASSUME NEW S \in SUBSET Nat, S # {}
  PROVE  \E i \in S : \A j \in S : i <= j
<1> DEFINE R == {ss \in Nat \X Nat : ss[1] < ss[2]}
<1>1. IsWellFoundedOn(R, Nat)
  BY NatLessThanWellFounded DEF OpToRel
<1>2. ASSUME NEW i \in Nat, NEW j \in Nat, <<j, i>> \notin R
      PROVE  i <= j
  BY <1>2
<1> HIDE DEF R
<1>3. PICK i \in S : \A j \in S : ~(<<j, i>> \in R)
  BY <1>1, WFMin
<1>4. ASSUME NEW j \in S
      PROVE  i <= j
  <2>1. i \in Nat /\ j \in Nat /\ <<j, i>> \notin R
    BY <1>3
  <2>2. QED
    BY <2>1, <1>2
<1>5. QED
  BY <1>4

\* Who comes before another has more projects after him.
LEMMA NewerGrows ==
  ASSUME TypeOK, Ranked, NEW S \in SUBSET project, NEW j \in S, NEW k \in S, j \in older[k]
  PROVE  /\ Newer(S, k) \cup {k} \subseteq Newer(S, j)
         /\ k \notin Newer(S, k)
         /\ Cardinality(Newer(S, k)) \in Nat /\ Cardinality(Newer(S, j)) \in Nat
         /\ Cardinality(Newer(S, k)) < Cardinality(Newer(S, j))
<1>1. S \subseteq Keys /\ IsFiniteSet(Keys)
  BY CacheAssumption DEF TypeOK, DiskTypes
<1>2. IsFiniteSet(Newer(S, k)) /\ IsFiniteSet(Newer(S, j))
  <2>1. Newer(S, k) \subseteq Keys /\ Newer(S, j) \subseteq Keys
    BY <1>1 DEF Newer
  <2>2. QED
    BY <1>1, <2>1, FS_Subset
<1>3. Newer(S, k) \cup {k} \subseteq Newer(S, j) /\ k \notin Newer(S, k)
  BY <1>1 DEF Newer, Ranked
<1>4. Cardinality(Newer(S, k) \cup {k}) = Cardinality(Newer(S, k)) + 1
  BY <1>2, <1>3, FS_AddElement
<1>5. /\ Cardinality(Newer(S, k) \cup {k}) <= Cardinality(Newer(S, j))
      /\ Cardinality(Newer(S, k)) \in Nat /\ Cardinality(Newer(S, j)) \in Nat
  BY <1>2, <1>3, FS_Subset, FS_CardinalityType
<1>6. QED
  BY <1>3, <1>4, <1>5

\* What is left has room in the cache, and comes after each of the victims; and
\* if there are any the cache is full.
LEMMA VictimsAre ==
  ASSUME TypeOK, Ranked, NEW S \in SUBSET project
  PROVE  LET left == S \ Victims(S) IN
         /\ Victims(S) \subseteq S
         /\ Cardinality(left) \in Nat
         /\ Cardinality(left) <= MaxProjects
         /\ Victims(S) # {} => Cardinality(left) >= MaxProjects
         /\ \A v \in Victims(S) : \A k \in left : v \in older[k]
<1> DEFINE left == S \ Victims(S)
           n(k) == Cardinality(Newer(S, k))
<1>1. S \subseteq Keys /\ IsFiniteSet(S) /\ IsFiniteSet(left) /\ MaxProjects \in Nat \ {0}
  <2>1. S \subseteq Keys /\ IsFiniteSet(Keys) /\ MaxProjects \in Nat \ {0}
    BY CacheAssumption DEF TypeOK, DiskTypes
  <2>2. IsFiniteSet(S)
    BY <2>1, FS_Subset
  <2>3. left \subseteq S
    OBVIOUS
  <2>4. QED
    BY <2>1, <2>2, <2>3, FS_Subset
<1>2. \A k \in S : n(k) \in Nat
  <2>1. \A k \in S : Newer(S, k) \subseteq S
    BY DEF Newer
  <2>2. \A k \in S : IsFiniteSet(Newer(S, k))
    BY <1>1, <2>1, FS_Subset
  <2>3. QED
    BY <2>2, FS_CardinalityType
<1>3. /\ Victims(S) = {k \in S : n(k) >= MaxProjects}
      /\ Cardinality(left) \in Nat
  BY <1>1, FS_CardinalityType DEF Victims, Newer
<1>4. \A j, k \in S : j \in older[k] => n(k) < n(j)
  BY NewerGrows
<1>5. \A j, k \in S : j # k => j \in older[k] \/ k \in older[j]
  BY DEF Ranked
<1> HIDE DEF n
<1>6. Cardinality(left) <= MaxProjects
  <2>1. CASE left = {}
    BY <1>1, <2>1, FS_EmptySet
  <2>2. CASE left # {}
    <3> DEFINE M == {MaxProjects - n(k) : k \in left}
    <3>1. \A k \in left : k \in S /\ n(k) \in Nat /\ n(k) < MaxProjects
      BY <1>1, <1>2, <1>3
    <3>2. M \in SUBSET Nat /\ M # {}
      BY <1>1, <2>2, <3>1
    <3>3. PICK m \in M : \A l \in M : m <= l
      BY <3>2, Smallest
    <3>4. PICK k \in left : m = MaxProjects - n(k)
      BY <3>3
    <3>5. \A j \in left : n(j) <= n(k)
      <4> TAKE j \in left
      <4>1. MaxProjects - n(k) <= MaxProjects - n(j)
        BY <3>3, <3>4
      <4>2. QED
        BY <1>1, <3>1, <4>1
    <3>6. \A j \in left : j = k \/ k \in older[j]
      BY <1>4, <1>5, <3>1, <3>5
    <3>7. left \subseteq Newer(S, k) \cup {k}
      BY <3>6 DEF Newer
    <3>8. Newer(S, k) \subseteq S /\ IsFiniteSet(Newer(S, k))
      BY <1>1, FS_Subset DEF Newer
    <3>9. /\ IsFiniteSet(Newer(S, k) \cup {k})
          /\ Cardinality(Newer(S, k) \cup {k}) <= n(k) + 1
      <4>1. k \notin Newer(S, k)
        BY <1>1, <3>1 DEF Newer, Ranked
      <4>2. /\ IsFiniteSet(Newer(S, k) \cup {k})
            /\ Cardinality(Newer(S, k) \cup {k}) = Cardinality(Newer(S, k)) + 1
        BY <3>8, <4>1, FS_AddElement
      <4>3. Cardinality(Newer(S, k)) = n(k)
        BY DEF n
      <4>4. QED
        BY <3>1, <4>2, <4>3
    <3>10. Cardinality(left) <= Cardinality(Newer(S, k) \cup {k}) /\ Cardinality(Newer(S, k) \cup {k}) \in Nat
      BY <3>7, <3>9, FS_Subset, FS_CardinalityType
    <3>11. QED
      BY <1>1, <1>3, <3>1, <3>9, <3>10
  <2>3. QED
    BY <2>1, <2>2
<1>7. \A v \in Victims(S) : \A k \in left : v \in older[k]
  <2> TAKE v \in Victims(S)
  <2> TAKE k \in left
  <2>1. v \in S /\ k \in S /\ v # k /\ n(v) >= MaxProjects /\ n(k) < MaxProjects
    BY <1>1, <1>2, <1>3
  <2>2. ~(k \in older[v])
    BY <1>1, <1>2, <1>4, <2>1
  <2>3. QED
    BY <1>5, <2>1, <2>2
<1>8. ASSUME Victims(S) # {}
      PROVE  Cardinality(left) >= MaxProjects
  <2> DEFINE M == {n(k) : k \in Victims(S)}
  <2>1. M \in SUBSET Nat /\ M # {}
    BY <1>2, <1>3, <1>8
  <2>2. PICK m \in M : \A l \in M : m <= l
    BY <2>1, Smallest
  <2>3. PICK v \in Victims(S) : m = n(v)
    BY <2>2
  <2>4. ASSUME NEW w \in Newer(S, v)
        PROVE  w \in left
    <3>1. w \in S /\ v \in S /\ v \in older[w]
      BY <1>3 DEF Newer
    <3>2. n(w) < n(v)
      BY <1>4, <3>1
    <3>3. w \notin Victims(S)
      <4>1. w \in Victims(S) => n(v) <= n(w)
        BY <2>2, <2>3
      <4>2. QED
        BY <1>2, <3>1, <3>2, <4>1
    <3>4. QED
      BY <3>1, <3>3
  <2>5. Newer(S, v) \subseteq left
    BY <2>4
  <2>6. n(v) <= Cardinality(left) /\ n(v) >= MaxProjects
    BY <1>1, <1>3, <2>5, FS_Subset DEF n
  <2>7. n(v) \in Nat
    BY <1>2, <1>3
  <2>8. QED
    BY <1>1, <1>3, <2>6, <2>7
<1>9. QED
  BY <1>3, <1>6, <1>7, <1>8

-----------------------------------------------------------------------------
(***************************************************************************)
(* A request that runs alone, over whatever others have left on disk.      *)
(***************************************************************************)
FilesAreThere == \A k \in Keys \ project : EntriesOf(k) = {}

CacheSteps == {"touch", "touchWrite"} \cup EvictSteps

Phases ==
  \A t \in Threads :
    pc[t] \notin CacheSteps => phase[t] = IF pc[t] \in SaveSteps THEN "save" ELSE "prepare"

Caching(t, p) == pc[t] \in CacheSteps /\ phase[t] = p

Ready(t) == pc[t] \in {"lock", "chdir", "convert"} \/ Caching(t, "prepare")

\* Its own files are as it has left them.
SoloFiles(t) ==
  LET k == key[t] IN
  /\ pc[t] \notin {"load", "makeProject"} => k \in project
  /\ pc[t] = "removeOut" => outDir[k] = "empty"
  /\ pc[t] = "makeOut" => outDir[k] = "absent"
  /\ pc[t] \in {"truncateIn", "writeIn", "open"} \/ Ready(t) => outDir[k] = "empty"
  /\ pc[t] = "write" => outDir[k] = "partial"
  /\ pc[t] = "collect" => outDir[k] = "right"
  /\ pc[t] = "writeIn" => inDir[k] = "partial"
  /\ Ready(t) => inDir[k] = "full"
  /\ pc[t] \in {"touchWrite", "loadWrite"} => meta[k] = "partial"
  /\ pc[t] \in {"open", "write"} \cup SaveSteps \/ Caching(t, "save") => got[t] = "right"
  /\ pc[t] \notin {"load", "loadTouch", "loadWrite"} /\ ~Caching(t, "save") => result[k] \notin Contents

\* The projects evict still has to remove.
Going(t) == seen[t] \cup (IF pc[t] = "evictRemove" THEN {victim[t]} ELSE {})

\* What stays has room in the cache, and fills it if anything has to go; the
\* project of the request stays, for its time is the last.
SoloEvicts(t) ==
  LET k == key[t]
      left == project \ Going(t) IN
  /\ pc[t] = "lock" => Cardinality(project) <= MaxProjects
  /\ pc[t] \in {"evict", "evictSort"} => older[k] = project \ {k}
  /\ pc[t] = "evictSort" => seen[t] = project
  /\ pc[t] \in {"evictScan", "evictRemove"} =>
       /\ k \notin Going(t)
       /\ Going(t) \subseteq project
       /\ Cardinality(left) <= MaxProjects
       /\ Going(t) # {} => Cardinality(left) >= MaxProjects
  /\ pc[t] = "evictRemove" => victim[t] \notin seen[t] /\ EntriesOf(victim[t]) \subseteq toRemove[t]

Solo(t) == SoloFiles(t) /\ SoloEvicts(t)

SoloInv ==
  /\ TypeOK
  /\ Ranked
  /\ FilesAreThere
  /\ Phases
  /\ \A t \in Threads : alone[t] => Busy(t) /\ Solo(t) /\ \A u \in Threads \ {t} : ~Busy(u)

\* Whoever works, the files of a project go before its directory.
LEMMA WorkFilesAreThere ==
  ASSUME TypeOK, FilesAreThere, NEW t \in Threads, Work(t)
  PROVE  FilesAreThere'
<1>1. /\ RequestTypes /\ EvictTypes /\ DiskTypes /\ Busy(t) /\ key[t] \in Keys
  BY WorkIsBusy DEF TypeOK, RequestTypes
<1>2. \A k \in Keys \ project :
        inDir[k] = "absent" /\ outDir[k] = "absent" /\ result[k] = "absent" /\ meta[k] = "absent"
  BY <1>1 DEF FilesAreThere, EntriesOf, Entries
<1>3. SUFFICES \A k \in Keys \ project' :
        inDir'[k] = "absent" /\ outDir'[k] = "absent" /\ result'[k] = "absent" /\ meta'[k] = "absent"
  BY DEF FilesAreThere, EntriesOf
<1> USE DEF DiskTypes
<1>4. CASE LoadResult(t) \/ CollectOutputs(t) \/ EvictList(t) \/ EvictSort(t) \/ EvictScan(t)
  BY <1>2, <1>4 DEF LoadResult, CollectOutputs, EvictList, EvictSort, EvictScan, fsVars, dirVars
<1>5. CASE LoadTouch(t) \/ LoadTouchWrite(t) \/ Touch(t) \/ TouchWrite(t)
  <2>1. UNCHANGED <<project, inDir, outDir, result>>
    BY <1>5 DEF LoadTouch, LoadTouchWrite, Touch, TouchWrite, dirVars
  <2>2. \A k \in Keys : meta'[k] = meta[k] \/ k \in project
    BY <1>1, <1>2, <1>5 DEF LoadTouch, LoadTouchWrite, Touch, TouchWrite, OpenMeta, WriteMeta
  <2>3. QED
    BY <1>2, <2>1, <2>2
<1>6. CASE Prepare(t)
  BY <1>1, <1>2, <1>6 DEF Prepare, MakeProject, MakeDir, MakeIn, ClearOut, RemoveOut, MakeOut, TruncateIn, WriteIn,
     dirVars
<1>7. CASE EvictEntry(t)
  <2>1. PICK l : inDir' = [inDir EXCEPT ![victim[t]] = l] /\ (inDir[victim[t]] = "absent" => l = "absent")
    BY <1>7 DEF EvictEntry
  <2>2. UNCHANGED project
    BY <1>7 DEF EvictEntry
  <2>3. \A k \in Keys \ project : outDir'[k] = "absent" /\ result'[k] = "absent" /\ meta'[k] = "absent"
    BY <1>2, <1>7 DEF EvictEntry
  <2>4. QED
    BY <1>2, <2>1, <2>2, <2>3
<1>8. CASE EvictRmdir(t)
  <2>1. UNCHANGED <<inDir, outDir, result, meta>> /\ (project' # project => EntriesOf(victim[t]) = {})
    BY <1>8 DEF EvictRmdir, dirVars
  <2>2. project \ {victim[t]} \subseteq project'
    BY <1>8 DEF EvictRmdir
  <2>3. QED
    BY <1>1, <1>2, <2>1, <2>2 DEF EntriesOf, Entries
<1>9. CASE AcquireLock(t) \/ Locked(t)
  BY <1>1, <1>2, <1>9 DEF AcquireLock, Locked, Chdir, Convert, OpenTarget, WriteTarget, fsVars, dirVars
<1>10. CASE Save(t)
  BY <1>1, <1>2, <1>10 DEF Save, SaveMkdir, SaveOpen, SaveWrite, MakeDir, dirVars
<1>11. QED
  BY <1>4, <1>5, <1>6, <1>7, <1>8, <1>9, <1>10 DEF Work, Load, TouchEvict

\* A new time for one project leaves the others as they were to each other.
LEMMA PlacedRanked ==
  ASSUME TypeOK, Ranked, NEW k \in Keys, NEW S \in SUBSET (project \ {k}),
         \A j \in S : older[j] \subseteq S \cup {k},
         older' = Placed(k, S), project' = project \cup {k}
  PROVE  Ranked'
<1>1. /\ older'[k] = S
      /\ \A j \in project \ (S \cup {k}) : older'[j] = older[j] \cup {k}
      /\ \A j \in S : older'[j] = older[j] \ {k}
      /\ \A j \in Keys \ project' : older'[j] = {}
  BY DEF Placed, Ranked, TypeOK, DiskTypes
<1>2. project \subseteq Keys /\ \A j \in Keys : older[j] \subseteq project
  BY DEF TypeOK, DiskTypes, Ranked
<1>3. \A j \in Keys : j \in project' \/ older'[j] = {}
  BY <1>1
<1>4. \A j \in Keys : older'[j] \subseteq project' \ {j}
  BY <1>1, <1>2, <1>3 DEF Ranked
<1>5. ASSUME NEW h \in Keys, NEW i \in Keys, NEW j \in Keys, h \in older'[i], i \in older'[j]
      PROVE  h \in older'[j]
  <2>1. i \in project' /\ j \in project'
    BY <1>3, <1>5
  <2>2. CASE j \in S
    BY <1>1, <1>5, <2>1, <2>2 DEF Ranked
  <2>3. CASE j = k
    BY <1>1, <1>5, <2>3 DEF Ranked
  <2>4. CASE j \in project \ (S \cup {k})
    <3>1. \A m \in S : m \in older[j]
      BY <2>4 DEF Ranked
    <3>2. QED
      BY <1>1, <1>5, <2>1, <2>4, <3>1 DEF Ranked
  <2>5. QED
    BY <2>1, <2>2, <2>3, <2>4
<1>6. \A i, j \in project' : i # j => i \in older'[j] \/ j \in older'[i]
  BY <1>1, <1>2 DEF Ranked
<1>7. QED
  BY <1>3, <1>4, <1>5, <1>6 DEF Ranked

LEMMA LatestRanked ==
  ASSUME TypeOK, Ranked, NEW k \in Keys, older' = Latest(k), project' = project \cup {k}
  PROVE  Ranked'
<1>1. \A j \in project \ {k} : older[j] \subseteq (project \ {k}) \cup {k}
  BY DEF Ranked, TypeOK, DiskTypes
<1>2. older' = Placed(k, project \ {k})
  BY DEF Latest
<1>3. QED
  BY <1>1, <1>2, PlacedRanked

LEMMA RmdirRanked ==
  ASSUME TypeOK, Ranked, NEW t \in Threads, EvictRmdir(t)
  PROVE  Ranked'
<1> DEFINE k == victim[t]
<1>1. CASE UNCHANGED <<project, older>>
  BY <1>1 DEF Ranked
<1>2. CASE /\ project' = project \ {k}
           /\ older' = [j \in Keys |-> IF j = k THEN {} ELSE older[j] \ {k}]
  <2>1. \A j \in Keys : older'[j] = IF j = k THEN {} ELSE older[j] \ {k}
    BY <1>2
  <2>2. project \subseteq Keys
    BY DEF TypeOK, DiskTypes
  <2>3. QED
    BY <1>2, <2>1, <2>2 DEF Ranked
<1>3. QED
  BY <1>1, <1>2 DEF EvictRmdir

LEMMA WorkRanked ==
  ASSUME TypeOK, Ranked, FilesAreThere, NEW t \in Threads, Work(t)
  PROVE  Ranked'
<1> DEFINE k == key[t]
<1>1. k \in Keys /\ DiskTypes /\ EvictTypes
  BY WorkIsBusy DEF TypeOK, RequestTypes
<1>2. \A j \in Keys \ project :
        inDir[j] = "absent" /\ outDir[j] = "absent" /\ result[j] = "absent" /\ meta[j] = "absent"
  BY <1>1 DEF FilesAreThere, EntriesOf, Entries, DiskTypes
<1>3. ASSUME UNCHANGED <<older, project>>
      PROVE  Ranked'
  BY <1>3 DEF Ranked
<1>4. CASE UNCHANGED fsVars
  BY <1>3, <1>4 DEF fsVars
<1>5. CASE LoadTouch(t) \/ LoadTouchWrite(t) \/ Touch(t) \/ TouchWrite(t)
  <2>1. \/ UNCHANGED <<meta, older>>
        \/ k \in project /\ OpenMeta(k)
        \/ k \in project /\ WriteMeta(k)
    BY <1>1, <1>2, <1>5 DEF LoadTouch, LoadTouchWrite, Touch, TouchWrite, WriteMeta
  <2>2. UNCHANGED project
    BY <1>5 DEF LoadTouch, LoadTouchWrite, Touch, TouchWrite
  <2>3. \/ UNCHANGED older
        \/ k \in project /\ older' = Latest(k)
        \/ /\ k \in project
           /\ \E S \in SUBSET (project \ {k}) :
                /\ \A j \in S : older[j] \subseteq S \cup {k}
                /\ older' = Placed(k, S)
    BY <2>1 DEF OpenMeta, WriteMeta
  <2>4. k \in project => project' = project \cup {k}
    BY <2>2
  <2>5. QED
    BY <1>1, <1>3, <2>2, <2>3, <2>4, PlacedRanked, LatestRanked
<1>6. ASSUME NEW j \in Keys, project' = project \cup {j},
             older' = Latest(j) \/ (j \in project /\ UNCHANGED older)
      PROVE  Ranked'
  <2>1. CASE older' = Latest(j)
    BY <1>6, <2>1, LatestRanked
  <2>2. CASE j \in project /\ UNCHANGED older
    <3>1. project' = project
      BY <1>6, <2>2
    <3>2. QED
      BY <1>3, <2>2, <3>1
  <2>3. QED
    BY <1>6, <2>1, <2>2
<1>7. CASE MakeProject(t) \/ TruncateIn(t) \/ SaveMkdir(t)
  <2>1. /\ project' = project \cup {k}
        /\ k \notin project => older' = Latest(k)
        /\ older' = Latest(k) \/ UNCHANGED older
    BY <1>1, <1>2, <1>7 DEF MakeProject, TruncateIn, SaveMkdir, MakeDir, DirChanges, TimedByDir
  <2>2. QED
    BY <1>1, <1>6, <2>1
<1>8. CASE MakeIn(t) \/ RemoveOut(t) \/ MakeOut(t) \/ SaveOpen(t)
  <2>1. UNCHANGED project /\ (UNCHANGED older \/ (k \in project /\ older' = Latest(k)))
    BY <1>1, <1>2, <1>8 DEF MakeIn, RemoveOut, MakeOut, SaveOpen, DirChanges
  <2>2. QED
    BY <1>1, <1>3, <1>6, <2>1
<1>9. CASE ClearOut(t) \/ WriteIn(t) \/ SaveWrite(t)
  BY <1>3, <1>9 DEF ClearOut, WriteIn, SaveWrite
<1>10. CASE EvictEntry(t)
  <2>1. victim[t] \in Keys /\ UNCHANGED project
    BY <1>1, <1>10 DEF EvictEntry, EvictTypes
  <2>2. UNCHANGED older \/ (EntriesOf(victim[t]) # {} /\ older' = Latest(victim[t]))
    BY <1>10 DEF EvictEntry
  <2>3. EntriesOf(victim[t]) # {} => victim[t] \in project
    BY <2>1 DEF FilesAreThere
  <2>4. QED
    BY <1>3, <1>6, <2>1, <2>2, <2>3
<1>11. CASE EvictList(t) \/ EvictSort(t) \/ EvictScan(t) \/ LoadResult(t) \/ CollectOutputs(t)
  BY <1>4, <1>11 DEF EvictList, EvictSort, EvictScan, LoadResult, CollectOutputs
<1>12. CASE AcquireLock(t) \/ Locked(t)
  BY <1>3, <1>12 DEF AcquireLock, Locked, Chdir, Convert, OpenTarget, WriteTarget, fsVars
<1>13. QED
  BY <1>5, <1>7, <1>8, <1>9, <1>10, <1>11, <1>12, RmdirRanked DEF Work, Load, Prepare, TouchEvict, Save

\* A step of t is of its request alone, and ends it or goes on with it.
Steers(t) ==
  /\ \A u \in Threads \ {t} : pc'[u] = pc[u] /\ phase'[u] = phase[u] /\ alone'[u] = alone[u]
  /\ pc'[t] # "idle" => key'[t] = key[t] /\ alone'[t] = alone[t]
  /\ pc'[t] = "idle" => alone'[t] = FALSE
  /\ pc'[t] \notin CacheSteps => phase'[t] = IF pc'[t] \in SaveSteps THEN "save" ELSE "prepare"

LEMMA WorkSteers ==
  ASSUME TypeOK, Phases, NEW t \in Threads, Work(t)
  PROVE  Steers(t)
<1> USE DEF TypeOK, RequestTypes, Phases, Steers, CacheSteps, EvictSteps, SaveSteps, Busy,
        Continue, ContinueWith, Reply, Goto, reqVars
<1>1. CASE Load(t)
  <2>1. CASE LoadResult(t)
    BY <2>1 DEF LoadResult
  <2>2. CASE LoadTouch(t) \/ LoadTouchWrite(t)
    BY <2>2 DEF LoadTouch, LoadTouchWrite
  <2>3. QED
    BY <1>1, <2>1, <2>2 DEF Load
<1>2. CASE Prepare(t)
  BY <1>2 DEF Prepare, MakeProject, MakeIn, ClearOut, RemoveOut, MakeOut, TruncateIn, WriteIn
<1>3. CASE Touch(t) \/ TouchWrite(t)
  BY <1>3 DEF Touch, TouchWrite
<1>4. CASE EvictList(t) \/ EvictSort(t)
  BY <1>4 DEF EvictList, EvictSort, Return
<1>5. CASE EvictScan(t)
  BY <1>5 DEF EvictScan, Return
<1>6. CASE EvictEntry(t) \/ EvictRmdir(t)
  BY <1>6 DEF EvictEntry, EvictRmdir
<1>7. CASE AcquireLock(t) \/ Locked(t)
  BY <1>7 DEF AcquireLock, Locked, Chdir, Convert, OpenTarget, WriteTarget
<1>8. CASE CollectOutputs(t) \/ Save(t)
  BY <1>8 DEF CollectOutputs, Save, SaveMkdir, SaveOpen, SaveWrite
<1>9. QED
  BY <1>1, <1>2, <1>3, <1>4, <1>5, <1>6, <1>7, <1>8 DEF Work, TouchEvict

\* What a step of the request makes of it, if it goes on.
SoloFine(t) == pc'[t] # "idle" => Solo(t)'

\* The reply it gives, if it ends.
SoloServed(t) ==
  pc'[t] = "idle" => \/ answer'[t] \in {"none", "right", "failed"}
                     \/ pc[t] = "loadWrite" /\ answer'[t] = "wrong"

LEMMA SoloFacts ==
  ASSUME SoloInv, NEW t \in Threads, alone[t]
  PROVE  /\ RequestTypes /\ DiskTypes /\ FilesAreThere
         /\ Busy(t) /\ key[t] \in Keys /\ SoloFiles(t) /\ SoloEvicts(t)
         /\ \A u \in Threads \ {t} : ~Busy(u)
         /\ pc[t] \notin CacheSteps => phase[t] = IF pc[t] \in SaveSteps THEN "save" ELSE "prepare"
  BY DEF SoloInv, TypeOK, RequestTypes, Solo, Phases

\* A step that neither evicts nor has evicted.
LEMMA NoEviction ==
  ASSUME NEW t \in Threads, pc'[t] \notin EvictSteps \cup {"lock"},
         pc'[t] # "idle" => SoloFiles(t)', SoloServed(t)
  PROVE  SoloFine(t) /\ SoloServed(t)
<1>1. SoloEvicts(t)'
  BY DEF SoloEvicts, EvictSteps
<1>2. QED
  BY <1>1 DEF SoloFine, Solo

LEMMA LoadAlone ==
  ASSUME SoloInv, NEW t \in Threads, alone[t], Load(t)
  PROVE  SoloFine(t) /\ SoloServed(t)
<1> SUFFICES /\ pc'[t] \notin EvictSteps \cup {"lock"}
             /\ (pc'[t] # "idle" => SoloFiles(t)') /\ SoloServed(t)
  BY NoEviction
<1>1. /\ RequestTypes /\ DiskTypes /\ FilesAreThere
      /\ Busy(t) /\ key[t] \in Keys /\ SoloFiles(t)
      /\ \A u \in Threads \ {t} : ~Busy(u)
      /\ pc[t] \notin CacheSteps => phase[t] = IF pc[t] \in SaveSteps THEN "save" ELSE "prepare"
  BY SoloFacts
<1> USE DEF RequestTypes, DiskTypes, FilesAreThere, SoloFiles, SoloServed, Ready, Caching, CacheSteps,
        EvictSteps, SaveSteps, HoldingSteps, Busy, Contents, Continue, ContinueWith, Reply, Goto,
        reqVars, fsVars, dirVars
<1>2. CASE LoadResult(t)
  <2>1. result[key[t]] \in Contents => "result" \in EntriesOf(key[t])
    BY DEF EntriesOf, Entries
  <2>2. result[key[t]] \in Contents => key[t] \in project
    BY <1>1, <2>1
  <2>3. QED
    BY <1>1, <1>2, <2>2 DEF LoadResult
<1>3. CASE LoadTouch(t)
  <2>1. key[t] \in project
    BY <1>1, <1>3 DEF LoadTouch
  <2>2. meta'[key[t]] = "partial"
    BY <1>1, <1>3, <2>1 DEF LoadTouch, OpenMeta
  <2>3. QED
    BY <1>1, <1>3, <2>1, <2>2 DEF LoadTouch
<1>4. CASE LoadTouchWrite(t)
  BY <1>1, <1>4 DEF LoadTouchWrite
<1>5. QED
  BY <1>2, <1>3, <1>4 DEF Load

LEMMA PrepareAlone ==
  ASSUME SoloInv, NEW t \in Threads, alone[t], Prepare(t)
  PROVE  SoloFine(t) /\ SoloServed(t)
<1> SUFFICES /\ pc'[t] \notin EvictSteps \cup {"lock"}
             /\ (pc'[t] # "idle" => SoloFiles(t)') /\ SoloServed(t)
  BY NoEviction
<1>1. /\ RequestTypes /\ DiskTypes /\ FilesAreThere
      /\ Busy(t) /\ key[t] \in Keys /\ SoloFiles(t)
      /\ \A u \in Threads \ {t} : ~Busy(u)
      /\ pc[t] \notin CacheSteps => phase[t] = IF pc[t] \in SaveSteps THEN "save" ELSE "prepare"
  BY SoloFacts
<1> USE DEF RequestTypes, DiskTypes, FilesAreThere, SoloFiles, SoloServed, Ready, Caching, CacheSteps,
        EvictSteps, SaveSteps, HoldingSteps, Busy, Contents, Continue, ContinueWith, Reply, Goto,
        reqVars, fsVars, dirVars
<1>2. CASE MakeProject(t)
  BY <1>1, <1>2 DEF MakeProject, MakeDir
<1>3. CASE MakeIn(t)
  BY <1>1, <1>3 DEF MakeIn
<1>4. CASE ClearOut(t)
  BY <1>1, <1>4 DEF ClearOut
<1>5. CASE RemoveOut(t)
  BY <1>1, <1>5 DEF RemoveOut
<1>6. CASE MakeOut(t)
  BY <1>1, <1>6 DEF MakeOut
<1>7. CASE TruncateIn(t)
  BY <1>1, <1>7 DEF TruncateIn, MakeDir
<1>8. CASE WriteIn(t)
  BY <1>1, <1>8 DEF WriteIn
<1>9. QED
  BY <1>2, <1>3, <1>4, <1>5, <1>6, <1>7, <1>8 DEF Prepare

LEMMA ConvertAlone ==
  ASSUME SoloInv, NEW t \in Threads, alone[t], AcquireLock(t) \/ Locked(t) \/ CollectOutputs(t)
  PROVE  SoloFine(t) /\ SoloServed(t)
<1> SUFFICES /\ pc'[t] \notin EvictSteps \cup {"lock"}
             /\ (pc'[t] # "idle" => SoloFiles(t)') /\ SoloServed(t)
  BY NoEviction
<1>1. /\ RequestTypes /\ DiskTypes /\ FilesAreThere
      /\ Busy(t) /\ key[t] \in Keys /\ SoloFiles(t)
      /\ \A u \in Threads \ {t} : ~Busy(u)
      /\ pc[t] \notin CacheSteps => phase[t] = IF pc[t] \in SaveSteps THEN "save" ELSE "prepare"
  BY SoloFacts
<1> USE DEF RequestTypes, DiskTypes, FilesAreThere, SoloFiles, SoloServed, Ready, Caching, CacheSteps,
        EvictSteps, SaveSteps, HoldingSteps, Busy, Contents, Continue, ContinueWith, Reply, Goto,
        reqVars, fsVars, dirVars
<1>2. CASE AcquireLock(t)
  BY <1>1, <1>2 DEF AcquireLock
<1>3. CASE Chdir(t)
  BY <1>1, <1>3 DEF Chdir
<1>4. CASE Convert(t)
  BY <1>1, <1>4 DEF Convert
<1>5. CASE OpenTarget(t)
  BY <1>1, <1>5 DEF OpenTarget
<1>6. CASE WriteTarget(t)
  BY <1>1, <1>6 DEF WriteTarget
<1>7. CASE CollectOutputs(t)
  BY <1>1, <1>7 DEF CollectOutputs
<1>8. QED
  BY <1>2, <1>3, <1>4, <1>5, <1>6, <1>7 DEF Locked

LEMMA SaveAlone ==
  ASSUME SoloInv, NEW t \in Threads, alone[t], Save(t)
  PROVE  SoloFine(t) /\ SoloServed(t)
<1> SUFFICES /\ pc'[t] \notin EvictSteps \cup {"lock"}
             /\ (pc'[t] # "idle" => SoloFiles(t)') /\ SoloServed(t)
  BY NoEviction
<1>1. /\ RequestTypes /\ DiskTypes /\ FilesAreThere
      /\ Busy(t) /\ key[t] \in Keys /\ SoloFiles(t)
      /\ \A u \in Threads \ {t} : ~Busy(u)
      /\ pc[t] \notin CacheSteps => phase[t] = IF pc[t] \in SaveSteps THEN "save" ELSE "prepare"
  BY SoloFacts
<1> USE DEF RequestTypes, DiskTypes, FilesAreThere, SoloFiles, SoloServed, Ready, Caching, CacheSteps,
        EvictSteps, SaveSteps, HoldingSteps, Busy, Contents, Continue, ContinueWith, Reply, Goto,
        reqVars, fsVars, dirVars
<1>2. CASE SaveMkdir(t)
  BY <1>1, <1>2 DEF SaveMkdir, MakeDir
<1>3. CASE SaveOpen(t)
  BY <1>1, <1>3 DEF SaveOpen
<1>4. CASE SaveWrite(t)
  BY <1>1, <1>4 DEF SaveWrite
<1>5. QED
  BY <1>2, <1>3, <1>4 DEF Save

LEMMA TouchAlone ==
  ASSUME SoloInv, NEW t \in Threads, alone[t], Touch(t) \/ TouchWrite(t)
  PROVE  SoloFine(t) /\ SoloServed(t)
<1>1. /\ RequestTypes /\ DiskTypes /\ Busy(t) /\ key[t] \in Keys /\ SoloFiles(t) /\ key[t] \in project
  <2>1. /\ RequestTypes /\ DiskTypes /\ Busy(t) /\ key[t] \in Keys /\ SoloFiles(t)
    BY SoloFacts
  <2>2. QED
    BY <2>1 DEF Touch, TouchWrite, SoloFiles
<1>2. CASE Touch(t)
  <2>1. /\ pc[t] = "touch" /\ pc'[t] = "touchWrite" /\ UNCHANGED <<reqVars, answer, project, dirVars>>
        /\ meta'[key[t]] = "partial"
    BY <1>1, <1>2 DEF Touch, OpenMeta, Continue, Goto, RequestTypes, DiskTypes
  <2>2. SoloFiles(t)'
    BY <1>1, <2>1 DEF SoloFiles, Ready, Caching, CacheSteps, EvictSteps, SaveSteps, reqVars, dirVars
  <2>3. QED
    BY <2>1, <2>2, NoEviction DEF EvictSteps, SoloServed
<1>3. CASE TouchWrite(t)
  <2>1. pc[t] = "touchWrite" /\ pc'[t] = "evict" /\ UNCHANGED <<reqVars, answer, project, dirVars>>
    BY <1>1, <1>3 DEF TouchWrite, Continue, Goto, RequestTypes
  <2>2. meta[key[t]] = "partial"
    BY <1>1, <2>1 DEF SoloFiles
  <2>3. older' = Latest(key[t])
    BY <1>3, <2>2 DEF TouchWrite, WriteMeta
  <2>4. older'[key[t]] = project \ {key[t]}
    BY <1>1, <2>3 DEF Latest, Placed
  <2>5. SoloEvicts(t)'
    BY <2>1, <2>4 DEF SoloEvicts, reqVars
  <2>6. SoloFiles(t)'
    BY <1>1, <2>1 DEF SoloFiles, Ready, Caching, CacheSteps, EvictSteps, SaveSteps, reqVars, dirVars
  <2>7. QED
    BY <2>1, <2>5, <2>6 DEF SoloFine, Solo, SoloServed
<1>4. QED
  BY <1>2, <1>3

\* evict ends, for a request that has room.
LEMMA ReturnAlone ==
  ASSUME SoloInv, NEW t \in Threads, alone[t], pc[t] \in EvictSteps, Return(t),
         UNCHANGED fsVars, Cardinality(project) <= MaxProjects
  PROVE  SoloFine(t) /\ SoloServed(t)
<1>1. /\ RequestTypes /\ SoloFiles(t)
  BY SoloFacts
<1>2. UNCHANGED <<project, inDir, outDir, result, meta, older>>
  BY DEF fsVars, dirVars
<1>3. CASE phase[t] = "prepare"
  <2>1. pc'[t] = "lock" /\ UNCHANGED <<reqVars, answer>>
    BY <1>1, <1>3 DEF Return, Continue, Goto, RequestTypes
  <2>2. SoloEvicts(t)'
    BY <2>1 DEF SoloEvicts, EvictSteps, fsVars
  <2>3. SoloFiles(t)'
    BY <1>1, <1>3, <2>1 DEF SoloFiles, Ready, Caching, CacheSteps, EvictSteps, SaveSteps, reqVars, fsVars,
       dirVars
  <2>4. QED
    BY <2>1, <2>2, <2>3 DEF SoloFine, Solo, SoloServed
<1>4. CASE phase[t] = "save"
  <2>1. got[t] = "right"
    BY <1>1, <1>4 DEF SoloFiles, Caching, CacheSteps
  <2>2. pc'[t] = "idle" /\ answer'[t] = "right"
    BY <1>1, <1>4, <2>1 DEF Return, Reply, Goto, RequestTypes
  <2>3. QED
    BY <2>2 DEF SoloFine, SoloServed
<1>5. QED
  BY <1>1, <1>3, <1>4 DEF RequestTypes

\* A step of evict that leaves what the request has, and its project, alone.
LEMMA EvictFiles ==
  ASSUME SoloInv, NEW t \in Threads, alone[t], pc[t] \in EvictSteps, pc'[t] \in EvictSteps,
         UNCHANGED <<reqVars, answer>>, key[t] \in project',
         inDir'[key[t]] = inDir[key[t]], outDir'[key[t]] = outDir[key[t]],
         result'[key[t]] = result[key[t]]
  PROVE  SoloFiles(t)' /\ SoloServed(t)
  BY DEF SoloInv, Solo, SoloFiles, SoloServed, Ready, Caching, CacheSteps, EvictSteps, SaveSteps, reqVars

LEMMA EvictListAlone ==
  ASSUME SoloInv, NEW t \in Threads, alone[t], EvictList(t)
  PROVE  SoloFine(t) /\ SoloServed(t)
<1>1. /\ RequestTypes /\ EvictTypes /\ SoloFiles(t) /\ SoloEvicts(t) /\ pc[t] = "evict"
      /\ UNCHANGED fsVars /\ project \subseteq Keys
  BY SoloFacts DEF EvictList, SoloInv, TypeOK, DiskTypes
<1>2. CASE Cardinality(project) <= MaxProjects
  BY <1>1, <1>2, ReturnAlone DEF EvictList, EvictSteps
<1>3. CASE ~(Cardinality(project) <= MaxProjects)
  <2>1. pc'[t] = "evictSort" /\ UNCHANGED <<reqVars, answer>> /\ seen'[t] = project
    BY <1>1, <1>3 DEF EvictList, Continue, Goto, RequestTypes, EvictTypes
  <2>2. SoloEvicts(t)'
    BY <1>1, <2>1 DEF SoloEvicts, EvictSteps, reqVars, fsVars
  <2>3. key[t] \in project
    BY <1>1 DEF SoloFiles
  <2>4. SoloFiles(t)' /\ SoloServed(t)
    BY <1>1, <2>1, <2>3, EvictFiles DEF EvictSteps, fsVars, dirVars
  <2>5. QED
    BY <2>2, <2>4 DEF SoloFine, Solo
<1>4. QED
  BY <1>2, <1>3

LEMMA EvictSortAlone ==
  ASSUME SoloInv, NEW t \in Threads, alone[t], EvictSort(t)
  PROVE  SoloFine(t) /\ SoloServed(t)
<1> DEFINE k == key[t]
           left == project \ Victims(project)
<1>1. /\ RequestTypes /\ EvictTypes /\ DiskTypes /\ SoloFiles(t) /\ SoloEvicts(t) /\ pc[t] = "evictSort"
      /\ UNCHANGED fsVars /\ k \in Keys /\ TypeOK /\ Ranked
  BY SoloFacts DEF EvictSort, SoloInv, TypeOK
<1>2. seen[t] = project /\ older[k] = project \ {k} /\ k \in project
  BY <1>1 DEF SoloEvicts, SoloFiles, EvictSteps
<1>3. /\ pc'[t] = "evictScan" /\ UNCHANGED <<reqVars, answer>> /\ seen'[t] = Victims(project)
  BY <1>1, <1>2 DEF EvictSort, Continue, Goto, RequestTypes, EvictTypes
<1>4. /\ Victims(project) \subseteq project
      /\ Cardinality(left) <= MaxProjects
      /\ Victims(project) # {} => Cardinality(left) >= MaxProjects
  BY <1>1, VictimsAre
<1>5. k \notin Victims(project)
  <2>1. \A j \in project : k \notin older[j]
    <3>1. \A j \in project \ {k} : j \in older[k] /\ j \in Keys
      BY <1>1, <1>2 DEF DiskTypes
    <3>2. QED
      BY <1>1, <3>1 DEF Ranked
  <2>2. {j \in project : k \in older[j]} = {}
    BY <2>1
  <2>3. Cardinality({j \in project : k \in older[j]}) = 0
    BY <2>2, FS_EmptySet
  <2>4. MaxProjects \in Nat \ {0}
    BY CacheAssumption
  <2>5. k \in Victims(project) => Cardinality({j \in project : k \in older[j]}) >= MaxProjects
    BY DEF Victims
  <2> HIDE DEF k
  <2>6. QED
    BY <2>3, <2>4, <2>5
<1>6. Going(t)' = Victims(project)
  BY <1>3 DEF Going
<1>7. SoloEvicts(t)'
  <2> HIDE DEF k
  <2>1. /\ project' = project /\ older' = older /\ key'[t] = key[t]
    BY <1>1, <1>3 DEF fsVars, reqVars
  <2> HIDE DEF left
  <2>2. (project \ Going(t))' = left
    BY <1>6, <2>1 DEF left
  <2>3. key[t] = k
    BY DEF k
  <2>4. /\ (Cardinality(project \ Going(t)) <= MaxProjects)'
        /\ Going(t)' # {} => (Cardinality(project \ Going(t)) >= MaxProjects)'
    <3>1. (Cardinality(project \ Going(t)))' = Cardinality(left)
      BY <2>2
    <3>2. QED
      BY <1>4, <1>6, <3>1
  <2>5. (key[t] \notin Going(t) /\ Going(t) \subseteq project)'
    BY <1>4, <1>5, <1>6, <2>1, <2>3
  <2>6. QED
    BY <1>3, <2>4, <2>5 DEF SoloEvicts
<1>8. SoloFiles(t)' /\ SoloServed(t)
  BY <1>1, <1>2, <1>3, EvictFiles DEF EvictSteps, fsVars, dirVars
<1>9. QED
  BY <1>7, <1>8 DEF SoloFine, Solo

LEMMA EvictScanAlone ==
  ASSUME SoloInv, NEW t \in Threads, alone[t], EvictScan(t)
  PROVE  SoloFine(t) /\ SoloServed(t)
<1>1. /\ RequestTypes /\ EvictTypes /\ DiskTypes /\ SoloFiles(t) /\ SoloEvicts(t) /\ pc[t] = "evictScan"
      /\ UNCHANGED fsVars
  BY SoloFacts DEF EvictScan, SoloInv, TypeOK
<1>2. /\ Going(t) = seen[t] /\ key[t] \notin Going(t) /\ Going(t) \subseteq project
      /\ Cardinality(project \ Going(t)) <= MaxProjects
      /\ Going(t) # {} => Cardinality(project \ Going(t)) >= MaxProjects
  BY <1>1 DEF SoloEvicts, Going, EvictSteps
<1>3. CASE seen[t] = {} /\ Return(t)
  <2>1. project \ Going(t) = project
    BY <1>2, <1>3
  <2>2. Cardinality(project) <= MaxProjects
    BY <1>2, <2>1
  <2>3. QED
    BY <1>1, <1>3, <2>2, ReturnAlone DEF EvictSteps
<1>4. ASSUME NEW k \in seen[t], Continue(t, "evictRemove"), seen' = [seen EXCEPT ![t] = @ \ {k}],
             victim' = [victim EXCEPT ![t] = k], toRemove' = [toRemove EXCEPT ![t] = EntriesOf(k)]
      PROVE  SoloFine(t) /\ SoloServed(t)
  <2>1. /\ pc'[t] = "evictRemove" /\ UNCHANGED <<reqVars, answer>> /\ seen'[t] = seen[t] \ {k}
        /\ victim'[t] = k /\ toRemove'[t] = EntriesOf(k)
    BY <1>1, <1>4 DEF Continue, Goto, RequestTypes, EvictTypes
  <2>2. Going(t)' = Going(t)
    BY <1>2, <1>4, <2>1 DEF Going
  <2>3. UNCHANGED <<project, older, inDir, outDir, result, meta>> /\ key'[t] = key[t]
    BY <1>1, <2>1 DEF fsVars, dirVars, reqVars
  <2>4. EntriesOf(victim[t])' = EntriesOf(k)
    BY <2>1, <2>3 DEF EntriesOf
  <2>5. SoloEvicts(t)'
    BY <1>2, <2>1, <2>2, <2>3, <2>4 DEF SoloEvicts, EvictSteps
  <2>6. SoloFiles(t)' /\ SoloServed(t)
    BY <1>1, <2>1, <2>3, EvictFiles DEF EvictSteps, SoloFiles
  <2>7. QED
    BY <2>5, <2>6 DEF SoloFine, Solo
<1>5. QED
  BY <1>3, <1>4 DEF EvictScan

\* The victim is not the project of the request.
LEMMA VictimAlone ==
  ASSUME SoloInv, NEW t \in Threads, alone[t], pc[t] = "evictRemove"
  PROVE  /\ victim[t] \in Keys /\ victim[t] # key[t] /\ victim[t] \in project
         /\ victim[t] \notin seen[t] /\ EntriesOf(victim[t]) \subseteq toRemove[t]
         /\ Going(t) = seen[t] \cup {victim[t]}
<1>1. /\ EvictTypes /\ SoloEvicts(t)
  BY SoloFacts DEF SoloInv, TypeOK
<1>2. Going(t) = seen[t] \cup {victim[t]}
  BY DEF Going
<1>3. QED
  BY <1>1, <1>2 DEF SoloEvicts, EvictTypes

LEMMA EvictEntryAlone ==
  ASSUME SoloInv, NEW t \in Threads, alone[t], EvictEntry(t)
  PROVE  SoloFine(t) /\ SoloServed(t)
<1> DEFINE k == victim[t]
<1>1. /\ RequestTypes /\ EvictTypes /\ DiskTypes /\ SoloFiles(t) /\ SoloEvicts(t) /\ pc[t] = "evictRemove"
      /\ \A u \in Threads \ {t} : ~Busy(u)
  BY SoloFacts DEF EvictEntry, SoloInv, TypeOK
<1>2. /\ k \in Keys /\ k # key[t] /\ EntriesOf(k) \subseteq toRemove[t]
  BY <1>1, VictimAlone
<1>3. UNCHANGED <<pc, reqVars, answer, seen, victim, project>>
  BY DEF EvictEntry
<1>4. PICK e \in toRemove[t] :
        /\ e = "in" => "input" \notin toRemove[t]
        /\ toRemove' = [toRemove EXCEPT ![t] = @ \ {e}]
        /\ \E l \in {inDir[k], "partial", "absent"} :
             /\ inDir' = [inDir EXCEPT ![k] = l]
             /\ e = "input" => l = IF inDir[k] = "full" THEN "partial" ELSE inDir[k]
             /\ e = "in" => l = "absent"
             /\ e \notin {"input", "in"} => l = inDir[k]
        /\ outDir' = IF e = "out" THEN [outDir EXCEPT ![k] = "absent"] ELSE outDir
        /\ result' = IF e = "result" THEN [result EXCEPT ![k] = "absent"] ELSE result
        /\ meta' = IF e = "meta" THEN [meta EXCEPT ![k] = "absent"] ELSE meta
  <2>1. ~\E u \in Threads \ {t} : Busy(u) /\ key[u] = k
    BY <1>1
  <2>2. QED
    BY <2>1 DEF EvictEntry
<1>5. /\ inDir'[key[t]] = inDir[key[t]] /\ outDir'[key[t]] = outDir[key[t]]
      /\ result'[key[t]] = result[key[t]]
  BY <1>1, <1>2, <1>4 DEF DiskTypes, RequestTypes, Busy
<1>6. EntriesOf(k)' \subseteq toRemove'[t]
  <2>1. toRemove'[t] = toRemove[t] \ {e}
    BY <1>1, <1>4 DEF EvictTypes
  <2>2. victim'[t] = k
    BY <1>3
  <2>3. ASSUME NEW x \in EntriesOf(k)'
        PROVE  x \in EntriesOf(k) /\ x # e
    <3>1. inDir'[k] = "full" => inDir[k] = "full" /\ e \notin {"input", "in"}
      BY <1>1, <1>2, <1>4 DEF DiskTypes
    <3>2. inDir'[k] # "absent" => inDir[k] # "absent" /\ e # "in"
      <4>1. e = "input" => "input" \in toRemove[t]
        BY <1>4
      <4>2. QED
        BY <1>1, <1>2, <1>4, <2>3 DEF DiskTypes, EntriesOf
    <3>3. outDir'[k] # "absent" => outDir[k] # "absent" /\ e # "out"
      BY <1>1, <1>2, <1>4 DEF DiskTypes
    <3>4. result'[k] # "absent" => result[k] # "absent" /\ e # "result"
      BY <1>1, <1>2, <1>4 DEF DiskTypes
    <3>5. meta'[k] # "absent" => meta[k] # "absent" /\ e # "meta"
      BY <1>1, <1>2, <1>4 DEF DiskTypes
    <3>6. QED
      BY <2>2, <2>3, <3>1, <3>2, <3>3, <3>4, <3>5 DEF EntriesOf
  <2>4. QED
    BY <1>2, <2>1, <2>3
<1>7. SoloEvicts(t)'
  <2>1. Going(t)' = Going(t) /\ key'[t] = key[t]
    BY <1>3 DEF Going, reqVars
  <2>2. QED
    BY <1>1, <1>3, <1>6, <2>1 DEF SoloEvicts
<1>8. SoloFiles(t)' /\ SoloServed(t)
  BY <1>1, <1>3, <1>5, EvictFiles DEF EvictSteps, SoloFiles
<1>9. QED
  BY <1>7, <1>8 DEF SoloFine, Solo

LEMMA EvictRmdirAlone ==
  ASSUME SoloInv, NEW t \in Threads, alone[t], EvictRmdir(t)
  PROVE  SoloFine(t) /\ SoloServed(t)
<1> DEFINE k == victim[t]
<1>1. /\ RequestTypes /\ EvictTypes /\ DiskTypes /\ SoloFiles(t) /\ SoloEvicts(t) /\ pc[t] = "evictRemove"
  BY SoloFacts DEF EvictRmdir, SoloInv, TypeOK
<1>2. /\ k \in Keys /\ k # key[t] /\ EntriesOf(k) \subseteq toRemove[t] /\ k \in project
      /\ k \notin seen[t] /\ Going(t) = seen[t] \cup {k}
  BY <1>1, VictimAlone
<1>3. EntriesOf(k) = {}
  BY <1>2 DEF EvictRmdir
<1>4. /\ project' = project \ {k} /\ pc'[t] = "evictScan"
      /\ UNCHANGED <<reqVars, answer, seen, dirVars, meta>>
  BY <1>1, <1>3 DEF EvictRmdir, Continue, Goto, RequestTypes
<1>5. Going(t)' = seen[t] /\ (project \ Going(t))' = project \ Going(t)
  BY <1>2, <1>4 DEF Going
<1>6. SoloEvicts(t)'
  <2>1. key'[t] = key[t]
    BY <1>4 DEF reqVars
  <2>2. /\ Going(t)' \subseteq Going(t) /\ Going(t)' \subseteq project' /\ k \notin Going(t)'
    BY <1>1, <1>2, <1>4, <1>5 DEF SoloEvicts
  <2>3. QED
    BY <1>1, <1>4, <1>5, <2>1, <2>2 DEF SoloEvicts, EvictSteps
<1>7. key[t] \in project'
  BY <1>1, <1>2, <1>4 DEF SoloFiles
<1>8. SoloFiles(t)' /\ SoloServed(t)
  BY <1>1, <1>4, <1>7, EvictFiles DEF EvictSteps, dirVars
<1>9. QED
  BY <1>6, <1>8 DEF SoloFine, Solo

LEMMA WorkAlone ==
  ASSUME SoloInv, NEW t \in Threads, alone[t], Work(t)
  PROVE  SoloFine(t) /\ SoloServed(t)
<1>1. CASE Load(t)
  BY <1>1, LoadAlone
<1>2. CASE Prepare(t)
  BY <1>2, PrepareAlone
<1>3. CASE TouchEvict(t)
  BY <1>3, TouchAlone, EvictListAlone, EvictSortAlone, EvictScanAlone, EvictEntryAlone, EvictRmdirAlone
     DEF TouchEvict
<1>4. CASE AcquireLock(t) \/ Locked(t) \/ CollectOutputs(t)
  BY <1>4, ConvertAlone
<1>5. CASE Save(t)
  BY <1>5, SaveAlone
<1>6. QED
  BY <1>1, <1>2, <1>3, <1>4, <1>5 DEF Work

\* A thread that works is alone, or nobody is.
LEMMA WorkKeepsSolo ==
  ASSUME SoloInv, TypeOK', NEW t \in Threads, Work(t)
  PROVE  SoloInv'
<1>1. /\ TypeOK /\ Ranked /\ FilesAreThere /\ Phases /\ Busy(t)
      /\ \A u \in Threads : alone[u] => Busy(u) /\ Solo(u) /\ \A v \in Threads \ {u} : ~Busy(v)
  BY WorkIsBusy DEF SoloInv
<1>2. Ranked' /\ FilesAreThere' /\ Steers(t)
  BY <1>1, WorkRanked, WorkFilesAreThere, WorkSteers
<1>3. Phases'
  BY <1>1, <1>2 DEF Steers, Phases
<1>4. ASSUME NEW u \in Threads, alone'[u]
      PROVE  Busy(u)' /\ Solo(u)' /\ \A v \in Threads \ {u} : ~Busy(v)'
  <2>1. u = t /\ alone[t] /\ pc'[t] # "idle"
    BY <1>1, <1>2, <1>4 DEF Steers
  <2>2. Solo(t)'
    BY <2>1, WorkAlone DEF SoloFine
  <2>3. \A v \in Threads \ {t} : ~Busy(v) /\ pc'[v] = pc[v]
    BY <1>1, <1>2, <2>1 DEF Steers
  <2>4. QED
    BY <2>1, <2>2, <2>3 DEF Busy
<1>5. QED
  BY <1>2, <1>3, <1>4 DEF SoloInv

\* A request that finds nobody else at work begins alone; one that does not
\* ends the solitude of the other.
LEMMA BeginKeepsSolo ==
  ASSUME SoloInv, TypeOK', NEW t \in Threads, NEW k \in Keys, Begin(t, k)
  PROVE  SoloInv'
<1>1. TypeOK /\ Ranked /\ FilesAreThere /\ Phases
  BY DEF SoloInv
<1>2. /\ pc[t] = "idle" /\ pc' = [pc EXCEPT ![t] = "load"] /\ key' = [key EXCEPT ![t] = k]
      /\ alone' = [u \in Threads |-> u = t /\ \A v \in Threads : ~Busy(v)]
      /\ UNCHANGED <<phase, got, project, inDir, outDir, result, meta, older>>
  BY DEF Begin, Goto, fsVars, dirVars
<1>3. Ranked' /\ FilesAreThere'
  BY <1>1, <1>2 DEF Ranked, FilesAreThere, EntriesOf
<1>4. pc'[t] = "load" /\ \A u \in Threads \ {t} : pc'[u] = pc[u]
  BY <1>1, <1>2 DEF TypeOK, RequestTypes
<1>5. phase[t] = "prepare"
  BY <1>1, <1>2 DEF Phases, CacheSteps, EvictSteps, SaveSteps
<1>6. Phases'
  BY <1>1, <1>2, <1>4, <1>5 DEF Phases, CacheSteps, EvictSteps, SaveSteps
<1>7. Solo(t)'
  BY <1>4 DEF Solo, SoloFiles, SoloEvicts, Ready, Caching, CacheSteps, EvictSteps, SaveSteps
<1>8. ASSUME NEW u \in Threads, alone'[u]
      PROVE  Busy(u)' /\ Solo(u)' /\ \A v \in Threads \ {u} : ~Busy(v)'
  <2>1. u = t /\ \A v \in Threads : ~Busy(v)
    BY <1>2, <1>8
  <2>2. QED
    BY <1>4, <1>7, <2>1 DEF Busy
<1>9. QED
  BY <1>3, <1>6, <1>8 DEF SoloInv

LEMMA RestartKeepsSolo ==
  ASSUME SoloInv, TypeOK', Restart
  PROVE  SoloInv'
  BY DEF SoloInv, Restart, Ranked, FilesAreThere, EntriesOf, Phases, CacheSteps, EvictSteps, SaveSteps, fsVars, dirVars

LEMMA StutterKeepsSolo ==
  ASSUME SoloInv, TypeOK', UNCHANGED vars
  PROVE  SoloInv'
<1>1. UNCHANGED <<pc, key, phase, got, alone, seen, victim, toRemove, project, inDir, outDir, result, meta, older>>
  BY DEF vars, reqVars, evictVars, fsVars, dirVars
<1>2. Ranked' /\ FilesAreThere' /\ Phases'
  BY <1>1 DEF SoloInv, Ranked, FilesAreThere, EntriesOf, Phases
<1>3. ASSUME NEW t \in Threads
      PROVE  (Solo(t)' <=> Solo(t)) /\ (Busy(t)' <=> Busy(t))
  <2>1. (Going(t)' = Going(t)) /\ (EntriesOf(victim[t])' = EntriesOf(victim[t]))
    BY <1>1 DEF Going, EntriesOf
  <2>2. SoloEvicts(t)' <=> SoloEvicts(t)
    BY <1>1, <2>1 DEF SoloEvicts
  <2>3. SoloFiles(t)' <=> SoloFiles(t)
    BY <1>1 DEF SoloFiles, Ready, Caching
  <2>4. QED
    BY <1>1, <2>2, <2>3 DEF Solo, Busy
<1>4. QED
  BY <1>1, <1>2, <1>3 DEF SoloInv

\* Whatever overlapping requests, evictions and kills have left on disk, what
\* a request that runs alone has made is as it has left it.
THEOREM SoloInvariant == Spec => []SoloInv
<1>1. Init => SoloInv
  <2> SUFFICES ASSUME Init
               PROVE  Ranked /\ FilesAreThere /\ Phases /\ \A t \in Threads : ~alone[t]
    BY InitTypes DEF SoloInv
  <2>1. QED
    BY DEF Init, Ranked, FilesAreThere, EntriesOf, Entries, Phases, CacheSteps, EvictSteps, SaveSteps
<1>2. SoloInv /\ TypeOK' /\ [Next]_vars => SoloInv'
  BY WorkKeepsSolo, BeginKeepsSolo, RestartKeepsSolo, StutterKeepsSolo DEF Next, Serving
<1>3. QED
  BY <1>1, <1>2, TypeCorrect, PTL DEF Spec

\* A request that runs alone starts its conversion with at most MaxProjects
\* projects on disk, however many there were before it.
THEOREM CleanedUpAlone == Spec => []CleanedUp
<1>1. SoloInv => CleanedUp
  BY DEF SoloInv, Solo, SoloEvicts, CleanedUp
<1>2. QED
  BY <1>1, SoloInvariant, PTL

\* It is converted from whole inputs, and never fails for want of files.
THEOREM SoloServedAlways == Spec => SoloRequestIsServed
<1>1. SoloInv /\ [Next]_vars
        => [\A t \in Threads :
              alone[t] /\ pc'[t] = "idle"
                => \/ answer'[t] \in {"none", "right", "failed"}
                   \/ pc[t] = "loadWrite" /\ answer'[t] = "wrong"]_vars
  <2> SUFFICES ASSUME SoloInv, Next, NEW t \in Threads, alone[t], pc'[t] = "idle"
               PROVE  \/ answer'[t] \in {"none", "right", "failed"}
                      \/ pc[t] = "loadWrite" /\ answer'[t] = "wrong"
    OBVIOUS
  <2>1. Busy(t) /\ TypeOK /\ Phases /\ \A u \in Threads \ {t} : ~Busy(u)
    BY DEF SoloInv
  <2>2. ASSUME NEW u \in Threads, Work(u)
        PROVE  SoloServed(t)
    <3>1. u = t
      BY <2>1, <2>2, WorkIsBusy
    <3>2. QED
      BY <2>2, <3>1, WorkAlone
  <2>3. ASSUME NEW u \in Threads, NEW k \in Keys, Begin(u, k)
        PROVE  FALSE
    BY <2>1, <2>3 DEF Begin, Goto, Busy, TypeOK, RequestTypes
  <2>4. CASE Restart
    BY <2>4 DEF Restart
  <2>5. QED
    BY <2>2, <2>3, <2>4 DEF Next, Serving, SoloServed
<1>2. QED
  BY <1>1, SoloInvariant, PTL DEF Spec, SoloRequestIsServed

(***************************************************************************)
(* One conversion at a time: every request runs alone, so that evict only  *)
(* ever removes what enough others were used after, or may have been if a  *)
(* kill tore their metadata.  Where two requests overlap one may go by a   *)
(* last use that the other has changed since.                              *)
(***************************************************************************)
OneAtATime == \A t, u \in Threads : t = u

AllAlone == \A t \in Threads : Busy(t) => alone[t]

\* The steps that follow the making of a project or the truncation of its
\* metadata.json, up to the end of _touch.
Untimed ==
  {"makeIn", "clearOut", "removeOut", "makeOut", "truncateIn", "writeIn", "touch",
   "touchWrite", "loadWrite"}

UnderWay(t, k) ==
  \/ key[t] = k /\ pc[t] \in Untimed
  \/ pc[t] = "evictRemove" /\ victim[t] = k

\* A project without the time of its last use is torn or in hand.
Known ==
  /\ torn \subseteq project /\ \A k \in torn : meta[k] # "whole"
  /\ \A k \in project \ torn : meta[k] = "whole" \/ \E t \in Threads : UnderWay(t, k)

\* The times of last use tell the order of use.
Told ==
  \A j, k \in project :
    meta[j] = "whole" /\ meta[k] = "whole" /\ k \in older[j] => k \in before[j]

\* The project in hand was used last; what evict is to remove was used before
\* all that stays, as far as is known.
LastUsed(t) ==
  /\ pc[t] \in {"touchWrite", "loadWrite"} =>
       key[t] \notin torn /\ project \ (torn \cup {key[t]}) \subseteq before[key[t]]
  /\ pc[t] \in {"evictScan", "evictRemove"} =>
       \A v \in Going(t) \ torn, j \in project \ (Going(t) \cup torn) : v \in before[j]

Kept == Known /\ Told /\ \A t \in Threads : LastUsed(t)

\* The history that a step leaves when it is no use of a project.
LEMMA Unused ==
  ASSUME OneAtATime, UseTypeOK, UseServing, NEW t \in Threads, pc[t] \notin {"loadTouch", "touch"}
  PROVE  /\ \A k \in Keys : before'[k] = before[k] \cap project'
         /\ torn' = torn \cap project'
<1>1. \A k : ~Used(k)
  BY DEF Used, OneAtATime
<1>2. QED
  BY <1>1 DEF UseServing, UseTypeOK

\* A step that neither makes nor removes a project, nor touches one, and that
\* may only date a project without metadata.
LEMMA QuietKeeps ==
  ASSUME OneAtATime, SoloInv, UseTypeOK, Kept, UseServing, NEW t \in Threads,
         pc[t] \notin {"loadTouch", "touch", "evictRemove"},
         UNCHANGED <<project, meta>>,
         older' = older \/ (TimedByDir(key[t]) /\ older' = Latest(key[t])),
         pc[t] \in Untimed => pc'[t] \in Untimed /\ key'[t] = key[t],
         pc'[t] \notin {"touchWrite", "loadWrite", "evictScan", "evictRemove"}
  PROVE  Kept'
<1>1. /\ \A k \in Keys : before'[k] = before[k] \cap project
      /\ torn' = torn
  BY Unused DEF Kept, Known
<1>2. Known'
  <2>1. \A k \in project \ torn : meta[k] = "whole" \/ UnderWay(t, k)
    BY DEF Kept, Known, OneAtATime
  <2>2. \A k : UnderWay(t, k) => UnderWay(t, k)'
    BY DEF UnderWay
  <2>3. QED
    BY <1>1, <2>1, <2>2 DEF Kept, Known
<1>3. Told'
  <2>1. \A j, k \in project : meta[j] = "whole" /\ meta[k] = "whole" /\ k \in older'[j] => k \in older[j]
    BY DEF Latest, Placed, TimedByDir, SoloInv, TypeOK, DiskTypes
  <2>2. project \subseteq Keys
    BY DEF SoloInv, TypeOK, DiskTypes
  <2>3. QED
    BY <1>1, <2>1, <2>2 DEF Kept, Told
<1>4. \A u \in Threads : LastUsed(u)'
  BY DEF LastUsed, OneAtATime
<1>5. QED
  BY <1>2, <1>3, <1>4 DEF Kept

LEMMA MakeProjectKeeps ==
  ASSUME OneAtATime, SoloInv, UseTypeOK, Kept, UseServing, NEW t \in Threads, MakeProject(t)
  PROVE  Kept'
<1> DEFINE k == key[t]
<1>1. /\ pc[t] = "makeProject" /\ pc'[t] = "makeIn" /\ key'[t] = k /\ k \in Keys
      /\ RequestTypes /\ DiskTypes /\ FilesAreThere
  BY DEF MakeProject, Continue, Goto, reqVars, SoloInv, TypeOK, RequestTypes, Busy
<1>2. UNCHANGED meta /\ project' = project \cup {k}
  BY DEF MakeProject, MakeDir
<1>3. CASE k \in project
  <2>1. UNCHANGED <<project, meta, older>>
    BY <1>2, <1>3 DEF MakeProject
  <2>2. QED
    BY <1>1, <2>1, QuietKeeps DEF Untimed
<1>4. CASE k \notin project
  <2>1. meta[k] # "whole"
    BY <1>1, <1>4 DEF FilesAreThere, EntriesOf, Entries
  <2>2. older' = Latest(k)
    BY <1>4, <2>1 DEF MakeProject, DirChanges, TimedByDir
  <2>3. torn' = torn /\ \A j \in Keys : before'[j] = before[j] \cap project'
    BY <1>1, <1>2, Unused DEF Kept, Known
  <2>4. Known'
    <3>1. \A j \in project \ torn : meta[j] = "whole"
      BY <1>1 DEF Kept, Known, OneAtATime, UnderWay, Untimed
    <3>2. torn' \subseteq project' /\ \A j \in torn' : meta'[j] # "whole"
      BY <1>2, <2>3 DEF Kept, Known
    <3>3. \A j \in project' \ torn' : meta'[j] = "whole" \/ j = k
      BY <1>2, <2>3, <3>1
    <3>4. UnderWay(t, k)'
      BY <1>1 DEF UnderWay, Untimed
    <3>5. QED
      BY <1>1, <3>2, <3>3, <3>4 DEF Known
  <2>5. Told'
    <3>1. \A i, j \in project' :
            meta[i] = "whole" /\ meta[j] = "whole" /\ j \in older'[i]
              => i \in project /\ j \in project /\ j \in older[i]
      BY <1>1, <1>2, <2>1, <2>2 DEF Latest, Placed, DiskTypes
    <3>2. QED
      BY <1>1, <1>2, <2>3, <3>1 DEF Kept, Told, DiskTypes
  <2>6. \A u \in Threads : LastUsed(u)'
    BY <1>1 DEF LastUsed, OneAtATime
  <2>7. QED
    BY <2>4, <2>5, <2>6 DEF Kept
<1>5. QED
  BY <1>3, <1>4

\* _touch truncates metadata.json: the project is used, whatever was known of
\* it, and nothing else changes for those whose metadata is whole.
LEMMA OpenKeeps ==
  ASSUME OneAtATime, SoloInv, UseTypeOK, Kept, UseServing, NEW t \in Threads,
         pc[t] \in {"loadTouch", "touch"}, key[t] \in project,
         pc'[t] \in {"loadWrite", "touchWrite"}, key'[t] = key[t], UNCHANGED project,
         OpenMeta(key[t])
  PROVE  Kept'
<1> DEFINE k == key[t]
<1>1. k \in Keys /\ DiskTypes
  BY DEF SoloInv, TypeOK, DiskTypes
<1>2. \A j : Used(j) <=> j = k
  BY DEF Used, OneAtATime
<1>3. /\ before'[k] = project \ (torn \cup {k})
      /\ \A j \in Keys \ {k} : before'[j] = (before[j] \cap project) \ {k}
      /\ torn' = torn \ {k}
  BY <1>1, <1>2 DEF UseServing, UseTypeOK, Kept, Known
<1>4. meta'[k] = "partial" /\ \A j \in Keys \ {k} : meta'[j] = meta[j]
  BY <1>1 DEF OpenMeta, DiskTypes
<1>5. \A i, j \in project \ {k} : i \in older'[j] => i \in older[j]
  BY <1>1 DEF OpenMeta, Latest, Placed, DiskTypes
<1>6. Known'
  <2>1. \A j \in project \ (torn \cup {k}) : meta[j] = "whole"
    BY DEF Kept, Known, OneAtATime, UnderWay, Untimed
  <2>2. UnderWay(t, k)'
    BY DEF UnderWay, Untimed
  <2>3. torn \subseteq project /\ project \subseteq Keys
    BY <1>1 DEF Kept, Known, DiskTypes
  <2>4. QED
    BY <1>3, <1>4, <2>1, <2>2, <2>3 DEF Kept, Known
<1>7. Told'
  BY <1>1, <1>3, <1>4, <1>5 DEF Kept, Told, DiskTypes
<1>8. \A u \in Threads : LastUsed(u)'
  BY <1>3 DEF LastUsed, OneAtATime
<1>9. QED
  BY <1>6, <1>7, <1>8 DEF Kept

\* and writes the time into it.
LEMMA WriteKeeps ==
  ASSUME OneAtATime, SoloInv, UseTypeOK, Kept, UseServing, NEW t \in Threads, SoloFiles(t),
         pc[t] \in {"loadWrite", "touchWrite"}, pc'[t] \in {"idle", "evict"}, UNCHANGED project,
         WriteMeta(key[t])
  PROVE  Kept'
<1> DEFINE k == key[t]
<1>1. k \in project /\ k \in Keys /\ DiskTypes /\ meta[k] = "partial"
  BY DEF SoloInv, TypeOK, DiskTypes, SoloFiles
<1>2. /\ \A j \in Keys : before'[j] = before[j] \cap project
      /\ torn' = torn
  BY Unused DEF Kept, Known
<1>3. /\ meta'[k] = "whole" /\ \A j \in Keys \ {k} : meta'[j] = meta[j]
      /\ older'[k] = project \ {k} /\ \A j \in project \ {k} : older'[j] = older[j] \ {k}
  BY <1>1 DEF WriteMeta, Latest, Placed, DiskTypes
<1>4. k \notin torn /\ project \ (torn \cup {k}) \subseteq before[k]
  BY DEF Kept, LastUsed
<1>5. Known'
  <2>1. \A j \in project \ torn : meta[j] = "whole" \/ j = k
    BY DEF Kept, Known, OneAtATime, UnderWay
  <2>2. QED
    BY <1>1, <1>2, <1>3, <1>4, <2>1 DEF Kept, Known, DiskTypes
<1>6. Told'
  <2> SUFFICES ASSUME NEW i \in project, NEW j \in project, meta'[i] = "whole", meta'[j] = "whole",
                      i \in older'[j]
               PROVE  i \in before'[j]
    BY DEF Told
  <2>1. CASE j = k
    <3>1. i # k /\ meta[i] = "whole"
      BY <1>1, <1>3, <2>1 DEF DiskTypes
    <3>2. i \notin torn
      BY <3>1 DEF Kept, Known
    <3>3. QED
      BY <1>1, <1>2, <1>4, <2>1, <3>1, <3>2 DEF DiskTypes
  <2>2. CASE j # k
    <3>1. i # k /\ meta[i] = "whole" /\ meta[j] = "whole" /\ i \in older[j]
      BY <1>1, <1>3, <2>2 DEF DiskTypes
    <3>2. QED
      BY <1>1, <1>2, <3>1 DEF Kept, Told, DiskTypes
  <2>3. QED
    BY <2>1, <2>2
<1>7. \A u \in Threads : LastUsed(u)'
  BY DEF LastUsed, OneAtATime
<1>8. QED
  BY <1>5, <1>6, <1>7 DEF Kept

LEMMA EvictSortKeeps ==
  ASSUME OneAtATime, SoloInv, UseTypeOK, Kept, UseServing, NEW t \in Threads, alone[t], EvictSort(t)
  PROVE  Kept'
<1>1. /\ pc[t] = "evictSort" /\ seen[t] = project /\ UNCHANGED fsVars
      /\ TypeOK /\ Ranked /\ RequestTypes /\ EvictTypes /\ DiskTypes
  BY SoloFacts DEF EvictSort, SoloInv, TypeOK, SoloEvicts
<1>2. pc'[t] = "evictScan" /\ seen'[t] = Victims(project)
  BY <1>1 DEF EvictSort, Continue, Goto, RequestTypes, EvictTypes
<1>3. UNCHANGED <<project, meta, older>>
  BY <1>1 DEF fsVars
<1>4. /\ \A k \in Keys : before'[k] = before[k] \cap project
      /\ torn' = torn
  BY <1>1, <1>3, Unused DEF Kept, Known
<1>5. Going(t)' = Victims(project)
  BY <1>2 DEF Going
<1>6. \A k \in project \ torn : meta[k] = "whole"
  BY <1>1 DEF Kept, Known, OneAtATime, UnderWay, Untimed
<1>7. \A v \in Victims(project) : v \in project /\ \A j \in project \ Victims(project) : v \in older[j]
  BY <1>1, VictimsAre
<1>8. LastUsed(t)'
  <2>1. ASSUME NEW v \in Victims(project) \ torn, NEW j \in project \ (Victims(project) \cup torn)
        PROVE  v \in before[j] \cap project
    BY <1>6, <1>7, <2>1 DEF Kept, Told
  <2>2. QED
    BY <1>1, <1>2, <1>3, <1>4, <1>5, <2>1 DEF LastUsed, DiskTypes
<1>9. Known' /\ Told'
  BY <1>1, <1>3, <1>4, <1>6 DEF Kept, Known, Told, DiskTypes
<1>10. QED
  BY <1>8, <1>9 DEF Kept, OneAtATime

LEMMA EvictPickKeeps ==
  ASSUME OneAtATime, SoloInv, UseTypeOK, Kept, UseServing, NEW t \in Threads, alone[t],
         pc[t] = "evictScan", NEW k \in seen[t], Continue(t, "evictRemove"),
         seen' = [seen EXCEPT ![t] = @ \ {k}], victim' = [victim EXCEPT ![t] = k], UNCHANGED fsVars
  PROVE  Kept'
<1>1. /\ pc'[t] = "evictRemove" /\ seen'[t] = seen[t] \ {k} /\ victim'[t] = k
      /\ UNCHANGED <<project, meta, older>> /\ DiskTypes
  BY DEF Continue, Goto, SoloInv, TypeOK, RequestTypes, EvictTypes, fsVars
<1>2. Going(t)' = Going(t)
  BY <1>1 DEF Going
<1>3. /\ \A j \in Keys : before'[j] = before[j] \cap project
      /\ torn' = torn
  BY <1>1, Unused DEF Kept, Known
<1>4. \A j \in project \ torn : meta[j] = "whole"
  BY DEF Kept, Known, OneAtATime, UnderWay, Untimed
<1>5. Known' /\ Told'
  BY <1>1, <1>3, <1>4 DEF Kept, Known, Told, DiskTypes
<1>6. LastUsed(t)'
  <2>1. Going(t) \subseteq project
    BY SoloFacts DEF SoloEvicts
  <2>2. QED
    BY <1>1, <1>2, <1>3, <2>1 DEF Kept, LastUsed, DiskTypes
<1>7. QED
  BY <1>5, <1>6 DEF Kept, OneAtATime

\* While a project is being removed the others are as they were; it may get a
\* new time when it has none of its own any more.
LEMMA EvictEntryKeeps ==
  ASSUME OneAtATime, SoloInv, UseTypeOK, Kept, UseServing, NEW t \in Threads, alone[t], EvictEntry(t)
  PROVE  Kept'
<1> DEFINE v == victim[t]
<1>1. /\ pc[t] = "evictRemove" /\ v \in Keys /\ v \in project /\ Going(t) = seen[t] \cup {v}
      /\ Going(t) \subseteq project /\ TypeOK /\ DiskTypes /\ UseTypeOK
  BY SoloFacts, VictimAlone DEF EvictEntry, SoloInv, TypeOK, SoloEvicts
<1>2. UNCHANGED <<pc, key, seen, victim, project>>
  BY DEF EvictEntry, reqVars
<1>3. /\ \A j \in Keys : before'[j] = before[j] \cap project
      /\ torn' = torn
  BY <1>1, <1>2, Unused DEF Kept, Known
<1>4. /\ \A j \in Keys \ {v} : meta'[j] = meta[j]
      /\ meta'[v] = meta[v] \/ meta'[v] = "absent"
  BY <1>1 DEF EvictEntry, DiskTypes
<1>5. older' = older \/ (older' = Latest(v) /\ meta'[v] # "whole")
  BY <1>1 DEF EvictEntry, TimedByDir, DiskTypes
<1>6. \A i, j \in project :
        meta'[i] = "whole" /\ meta'[j] = "whole" /\ i \in older'[j]
          => meta[i] = "whole" /\ meta[j] = "whole" /\ i \in older[j]
  BY <1>1, <1>4, <1>5 DEF Latest, Placed, DiskTypes
<1>7. Known'
  <2>1. \A j \in project \ torn : meta[j] = "whole" \/ j = v
    BY <1>1 DEF Kept, Known, OneAtATime, UnderWay, Untimed
  <2>2. \A j \in project \ torn : meta'[j] = "whole" \/ j = v
    BY <1>1, <1>4, <2>1 DEF DiskTypes
  <2>3. UnderWay(t, v)'
    BY <1>1, <1>2 DEF UnderWay
  <2>4. torn \subseteq project /\ \A j \in torn : meta'[j] # "whole"
    BY <1>1, <1>4 DEF Kept, Known, DiskTypes
  <2>5. QED
    BY <1>2, <1>3, <2>2, <2>3, <2>4 DEF Known
<1>8. Told'
  BY <1>1, <1>2, <1>3, <1>6 DEF Kept, Told, DiskTypes
<1>9. LastUsed(t)'
  <2>1. Going(t)' = Going(t)
    BY <1>2 DEF Going
  <2>2. \A w \in Going(t) \ torn, j \in project \ (Going(t) \cup torn) : w \in before'[j]
    BY <1>1, <1>3 DEF Kept, LastUsed, DiskTypes
  <2>3. QED
    BY <1>1, <1>2, <1>3, <2>1, <2>2 DEF LastUsed
<1>10. QED
  BY <1>7, <1>8, <1>9 DEF Kept, OneAtATime

LEMMA EvictRmdirKeeps ==
  ASSUME OneAtATime, SoloInv, UseTypeOK, Kept, UseServing, NEW t \in Threads, alone[t], EvictRmdir(t)
  PROVE  Kept'
<1> DEFINE v == victim[t]
<1>1. /\ pc[t] = "evictRemove" /\ v \in Keys /\ v \in project /\ Going(t) = seen[t] \cup {v}
      /\ v \notin seen[t] /\ Going(t) \subseteq project
      /\ EntriesOf(v) \subseteq toRemove[t] /\ TypeOK /\ RequestTypes /\ DiskTypes
  BY SoloFacts, VictimAlone DEF EvictRmdir, SoloInv, TypeOK, SoloEvicts
<1>2. EntriesOf(v) = {}
  BY <1>1 DEF EvictRmdir
<1>3. /\ project' = project \ {v} /\ UNCHANGED <<meta, seen>> /\ pc'[t] = "evictScan"
      /\ \A j \in Keys \ {v} : older'[j] = older[j] \ {v}
  BY <1>1, <1>2 DEF EvictRmdir, Continue, Goto, RequestTypes
<1>4. /\ \A j \in Keys : before'[j] = before[j] \cap project'
      /\ torn' = torn \ {v}
  BY <1>1, <1>3, Unused DEF Kept, Known
<1>5. \A j \in project \ torn : meta[j] = "whole" \/ j = v
  BY <1>1 DEF Kept, Known, OneAtATime, UnderWay, Untimed
<1>6. Known'
  BY <1>3, <1>4, <1>5 DEF Kept, Known
<1>7. Told'
  <2>1. \A i, j \in project' : i \in older'[j] => i \in older[j]
    BY <1>1, <1>3 DEF DiskTypes
  <2>2. QED
    BY <1>1, <1>3, <1>4, <2>1 DEF Kept, Told, DiskTypes
<1>8. LastUsed(t)'
  <2>1. Going(t)' = seen[t]
    BY <1>3 DEF Going
  <2>2. \A w \in seen[t] \ torn', j \in project' \ (seen[t] \cup torn') : w \in before'[j]
    BY <1>1, <1>3, <1>4 DEF Kept, LastUsed, DiskTypes
  <2>3. QED
    BY <1>3, <2>1, <2>2 DEF LastUsed
<1>9. QED
  BY <1>6, <1>7, <1>8 DEF Kept, OneAtATime

\* The steps of prepare_project after the making of the project.
LEMMA PrepareKeeps ==
  ASSUME OneAtATime, SoloInv, UseTypeOK, Kept, UseServing, NEW t \in Threads, alone[t], Prepare(t)
  PROVE  Kept'
<1>1. CASE MakeProject(t)
  BY <1>1, MakeProjectKeeps
<1>2. CASE MakeIn(t) \/ ClearOut(t) \/ RemoveOut(t) \/ MakeOut(t) \/ TruncateIn(t) \/ WriteIn(t)
  <2>1. /\ RequestTypes /\ DiskTypes /\ SoloFiles(t)
    BY SoloFacts
  <2>2. /\ UNCHANGED <<project, meta>>
        /\ older' = older \/ (TimedByDir(key[t]) /\ older' = Latest(key[t]))
    BY <1>2, <2>1 DEF MakeIn, ClearOut, RemoveOut, MakeOut, TruncateIn, WriteIn, MakeDir, DirChanges, SoloFiles
  <2>3. /\ pc[t] \in {"makeIn", "clearOut", "removeOut", "makeOut", "truncateIn", "writeIn"}
        /\ pc'[t] \in {"clearOut", "removeOut", "makeOut", "truncateIn", "writeIn", "touch"}
        /\ key'[t] = key[t]
    BY <1>2, <2>1 DEF MakeIn, ClearOut, RemoveOut, MakeOut, TruncateIn, WriteIn, SoloFiles, Continue, Goto,
       reqVars, RequestTypes
  <2>4. QED
    BY <2>2, <2>3, QuietKeeps DEF Untimed
<1>3. QED
  BY <1>1, <1>2 DEF Prepare

LEMMA TouchKeeps ==
  ASSUME OneAtATime, SoloInv, UseTypeOK, Kept, UseServing, NEW t \in Threads, alone[t],
         LoadTouch(t) \/ LoadTouchWrite(t) \/ Touch(t) \/ TouchWrite(t)
  PROVE  Kept'
<1>1. RequestTypes /\ SoloFiles(t)
  BY SoloFacts
<1>2. CASE LoadTouch(t) \/ Touch(t)
  <2>1. pc[t] \in {"loadTouch", "touch"} /\ key[t] \in project
    BY <1>1, <1>2 DEF LoadTouch, Touch, SoloFiles
  <2>2. /\ pc'[t] \in {"loadWrite", "touchWrite"} /\ key'[t] = key[t]
        /\ UNCHANGED project /\ OpenMeta(key[t])
    BY <1>1, <1>2, <2>1 DEF LoadTouch, Touch, Continue, Goto, reqVars, RequestTypes
  <2>3. QED
    BY <2>1, <2>2, OpenKeeps
<1>3. CASE LoadTouchWrite(t) \/ TouchWrite(t)
  <2>1. /\ pc[t] \in {"loadWrite", "touchWrite"} /\ pc'[t] \in {"idle", "evict"}
        /\ UNCHANGED project /\ WriteMeta(key[t])
    BY <1>1, <1>3 DEF LoadTouchWrite, TouchWrite, Continue, Reply, Goto, RequestTypes
  <2>2. QED
    BY <1>1, <2>1, WriteKeeps
<1>4. QED
  BY <1>2, <1>3

LEMMA EvictKeeps ==
  ASSUME OneAtATime, SoloInv, UseTypeOK, Kept, UseServing, NEW t \in Threads, alone[t],
         EvictList(t) \/ EvictSort(t) \/ EvictScan(t) \/ EvictEntry(t) \/ EvictRmdir(t)
  PROVE  Kept'
<1>1. RequestTypes
  BY SoloFacts
<1>2. ASSUME UNCHANGED fsVars, Return(t), pc[t] \in {"evict", "evictScan"}
      PROVE  Kept'
  <2>1. pc'[t] \in {"lock", "idle"}
    BY <1>1, <1>2 DEF Return, Continue, Reply, Goto, RequestTypes
  <2>2. UNCHANGED <<project, meta, older>>
    BY <1>2 DEF fsVars
  <2>3. QED
    BY <1>2, <2>1, <2>2, QuietKeeps DEF Untimed
<1>3. CASE EvictList(t)
  <2>1. CASE Continue(t, "evictSort")
    <3>1. pc[t] = "evict" /\ pc'[t] = "evictSort" /\ UNCHANGED <<project, meta, older>>
      BY <1>1, <1>3, <2>1 DEF EvictList, Continue, Goto, RequestTypes, fsVars
    <3>2. QED
      BY <3>1, QuietKeeps DEF Untimed
  <2>2. QED
    BY <1>2, <1>3, <2>1 DEF EvictList
<1>4. CASE EvictScan(t)
  BY <1>2, <1>4, EvictPickKeeps DEF EvictScan
<1>5. QED
  BY <1>3, <1>4, EvictSortKeeps, EvictEntryKeeps, EvictRmdirKeeps

\* From the lock to the saved result no step is about the times.
LEMMA ConversionKeeps ==
  ASSUME OneAtATime, SoloInv, UseTypeOK, Kept, UseServing, NEW t \in Threads, alone[t],
         LoadResult(t) \/ AcquireLock(t) \/ Locked(t) \/ CollectOutputs(t) \/ Save(t)
  PROVE  Kept'
<1>1. RequestTypes /\ DiskTypes /\ SoloFiles(t)
  BY SoloFacts
<1>2. /\ pc[t] \in {"load", "lock", "collect"} \cup LockedSteps \cup SaveSteps
      /\ pc'[t] \in {"loadTouch", "makeProject", "idle", "touch", "collect"} \cup LockedSteps \cup SaveSteps
  <2>1. CASE LoadResult(t) \/ CollectOutputs(t)
    BY <1>1, <2>1 DEF LoadResult, CollectOutputs, Continue, ContinueWith, Reply, Goto, RequestTypes, SaveSteps
  <2>2. CASE AcquireLock(t) \/ Locked(t)
    BY <1>1, <2>2 DEF AcquireLock, Locked, Chdir, Convert, OpenTarget, WriteTarget, LockedSteps,
       Continue, ContinueWith, Reply, Goto, RequestTypes
  <2>3. CASE Save(t)
    BY <1>1, <2>3 DEF Save, SaveMkdir, SaveOpen, SaveWrite, SaveSteps, Continue, Reply, Goto, RequestTypes
  <2>4. QED
    BY <2>1, <2>2, <2>3
<1>3. /\ UNCHANGED <<project, meta>>
      /\ older' = older \/ (TimedByDir(key[t]) /\ older' = Latest(key[t]))
  <2>1. CASE LoadResult(t) \/ CollectOutputs(t) \/ AcquireLock(t) \/ Locked(t)
    BY <2>1 DEF LoadResult, CollectOutputs, AcquireLock, Locked, Chdir, Convert, OpenTarget, WriteTarget, fsVars
  <2>2. CASE Save(t)
    <3>1. key[t] \in project
      BY <1>1, <2>2 DEF Save, SaveMkdir, SaveOpen, SaveWrite, SoloFiles
    <3>2. QED
      BY <2>2, <3>1 DEF Save, SaveMkdir, SaveOpen, SaveWrite, MakeDir, DirChanges
  <2>3. QED
    BY <2>1, <2>2
<1>4. QED
  BY <1>2, <1>3, QuietKeeps DEF Untimed, LockedSteps, SaveSteps

LEMMA WorkKeeps ==
  ASSUME OneAtATime, SoloInv, UseTypeOK, Kept, UseServing, NEW t \in Threads, alone[t], Work(t)
  PROVE  Kept'
BY PrepareKeeps, TouchKeeps, EvictKeeps, ConversionKeeps DEF Work, Load, TouchEvict

UseInv == AllAlone /\ UseTypeOK /\ Kept

LEMMA UseInitInv == UseInit => UseInv
<1> SUFFICES ASSUME UseInit
             PROVE  AllAlone /\ UseTypeOK /\ Known /\ Told /\ \A t \in Threads : LastUsed(t)
  BY DEF UseInv, Kept
<1> USE DEF UseInit, Init
<1>1. AllAlone /\ UseTypeOK
  BY DEF AllAlone, Busy, UseTypeOK
<1>2. Known /\ Told
  BY DEF Known, Told
<1>3. \A t \in Threads : LastUsed(t)
  BY DEF LastUsed
<1>4. QED
  BY <1>1, <1>2, <1>3

LEMMA AloneNext ==
  ASSUME OneAtATime, SoloInv, AllAlone, [Next]_vars
  PROVE  AllAlone'
<1>1. ASSUME NEW t \in Threads, Work(t)
      PROVE  AllAlone'
  <2>1. Steers(t) /\ Busy(t)
    BY <1>1, WorkSteers, WorkIsBusy DEF SoloInv
  <2>2. QED
    BY <2>1 DEF Steers, AllAlone, Busy, OneAtATime
<1>2. ASSUME NEW t \in Threads, NEW k \in Keys, Begin(t, k)
      PROVE  AllAlone'
  <2>1. \A u \in Threads : u = t /\ ~Busy(u)
    BY <1>2 DEF OneAtATime, Begin, Busy
  <2>2. QED
    BY <1>2, <2>1 DEF Begin, AllAlone
<1>3. CASE Restart
  BY <1>3 DEF Restart, AllAlone, Busy
<1>4. CASE UNCHANGED vars
  BY <1>4 DEF vars, reqVars, AllAlone, Busy
<1>5. QED
  BY <1>1, <1>2, <1>3, <1>4 DEF Next, Serving

LEMMA ServingKeeps ==
  ASSUME OneAtATime, SoloInv, UseInv, UseServing
  PROVE  Kept'
<1>1. ASSUME NEW t \in Threads, Work(t)
      PROVE  Kept'
  BY <1>1, WorkKeeps, WorkIsBusy DEF UseInv, AllAlone
<1>2. ASSUME NEW t \in Threads, NEW k \in Keys, Begin(t, k)
      PROVE  Kept'
  <2>1. pc[t] = "idle" /\ pc'[t] = "load" /\ UNCHANGED <<project, meta, older>>
    BY <1>2 DEF Begin, Goto, fsVars, SoloInv, TypeOK, RequestTypes
  <2>2. QED
    BY <2>1, QuietKeeps DEF Untimed, UseInv
<1>3. QED
  BY <1>1, <1>2 DEF UseServing, Serving

\* A kill leaves the order of use of the projects whose metadata is whole.
LEMMA RestartKeeps ==
  ASSUME SoloInv, UseInv, UseRestart
  PROVE  Kept'
<1>1. /\ UNCHANGED <<project, meta, older>> /\ DiskTypes
      /\ \A t \in Threads : pc'[t] = "idle"
  BY DEF UseRestart, Restart, fsVars, SoloInv, TypeOK
<1>2. /\ torn' = {k \in project : meta[k] # "whole"}
      /\ \A k \in Keys \ torn' : before'[k] = before[k] \ torn'
  BY DEF UseRestart
<1>3. Known'
  BY <1>1, <1>2 DEF Known
<1>4. Told'
  BY <1>1, <1>2 DEF UseInv, Kept, Told, DiskTypes
<1>5. \A t \in Threads : LastUsed(t)'
  BY <1>1 DEF LastUsed
<1>6. QED
  BY <1>3, <1>4, <1>5 DEF Kept

LEMMA UseNextInv ==
  ASSUME OneAtATime, SoloInv, TypeOK', UseInv, [UseNext]_<<vars, useVars>>
  PROVE  UseInv'
<1>1. AllAlone'
  <2>1. [Next]_vars
    BY DEF UseNext, UseServing, UseRestart, Next
  <2>2. QED
    BY <2>1, AloneNext DEF UseInv
<1>2. UseTypeOK'
  <2>1. project \subseteq Keys /\ project' \subseteq Keys
    BY DEF SoloInv, TypeOK, DiskTypes
  <2>2. CASE UseServing
    BY <2>1, <2>2 DEF UseServing, UseTypeOK, UseInv
  <2>3. CASE UseRestart
    BY <2>1, <2>3 DEF UseRestart, UseTypeOK, UseInv
  <2>4. CASE UNCHANGED <<vars, useVars>>
    BY <2>4 DEF useVars, UseTypeOK, UseInv
  <2>5. QED
    BY <2>2, <2>3, <2>4 DEF UseNext
<1>3. Kept'
  <2>1. CASE UNCHANGED <<vars, useVars>>
    BY <2>1 DEF vars, reqVars, evictVars, fsVars, useVars, UseInv, Kept, Known, Told, LastUsed, Going, UnderWay
  <2>2. QED
    BY <2>1, ServingKeeps, RestartKeeps DEF UseNext
<1>4. QED
  BY <1>1, <1>2, <1>3 DEF UseInv

\* Only the removal of a project takes its saved result.
LEMMA ResultLeaves ==
  ASSUME SoloInv, NEW t \in Threads, alone[t], Work(t), NEW k \in Keys,
         result[k] \in Contents, result'[k] \notin Contents
  PROVE  EvictEntry(t) /\ victim[t] = k
<1>1. RequestTypes /\ DiskTypes /\ SoloFiles(t)
  BY SoloFacts
<1>2. ~Load(t) /\ ~AcquireLock(t) /\ ~Locked(t) /\ ~CollectOutputs(t)
  BY DEF Load, LoadResult, LoadTouch, LoadTouchWrite, AcquireLock, Locked, Chdir, Convert, OpenTarget, WriteTarget,
     CollectOutputs, fsVars, dirVars
<1>3. ~Prepare(t)
  BY DEF Prepare, MakeProject, MakeIn, ClearOut, RemoveOut, MakeOut, TruncateIn, WriteIn, dirVars
<1>4. /\ ~Touch(t) /\ ~TouchWrite(t)
      /\ ~EvictList(t) /\ ~EvictSort(t) /\ ~EvictScan(t) /\ ~EvictRmdir(t)
  BY DEF Touch, TouchWrite, EvictList, EvictSort, EvictScan, EvictRmdir, fsVars, dirVars
<1>5. ~Save(t)
  <2>1. ~SaveMkdir(t)
    BY DEF SaveMkdir, dirVars
  <2>2. ~SaveOpen(t)
    BY <1>1 DEF SaveOpen, SoloFiles, SaveSteps, Caching, CacheSteps, EvictSteps, DiskTypes
  <2>3. ~SaveWrite(t)
    BY <1>1 DEF SaveWrite, RequestTypes, HoldingSteps, DiskTypes, Contents
  <2>4. QED
    BY <2>1, <2>2, <2>3 DEF Save
<1>6. EvictEntry(t)
  BY <1>2, <1>3, <1>4, <1>5 DEF Work, TouchEvict
<1>7. victim[t] = k
  BY <1>1, <1>6 DEF EvictEntry, DiskTypes
<1>8. QED
  BY <1>6, <1>7

\* One conversion at a time, a saved result leaves the cache only when
\* MaxProjects projects were used after it, apart from the projects whose
\* metadata a kill has torn.
THEOREM RecentKept ==
  ASSUME OneAtATime
  PROVE  UseSpec => RecentResultsStay
<1>1. UseSpec => Spec
  <2>1. UseInit => Init
    BY DEF UseInit
  <2>2. [UseNext]_<<vars, useVars>> => [Next]_vars
    BY DEF UseNext, UseServing, UseRestart, Next
  <2>3. QED
    BY <2>1, <2>2, PTL DEF UseSpec, Spec
<1>2. SoloInv /\ TypeOK' /\ UseInv /\ [UseNext]_<<vars, useVars>> => UseInv'
  BY UseNextInv
<1>3. UseSpec => []UseInv
  BY <1>1, <1>2, UseInitInv, TypeCorrect, SoloInvariant, PTL DEF UseSpec
<1>4. SoloInv /\ UseInv /\ [UseNext]_<<vars, useVars>>
        => [\A k \in Keys :
              result[k] \in Contents /\ result'[k] \notin Contents
                => \/ k \in torn
                   \/ Cardinality(UsedAfter(k) \cup torn) >= MaxProjects]_<<vars, useVars>>
  <2> SUFFICES ASSUME SoloInv, UseInv, UseNext, NEW k \in Keys,
                      result[k] \in Contents, result'[k] \notin Contents, k \notin torn
               PROVE  Cardinality(UsedAfter(k) \cup torn) >= MaxProjects
    OBVIOUS
  <2>1. ~Restart /\ \A t \in Threads, j \in Keys : ~Begin(t, j)
    BY DEF Restart, Begin, fsVars, dirVars
  <2>2. PICK t \in Threads : Work(t)
    BY <2>1 DEF UseNext, UseServing, UseRestart, Serving
  <2>3. alone[t] /\ EvictEntry(t) /\ victim[t] = k
    BY <2>2, WorkIsBusy, ResultLeaves DEF UseInv, AllAlone
  <2> DEFINE left == project \ Going(t)
  <2>4. /\ pc[t] = "evictRemove" /\ k \in Going(t)
        /\ Cardinality(left) >= MaxProjects /\ project \subseteq Keys
    <3>1. pc[t] = "evictRemove"
      BY <2>3 DEF EvictEntry
    <3>2. k \in Going(t) /\ SoloEvicts(t) /\ project \subseteq Keys
      BY <2>3, <3>1, SoloFacts, VictimAlone DEF DiskTypes
    <3>3. QED
      BY <3>1, <3>2 DEF SoloEvicts
  <2>5. left \subseteq UsedAfter(k) \cup torn
    BY <2>4 DEF UseInv, Kept, LastUsed, UsedAfter
  <2>6. UsedAfter(k) \cup torn \subseteq Keys
    BY <2>4 DEF UseInv, UseTypeOK, UsedAfter
  <2>7. IsFiniteSet(UsedAfter(k) \cup torn)
    BY <2>6, CacheAssumption, FS_Subset
  <2>8. /\ Cardinality(left) \in Nat /\ Cardinality(UsedAfter(k) \cup torn) \in Nat
        /\ Cardinality(left) <= Cardinality(UsedAfter(k) \cup torn)
    BY <2>5, <2>7, FS_Subset, FS_CardinalityType
  <2>9. QED
    BY <2>4, <2>8, CacheAssumption
<1>5. QED
  BY <1>1, <1>3, <1>4, SoloInvariant, PTL DEF UseSpec, RecentResultsStay
=============================================================================
