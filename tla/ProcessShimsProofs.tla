-------------------------- MODULE ProcessShimsProofs --------------------------
(***************************************************************************)
(* Theorems about ProcessShims, for all threads: what _transform_lock does *)
(* protect, whichever requests overlap, and what else holds of requests    *)
(* that no common lock keeps apart, unless they do overlap.                *)
(***************************************************************************)
EXTENDS ProcessShims, TLAPS

LEMMA InitTypes ==
  ASSUME ShimsInit
  PROVE  ShimsTypeOK
<1>1. RequestTypes
  BY DEF ShimsInit, RequestTypes, ThreadSteps, Kinds, Sources
<1>2. StreamTypes
  BY DEF ShimsInit, StreamTypes, Streams, Directories, RedirectedSteps
<1>3. EnvTypes
  <2>1. host.env \in [KeyNames -> {"unset", "server"}]
    BY DEF ShimsInit
  <2>2. host.env \in [KeyNames -> Keys]
    BY <2>1 DEF Keys
  <2>3. QED
    BY <2>2 DEF ShimsInit, EnvTypes, Keys
<1>4. QED
  BY <1>1, <1>2, <1>3 DEF ShimsTypeOK

LEMMA NextRequestTypes ==
  ASSUME ShimsTypeOK, ShimsNext
  PROVE  RequestTypes'
<1> USE DEF ShimsTypeOK, RequestTypes, StepTo, reqVars, lockVars
<1>1. ASSUME NEW t \in Threads, NEW k \in Kinds, Begin(t, k)
      PROVE  RequestTypes'
  BY <1>1 DEF Begin, Kinds, Sources, ThreadSteps
<1>2. ASSUME NEW t \in Threads, Detect(t)
      PROVE  RequestTypes'
  BY <1>2 DEF Detect, DetectId, DetectSecret, Detected, InFiles, Sources, ThreadSteps
<1>3. ASSUME NEW t \in Threads, EnterShims(t)
      PROVE  RequestTypes'
  BY <1>3 DEF EnterShims, AcquireTransformLock, SaveEnv, SetEnv, Chdir, AcquireRulesLock, ReadStdout,
     SetStdout, Patch, ThreadSteps
<1>4. ASSUME NEW t \in Threads, Run(t) \/ LeaveShims(t) \/ Reply(t)
      PROVE  RequestTypes'
  BY <1>4 DEF Run, LeaveShims, Unpatch, RestoreStdout, RestoreCwd, RestoreEnv, Unlock, Reply, ThreadSteps
<1>5. QED
  BY <1>1, <1>2, <1>3, <1>4 DEF ShimsNext

LEMMA NextStreamTypes ==
  ASSUME ShimsTypeOK, ShimsNext
  PROVE  StreamTypes'
<1> USE DEF ShimsTypeOK, StreamTypes, Streams, Directories, RedirectedSteps, StepTo, savedVars, sharedVars
<1>1. at \in [Threads -> ThreadSteps]
  BY DEF RequestTypes
<1>2. ASSUME NEW t \in Threads, NEW k \in Kinds, Begin(t, k)
      PROVE  StreamTypes'
  BY <1>1, <1>2 DEF Begin
<1>3. ASSUME NEW t \in Threads, Detect(t)
      PROVE  StreamTypes'
  BY <1>1, <1>3 DEF Detect, DetectId, DetectSecret, Detected
<1>4. ASSUME NEW t \in Threads, EnterShims(t)
      PROVE  StreamTypes'
  <2>1. CASE AcquireTransformLock(t) \/ SaveEnv(t) \/ SetEnv(t) \/ AcquireRulesLock(t)
    BY <1>1, <2>1 DEF AcquireTransformLock, SaveEnv, SetEnv, AcquireRulesLock
  <2>2. CASE Chdir(t)
    BY <1>1, <2>2 DEF Chdir
  <2>3. CASE ReadStdout(t) \/ SetStdout(t)
    BY <1>1, <2>3, ShimsAssumption DEF ReadStdout, SetStdout
  <2>4. CASE Patch(t)
    BY <1>1, <2>4 DEF Patch
  <2>5. QED
    BY <1>4, <2>1, <2>2, <2>3, <2>4 DEF EnterShims
<1>5. ASSUME NEW t \in Threads, Run(t) \/ LeaveShims(t)
      PROVE  StreamTypes'
  BY <1>1, <1>5 DEF Run, LeaveShims, Unpatch, RestoreStdout, RestoreCwd, RestoreEnv, Unlock
<1>6. ASSUME NEW t \in Threads, Reply(t)
      PROVE  StreamTypes'
  BY <1>1, <1>6, ShimsAssumption DEF Reply
<1>7. QED
  BY <1>2, <1>3, <1>4, <1>5, <1>6 DEF ShimsNext

LEMMA NextEnvTypes ==
  ASSUME ShimsTypeOK, ShimsNext
  PROVE  EnvTypes'
<1> USE DEF savedVars, sharedVars
<1>1. EnvTypes
  BY DEF ShimsTypeOK
<1>2. UNCHANGED host
  BY DEF ShimsNext, Begin, Detect, DetectId, DetectSecret, EnterShims, AcquireTransformLock, SaveEnv, SetEnv,
     Chdir, AcquireRulesLock, ReadStdout, SetStdout, Patch, Run, LeaveShims, Unpatch, RestoreStdout,
     RestoreCwd, RestoreEnv, Unlock, Reply
<1>3. CASE UNCHANGED <<oldEnv, env, skip>>
  BY <1>1, <1>2, <1>3 DEF EnvTypes
<1>4. ASSUME NEW t \in Threads, \/ \E k \in Kinds : Begin(t, k)
                                \/ Detect(t) \/ Run(t) \/ Reply(t)
      PROVE  EnvTypes'
  BY <1>3, <1>4 DEF Begin, Detect, DetectId, DetectSecret, Run, Reply
<1>5. ASSUME NEW t \in Threads, SaveEnv(t)
      PROVE  EnvTypes'
  BY <1>1, <1>2, <1>5 DEF EnvTypes, SaveEnv
<1>6. ASSUME NEW t \in Threads, SetEnv(t)
      PROVE  EnvTypes'
  BY <1>1, <1>2, <1>6 DEF EnvTypes, SetEnv, KeyNames, Keys
<1>7. ASSUME NEW t \in Threads, Patch(t) \/ Unpatch(t)
      PROVE  EnvTypes'
  BY <1>1, <1>2, <1>7 DEF EnvTypes, Patch, Unpatch, Validates
<1>8. ASSUME NEW t \in Threads, RestoreEnv(t)
      PROVE  EnvTypes'
  BY <1>1, <1>2, <1>8 DEF EnvTypes, RestoreEnv, KeyNames
<1>9. ASSUME NEW t \in Threads, \/ AcquireTransformLock(t) \/ Chdir(t) \/ AcquireRulesLock(t)
                                \/ ReadStdout(t) \/ SetStdout(t) \/ RestoreStdout(t)
                                \/ RestoreCwd(t) \/ Unlock(t)
      PROVE  EnvTypes'
  BY <1>3, <1>9 DEF AcquireTransformLock, Chdir, AcquireRulesLock, ReadStdout, SetStdout,
     RestoreStdout, RestoreCwd, Unlock
<1>10. QED
  BY <1>4, <1>5, <1>6, <1>7, <1>8, <1>9 DEF ShimsNext, EnterShims, LeaveShims

\* Every variable keeps its type, whichever requests overlap.
THEOREM TypeCorrect == ShimsSpec => []ShimsTypeOK
<1>1. ShimsTypeOK /\ [ShimsNext]_shimVars => ShimsTypeOK'
  <2>1. ShimsTypeOK /\ ShimsNext => ShimsTypeOK'
    BY NextRequestTypes, NextStreamTypes, NextEnvTypes DEF ShimsTypeOK
  <2>2. ShimsTypeOK /\ UNCHANGED shimVars => ShimsTypeOK'
    BY DEF shimVars, reqVars, savedVars, lockVars, sharedVars, ShimsTypeOK, RequestTypes, StreamTypes,
       EnvTypes
  <2>3. QED
    BY <2>1, <2>2
<1>2. QED
  BY <1>1, InitTypes, PTL DEF ShimsSpec

-----------------------------------------------------------------------------
\* The steps of a conversion from AcquireTransformLock to Unlock.
BeforeRedirect == {"saveEnv", "setId", "setSecret", "chdir"}
InWorkspace == {"readStdout", "setStdout", "patch", "run", "unpatch", "restoreStdout", "restoreCwd"}
AfterRedirect == {"restoreEnv", "restoreSecret", "unlock"}

Inside(t) == Converts(t) /\ at[t] \in BeforeRedirect \cup InWorkspace \cup AfterRedirect

\* Only conversions take these steps, and not those of the rules.
OnlyConversions ==
  \A t \in Threads :
    /\ at[t] \in {"lock", "patch", "unpatch", "restoreCwd", "restoreEnv", "restoreSecret"}
                   \cup BeforeRedirect
         => Converts(t)
    /\ at[t] = "rulesLock" => ~Converts(t)

HeldInside == \A t \in Threads : transformLock = t <=> Inside(t)

\* The key n of the environment at each step of a conversion that sets it.
KeyAt(step, n) ==
  IF \/ step \in {"saveEnv", "setId", "unlock"}
     \/ step = "setSecret" /\ n = "secret"
     \/ step = "restoreSecret" /\ n = "id"
    THEN host.env[n]
    ELSE "cli"

AsAtStart == (\A n \in KeyNames : env[n] = host.env[n]) /\ cwd = "home" /\ skip = FALSE

\* What a conversion has changed, and nothing else, differs from the start.
AsLeft(t) ==
  /\ \A n \in KeyNames : env[n] = IF found[t] = "cli" THEN KeyAt(at[t], n) ELSE host.env[n]
  /\ at[t] \in {"setId", "setSecret"} => found[t] = "cli"
  /\ cwd = IF at[t] \in InWorkspace THEN t ELSE "home"
  /\ skip = IF at[t] \in {"run", "unpatch"} THEN ~Validates(t) ELSE FALSE
  /\ at[t] # "saveEnv" => \A n \in KeyNames : oldEnv[t][n] = host.env[n]
  /\ at[t] \in InWorkspace => oldCwd[t] = "home"

ContextInv ==
  /\ OnlyConversions
  /\ HeldInside
  /\ transformLock = NoThread => AsAtStart
  /\ \A t \in Threads : Inside(t) => AsLeft(t)

\* Of the requests outside the lock no step disturbs what the one inside has
\* set, for they write none of it.
LEMMA OutsideStep ==
  ASSUME ShimsTypeOK, ContextInv, NEW t \in Threads, ~Inside(t), ~Inside(t)',
         \A u \in Threads \ {t} : at'[u] = at[u] /\ kind'[u] = kind[u] /\ found'[u] = found[u],
         UNCHANGED <<transformLock, env, cwd, skip, oldEnv, host>>,
         \A u \in Threads \ {t} : oldCwd[u] = "home" => oldCwd'[u] = "home",
         OnlyConversions'
  PROVE  ContextInv'
<1>1. HeldInside'
  BY DEF ContextInv, HeldInside, Inside, Converts
<1>2. transformLock = NoThread => AsAtStart'
  BY ShimsAssumption DEF ContextInv, AsAtStart
<1>3. ASSUME NEW u \in Threads, Inside(u)'
      PROVE  AsLeft(u)'
  <2>1. u # t /\ Inside(u) /\ AsLeft(u)
    BY <1>3 DEF ContextInv, Inside, Converts
  <2>2. QED
    BY <2>1 DEF AsLeft, KeyAt, Validates
<1>4. QED
  BY <1>1, <1>2, <1>3 DEF ContextInv

LEMMA RequestsKeepContext ==
  ASSUME ShimsTypeOK, ContextInv, NEW t \in Threads,
         \/ \E k \in Kinds : Begin(t, k)
         \/ Detect(t) \/ AcquireRulesLock(t) \/ Reply(t)
  PROVE  ContextInv'
<1> USE DEF BeforeRedirect, InWorkspace, AfterRedirect
<1>1. at \in [Threads -> ThreadSteps] /\ kind \in [Threads -> Kinds] /\ found \in [Threads -> Sources]
  BY DEF ShimsTypeOK, RequestTypes
<1>2. ~Inside(t)
  BY DEF Begin, Detect, DetectId, DetectSecret, AcquireRulesLock, Reply, Inside
<1>3. cwd # t
  BY <1>2, ShimsAssumption DEF ContextInv, AsAtStart, AsLeft, HeldInside, ShimsTypeOK, RequestTypes
<1>4. \A u \in Threads \ {t} : at'[u] = at[u] /\ kind'[u] = kind[u] /\ found'[u] = found[u]
  BY <1>1 DEF Begin, Detect, DetectId, DetectSecret, Detected, AcquireRulesLock, Reply, StepTo, reqVars
<1>5. ~Inside(t)' /\ OnlyConversions'
  <2>1. CASE \E k \in Kinds : Begin(t, k)
    BY <1>1, <2>1 DEF Begin, StepTo, ContextInv, OnlyConversions, Converts, Inside
  <2>2. CASE Detect(t)
    BY <1>1, <2>2 DEF Detect, DetectId, DetectSecret, Detected, StepTo, ContextInv, OnlyConversions,
       Converts, Inside
  <2>3. CASE AcquireRulesLock(t)
    BY <1>1, <2>3 DEF AcquireRulesLock, StepTo, ContextInv, OnlyConversions, Converts, Inside, reqVars
  <2>4. CASE Reply(t)
    BY <1>1, <2>4 DEF Reply, StepTo, ContextInv, OnlyConversions, Converts, Inside
  <2>5. QED
    BY <2>1, <2>2, <2>3, <2>4
<1>6. UNCHANGED <<transformLock, env, cwd, skip, oldEnv, host>>
  BY <1>3 DEF Begin, Detect, DetectId, DetectSecret, AcquireRulesLock, Reply, savedVars, lockVars,
     sharedVars
<1>7. \A u \in Threads \ {t} : oldCwd[u] = "home" => oldCwd'[u] = "home"
  BY ShimsAssumption DEF Begin, Detect, DetectId, DetectSecret, AcquireRulesLock, Reply, savedVars
<1>8. QED
  BY <1>2, <1>4, <1>5, <1>6, <1>7, OutsideStep

\* A step of the conversion inside, from which it goes on inside.
LEMMA InsideStep ==
  ASSUME ShimsTypeOK, ContextInv, NEW t \in Threads, Inside(t), NEW s \in ThreadSteps,
         at' = [at EXCEPT ![t] = s],
         UNCHANGED <<kind, found, transformLock>>,
         Inside(t)', AsLeft(t)', OnlyConversions'
  PROVE  ContextInv'
<1>1. at \in [Threads -> ThreadSteps] /\ transformLock = t /\ t # NoThread
  BY ShimsAssumption DEF ShimsTypeOK, RequestTypes, ContextInv, HeldInside
<1>2. \A u \in Threads : Inside(u)' <=> u = t
  BY <1>1 DEF ContextInv, HeldInside, Inside, Converts
<1>3. QED
  BY <1>1, <1>2 DEF ContextInv, HeldInside

LEMMA ConversionKeepsContext ==
  ASSUME ShimsTypeOK, ContextInv, ShimsTypeOK', NEW t \in Threads, Inside(t),
         \/ SaveEnv(t) \/ SetEnv(t) \/ Chdir(t) \/ ReadStdout(t) \/ SetStdout(t) \/ Patch(t)
         \/ Run(t) \/ Unpatch(t) \/ RestoreStdout(t) \/ RestoreCwd(t) \/ RestoreEnv(t)
  PROVE  ContextInv'
<1> USE DEF BeforeRedirect, InWorkspace, AfterRedirect, StepTo, reqVars, savedVars, lockVars,
            sharedVars
<1>1. /\ at \in [Threads -> ThreadSteps] /\ kind \in [Threads -> Kinds]
      /\ AsLeft(t) /\ Converts(t) /\ OnlyConversions
      /\ env \in [KeyNames -> Keys]
      /\ oldEnv \in [Threads -> [KeyNames -> Keys]]
      /\ oldCwd \in [Threads -> Directories]
  BY DEF ShimsTypeOK, RequestTypes, StreamTypes, EnvTypes, ContextInv, Inside
<1>2. UNCHANGED <<kind, found, transformLock, host>>
  BY DEF SaveEnv, SetEnv, Chdir, ReadStdout, SetStdout, Patch, Run, Unpatch, RestoreStdout,
     RestoreCwd, RestoreEnv
<1>3. ASSUME NEW s \in ThreadSteps \cap (BeforeRedirect \cup InWorkspace \cup AfterRedirect),
             StepTo(t, s), AsLeft(t)'
      PROVE  ContextInv'
  <2>1. Inside(t)' /\ OnlyConversions'
    BY <1>1, <1>2, <1>3 DEF Inside, OnlyConversions, Converts
  <2>2. QED
    BY <1>2, <1>3, <2>1, InsideStep
<1>4. CASE SaveEnv(t)
  <2>1. StepTo(t, "chdir") \/ StepTo(t, "setId")
    BY <1>4 DEF SaveEnv, Overrides
  <2>2. at'[t] \in {"chdir", "setId"} /\ at[t] \in ThreadSteps
    BY <1>1, <2>1
  <2>3. AsLeft(t)'
    BY <1>1, <1>2, <1>4, <2>2 DEF SaveEnv, Overrides, AsLeft, KeyAt, Validates
  <2>4. QED
    BY <1>3, <2>1, <2>3 DEF ThreadSteps
<1>5. CASE SetEnv(t)
  <2>1. StepTo(t, "setSecret") \/ StepTo(t, "chdir")
    BY <1>5 DEF SetEnv
  <2>2. at'[t] \in {"setSecret", "chdir"} /\ at[t] \in ThreadSteps
    BY <1>1, <2>1
  <2>3. AsLeft(t)'
    BY <1>1, <1>2, <1>5, <2>2 DEF SetEnv, AsLeft, KeyAt, Validates, KeyNames
  <2>4. QED
    BY <1>3, <2>1, <2>3 DEF ThreadSteps
<1>6. CASE Chdir(t)
  <2>1. StepTo(t, "readStdout") \/ StepTo(t, "restoreEnv")
    BY <1>6 DEF Chdir
  <2>2. at'[t] \in {"readStdout", "restoreEnv"} /\ at[t] \in ThreadSteps
    BY <1>1, <2>1
  <2>3. AsLeft(t)'
    <3>1. cwd = "home" /\ oldCwd'[t] = "home" /\ UNCHANGED <<env, skip, oldEnv>>
      BY <1>1, <1>6 DEF Chdir, AsLeft
    <3>2. cwd' = IF at'[t] \in InWorkspace THEN t ELSE "home"
      BY <1>1, <1>6, <3>1 DEF Chdir
    <3>3. QED
      BY <1>1, <1>2, <1>6, <2>2, <3>1, <3>2 DEF Chdir, AsLeft, KeyAt, Validates
  <2>4. QED
    BY <1>3, <2>1, <2>3 DEF ThreadSteps
<1>7. CASE ReadStdout(t)
  <2>1. StepTo(t, "setStdout")
    BY <1>7 DEF ReadStdout
  <2>2. at'[t] \in {"setStdout"} /\ at[t] \in ThreadSteps
    BY <1>1, <2>1
  <2>3. AsLeft(t)'
    BY <1>1, <1>2, <1>7, <2>2 DEF ReadStdout, AsLeft, KeyAt, Validates
  <2>4. QED
    BY <1>3, <2>1, <2>3 DEF ThreadSteps
<1>8. CASE SetStdout(t)
  <2>1. StepTo(t, "patch")
    BY <1>1, <1>8 DEF SetStdout
  <2>2. at'[t] \in {"patch"} /\ at[t] \in ThreadSteps
    BY <1>1, <2>1
  <2>3. AsLeft(t)'
    BY <1>1, <1>2, <1>8, <2>2 DEF SetStdout, AsLeft, KeyAt, Validates
  <2>4. QED
    BY <1>3, <2>1, <2>3 DEF ThreadSteps
<1>9. CASE Patch(t)
  <2>1. StepTo(t, "run")
    BY <1>9 DEF Patch
  <2>2. at'[t] \in {"run"} /\ at[t] \in ThreadSteps
    BY <1>1, <2>1
  <2>3. AsLeft(t)'
    BY <1>1, <1>2, <1>9, <2>2 DEF Patch, AsLeft, KeyAt, Validates
  <2>4. QED
    BY <1>3, <2>1, <2>3 DEF ThreadSteps
<1>10. CASE Run(t)
  <2>1. StepTo(t, "unpatch")
    BY <1>1, <1>10 DEF Run
  <2>2. at'[t] \in {"unpatch"} /\ at[t] \in ThreadSteps
    BY <1>1, <2>1
  <2>3. AsLeft(t)'
    BY <1>1, <1>2, <1>10, <2>2 DEF Run, AsLeft, KeyAt, Validates
  <2>4. QED
    BY <1>3, <2>1, <2>3 DEF ThreadSteps
<1>11. CASE Unpatch(t)
  <2>1. StepTo(t, "restoreStdout")
    BY <1>11 DEF Unpatch
  <2>2. at'[t] \in {"restoreStdout"} /\ at[t] \in ThreadSteps
    BY <1>1, <2>1
  <2>3. AsLeft(t)'
    BY <1>1, <1>2, <1>11, <2>2 DEF Unpatch, AsLeft, KeyAt, Validates
  <2>4. QED
    BY <1>3, <2>1, <2>3 DEF ThreadSteps
<1>12. CASE RestoreStdout(t)
  <2>1. StepTo(t, "restoreCwd")
    BY <1>1, <1>12 DEF RestoreStdout
  <2>2. at'[t] \in {"restoreCwd"} /\ at[t] \in ThreadSteps
    BY <1>1, <2>1
  <2>3. AsLeft(t)'
    BY <1>1, <1>2, <1>12, <2>2 DEF RestoreStdout, AsLeft, KeyAt, Validates
  <2>4. QED
    BY <1>3, <2>1, <2>3 DEF ThreadSteps
<1>13. CASE RestoreCwd(t)
  <2>1. StepTo(t, "restoreEnv")
    BY <1>13 DEF RestoreCwd
  <2>2. at'[t] \in {"restoreEnv"} /\ at[t] \in ThreadSteps
    BY <1>1, <2>1
  <2>3. AsLeft(t)'
    BY <1>1, <1>2, <1>13, <2>2 DEF RestoreCwd, AsLeft, KeyAt, Validates
  <2>4. QED
    BY <1>3, <2>1, <2>3 DEF ThreadSteps
<1>14. CASE RestoreEnv(t)
  <2>1. StepTo(t, "restoreSecret") \/ StepTo(t, "unlock")
    BY <1>14 DEF RestoreEnv, Overrides
  <2>2. at'[t] \in {"restoreSecret", "unlock"} /\ at[t] \in ThreadSteps
    BY <1>1, <2>1
  <2>3. AsLeft(t)'
    BY <1>1, <1>2, <1>14, <2>2 DEF RestoreEnv, Overrides, AsLeft, KeyAt, Validates, KeyNames
  <2>4. QED
    BY <1>3, <2>1, <2>3 DEF ThreadSteps
<1>15. QED
  BY <1>4, <1>5, <1>6, <1>7, <1>8, <1>9, <1>10, <1>11, <1>12, <1>13, <1>14

\* The steps that take and release the lock.
LEMMA LockKeepsContext ==
  ASSUME ShimsTypeOK, ContextInv, ShimsTypeOK', NEW t \in Threads,
         AcquireTransformLock(t) \/ (Inside(t) /\ Unlock(t))
  PROVE  ContextInv'
<1> USE DEF BeforeRedirect, InWorkspace, AfterRedirect, StepTo, reqVars, savedVars, sharedVars
<1>1. /\ at \in [Threads -> ThreadSteps] /\ kind \in [Threads -> Kinds]
      /\ NoThread \notin Threads /\ OnlyConversions /\ HeldInside
  BY ShimsAssumption DEF ShimsTypeOK, RequestTypes, ContextInv
<1>2. UNCHANGED <<kind, found, host, env, cwd, skip, oldEnv, oldCwd>>
  BY DEF AcquireTransformLock, Unlock
<1>3. CASE AcquireTransformLock(t)
  <2>1. Converts(t) /\ AsAtStart /\ at' = [at EXCEPT ![t] = "saveEnv"] /\ transformLock' = t
    BY <1>1, <1>3 DEF AcquireTransformLock, OnlyConversions, ContextInv
  <2>2. \A u \in Threads : Inside(u)' <=> u = t
    BY <1>1, <1>2, <1>3, <2>1 DEF AcquireTransformLock, HeldInside, Inside, Converts
  <2>3. AsLeft(t)' /\ OnlyConversions'
    BY <1>1, <1>2, <2>1 DEF AsAtStart, AsLeft, KeyAt, OnlyConversions, Converts
  <2>4. QED
    BY <1>1, <2>1, <2>2, <2>3 DEF ContextInv, HeldInside
<1>4. CASE Inside(t) /\ Unlock(t)
  <2>1. /\ transformLock' = NoThread /\ AsLeft(t) /\ at[t] = "unlock"
        /\ at' = [at EXCEPT ![t] = "reply"]
    BY <1>4 DEF Inside, Unlock, ContextInv
  <2>2. \A u \in Threads : ~Inside(u)'
    BY <1>1, <1>2, <1>4, <2>1 DEF HeldInside, Inside, Converts
  <2>3. AsAtStart' /\ OnlyConversions'
    BY <1>1, <1>2, <2>1 DEF AsAtStart, AsLeft, KeyAt, OnlyConversions, Converts
  <2>4. QED
    BY <1>1, <2>1, <2>2, <2>3 DEF ContextInv, HeldInside
<1>5. QED
  BY <1>3, <1>4

\* /rules shares the steps that redirect the output with the conversions.
LEMMA RulesKeepContext ==
  ASSUME ShimsTypeOK, ContextInv, NEW t \in Threads, ~Inside(t),
         ReadStdout(t) \/ SetStdout(t) \/ Run(t) \/ RestoreStdout(t) \/ Unlock(t)
  PROVE  ContextInv'
<1> USE DEF BeforeRedirect, InWorkspace, AfterRedirect, StepTo, reqVars, savedVars, lockVars,
            sharedVars
<1>1. at \in [Threads -> ThreadSteps] /\ ~Converts(t) /\ OnlyConversions
  BY DEF ShimsTypeOK, RequestTypes, ContextInv, Inside, ReadStdout, SetStdout, Run, RestoreStdout, Unlock
<1>2. UNCHANGED <<kind, found, transformLock, env, cwd, skip, oldEnv, oldCwd, host>>
  BY <1>1 DEF ReadStdout, SetStdout, Run, RestoreStdout, Unlock
<1>3. \A u \in Threads \ {t} : at'[u] = at[u]
  BY <1>1 DEF ReadStdout, SetStdout, Run, RestoreStdout, Unlock
<1>4. at'[t] \in {"setStdout", "run", "restoreStdout", "unlock", "reply"}
  BY <1>1 DEF ReadStdout, SetStdout, Run, RestoreStdout, Unlock
<1>5. ~Inside(t)' /\ OnlyConversions'
  BY <1>1, <1>2, <1>3, <1>4 DEF Inside, Converts, OnlyConversions
<1>6. QED
  BY <1>2, <1>3, <1>5, OutsideStep

THEOREM ContextInvariant == ShimsSpec => []ContextInv
<1>1. ShimsInit => ContextInv
  BY ShimsAssumption DEF ShimsInit, ContextInv, OnlyConversions, HeldInside, AsAtStart, Inside, BeforeRedirect,
     InWorkspace, AfterRedirect
<1>2. ShimsTypeOK /\ ShimsTypeOK' /\ ContextInv /\ [ShimsNext]_shimVars => ContextInv'
  <2> SUFFICES ASSUME ShimsTypeOK, ShimsTypeOK', ContextInv, [ShimsNext]_shimVars
               PROVE  ContextInv'
    OBVIOUS
  <2>1. ASSUME NEW t \in Threads, \/ \E k \in Kinds : Begin(t, k)
                                  \/ Detect(t) \/ AcquireRulesLock(t) \/ Reply(t)
        PROVE  ContextInv'
    BY <2>1, RequestsKeepContext
  <2>2. ASSUME NEW t \in Threads, AcquireTransformLock(t)
        PROVE  ContextInv'
    BY <2>2, LockKeepsContext
  <2>3. ASSUME NEW t \in Threads, \/ SaveEnv(t) \/ SetEnv(t) \/ Chdir(t) \/ Patch(t) \/ Unpatch(t)
                                  \/ RestoreCwd(t) \/ RestoreEnv(t)
        PROVE  ContextInv'
    <3>1. Inside(t)
      BY <2>3 DEF ContextInv, OnlyConversions, Inside, BeforeRedirect, InWorkspace, AfterRedirect,
         SaveEnv, SetEnv, Chdir, Patch, Unpatch, RestoreCwd, RestoreEnv
    <3>2. QED
      BY <2>3, <3>1, ConversionKeepsContext
  <2>4. ASSUME NEW t \in Threads, \/ ReadStdout(t) \/ SetStdout(t) \/ Run(t) \/ RestoreStdout(t)
                                  \/ Unlock(t)
        PROVE  ContextInv'
    BY <2>4, ConversionKeepsContext, LockKeepsContext, RulesKeepContext
  <2>5. CASE UNCHANGED shimVars
    <3>1. UNCHANGED <<at, kind, found, oldEnv, oldCwd, transformLock, cwd, env, skip, host>>
      BY <2>5 DEF shimVars, reqVars, savedVars, lockVars, sharedVars
    <3>2. OnlyConversions' /\ HeldInside' /\ (transformLock' = NoThread => AsAtStart')
      BY <3>1 DEF ContextInv, OnlyConversions, HeldInside, AsAtStart, Inside, Converts
    <3>3. ASSUME NEW t \in Threads, Inside(t)'
          PROVE  AsLeft(t)'
      <4>1. AsLeft(t)
        BY <3>1, <3>3 DEF ContextInv, Inside, Converts
      <4>2. QED
        BY <3>1, <4>1 DEF AsLeft, Validates, KeyAt
    <3>4. QED
      BY <3>2, <3>3 DEF ContextInv
  <2>6. QED
    BY <2>1, <2>2, <2>3, <2>4, <2>5 DEF ShimsNext, EnterShims, LeaveShims
<1>3. QED
  BY <1>1, <1>2, TypeCorrect, PTL DEF ShimsSpec

\* A conversion runs in its own workspace, with the keys it should have and
\* with validation on or off as it should be, whatever else is in flight.
THEOREM OwnContext == ShimsSpec => []RunsInItsOwnContext
<1>1. ShimsTypeOK /\ ContextInv => RunsInItsOwnContext
  <2> SUFFICES ASSUME ShimsTypeOK, ContextInv, NEW t \in Threads, at[t] = "run", Converts(t)
               PROVE  /\ cwd = t
                      /\ env = IF found[t] = "cli" THEN [n \in KeyNames |-> "cli"] ELSE host.env
                      /\ skip = ~Validates(t)
    BY DEF RunsInItsOwnContext
  <2>1. AsLeft(t)
    BY DEF ContextInv, Inside, InWorkspace
  <2>2. env \in [KeyNames -> Keys] /\ host.env \in [KeyNames -> {"unset", "server"}]
    BY DEF ShimsTypeOK, EnvTypes
  <2>3. \A n \in KeyNames : env[n] = IF found[t] = "cli" THEN "cli" ELSE host.env[n]
    BY <2>1 DEF AsLeft, KeyAt
  <2>4. env = IF found[t] = "cli" THEN [n \in KeyNames |-> "cli"] ELSE host.env
    BY <2>2, <2>3
  <2>5. QED
    BY <2>1, <2>4 DEF AsLeft, InWorkspace
<1>2. QED
  BY <1>1, TypeCorrect, ContextInvariant, PTL
-----------------------------------------------------------------------------
\* No request for the rules is in flight beside a conversion.
RulesApart == Overlaps \cap {{"rules", "convert"}, {"rules", "validate"}} = {}

KeptApart ==
  \A t, u \in Threads :
    Busy(t) /\ Busy(u) /\ kind[t] = "rules" => ~Converts(u)

RulesSteps == {"readStdout", "setStdout", "run", "restoreStdout", "unlock"}

InRules(t) == ~Converts(t) /\ at[t] \in RulesSteps

RulesHeldInside ==
  \A t \in Threads :
    /\ rulesLock = t <=> InRules(t)
    /\ ~Converts(t) /\ at[t] \in RulesSteps \cup {"rulesLock", "reply"} => kind[t] = "rules"

\* The steps that have sys.stdout to themselves, and those at which it is the
\* request's own.
StreamSteps == {"readStdout", "setStdout", "patch", "run", "unpatch", "restoreStdout"}
RedirectedTo == {"patch", "run", "unpatch", "restoreStdout"}

BeforeRun == {"detectId", "detectSecret", "lock", "saveEnv", "setId", "setSecret", "chdir",
              "rulesLock", "readStdout", "setStdout", "patch", "run"}
BeforeRead == BeforeRun \ {"setStdout", "patch", "run"}

Printed(t) ==
  /\ oldStdout[t] \in {"none", "terminal"}
  /\ at[t] \in BeforeRead => oldStdout[t] = "none"
  /\ at[t] \in BeforeRun => lines[t] = {}
  /\ at[t] \in ThreadSteps \ (BeforeRun \cup {"idle"}) /\ oldStdout[t] # "none" => lines[t] = {t}
  /\ reply[t] = {t}

StreamInv ==
  /\ KeptApart /\ RulesHeldInside
  /\ \A t \in Threads : Printed(t)
  /\ \A t \in Threads : at[t] \in RedirectedTo => stdout = t
  /\ (\A t \in Threads : at[t] \notin RedirectedTo) => stdout = "terminal"

\* A free stream, or one thread that has it: of two, both would hold one lock,
\* or one would be about the rules and the other convert.
LEMMA OneStream ==
  ASSUME ShimsTypeOK, ContextInv, StreamInv, NEW t \in Threads, NEW u \in Threads,
         at[t] \in StreamSteps, at[u] \in StreamSteps
  PROVE  t = u
<1> USE DEF StreamSteps, RulesSteps, ContextInv, StreamInv
<1>1. ASSUME NEW x \in Threads, at[x] \in StreamSteps
      PROVE  IF Converts(x) THEN transformLock = x ELSE rulesLock = x /\ kind[x] = "rules" /\ Busy(x)
  BY <1>1 DEF HeldInside, OnlyConversions, Inside, InWorkspace, RulesHeldInside, InRules, Busy
<1>2. CASE Converts(t) <=> Converts(u)
  BY <1>1, <1>2
<1>3. CASE ~(Converts(t) <=> Converts(u))
  BY <1>1, <1>3 DEF KeptApart, Busy
<1>4. QED
  BY <1>2, <1>3

\* A step of t that leaves the streams alone.
LEMMA QuietStep ==
  ASSUME ShimsTypeOK, StreamInv, NEW t \in Threads, Busy(t), NEW s \in ThreadSteps,
         at' = [at EXCEPT ![t] = s],
         UNCHANGED <<kind, lines, reply, oldStdout, stdout>>,
         at[t] \in RedirectedTo <=> s \in RedirectedTo,
         Printed(t)', RulesHeldInside'
  PROVE  StreamInv'
<1>1. at \in [Threads -> ThreadSteps]
  BY DEF ShimsTypeOK, RequestTypes
<1>2. KeptApart'
  BY <1>1 DEF StreamInv, KeptApart, Busy, Converts
<1>3. \A u \in Threads : Printed(u)'
  BY <1>1 DEF StreamInv, Printed
<1>4. QED
  BY <1>1, <1>2, <1>3 DEF StreamInv

LEMMA BeginKeepsStreams ==
  ASSUME RulesApart, ShimsTypeOK, ContextInv, StreamInv, NEW t \in Threads, NEW k \in Kinds, Begin(t, k)
  PROVE  StreamInv'
<1> USE DEF StepTo, lockVars, sharedVars, RulesSteps
<1>1. /\ at \in [Threads -> ThreadSteps] /\ kind \in [Threads -> Kinds] /\ reply \in [Threads -> SUBSET Threads]
      /\ lines \in [Threads -> SUBSET Threads] /\ oldStdout \in [Threads -> Streams \cup {"none"}]
  BY DEF ShimsTypeOK, RequestTypes, StreamTypes
<1>2. /\ at[t] = "idle" /\ kind' = [kind EXCEPT ![t] = k] /\ UNCHANGED <<rulesLock, stdout>>
      /\ at' = [at EXCEPT ![t] = IF k = "convert" THEN "lock" ELSE IF k = "rules" THEN "rulesLock"
                                 ELSE "detectId"]
  BY DEF Begin
<1>3. \A u \in Threads : Busy(u) =>
        {k, kind[u]} \notin {{"rules", "convert"}, {"rules", "validate"}}
  BY DEF Begin, RulesApart, Conflicts
<1>4. KeptApart'
  <2>1. ASSUME NEW u \in Threads, Busy(u)
        PROVE  (k = "rules" => ~Converts(u)) /\ (kind[u] = "rules" => k \notin {"convert", "validate"})
    BY <1>3, <2>1 DEF Converts
  <2>2. QED
    BY <1>1, <1>2, <2>1 DEF StreamInv, KeptApart, Busy, Converts
<1>5. RulesHeldInside'
  BY <1>1, <1>2 DEF StreamInv, RulesHeldInside, InRules, Converts
<1>6. \A u \in Threads : Printed(u)'
  BY <1>1, <1>2 DEF Begin, StreamInv, Printed, BeforeRun, BeforeRead
<1>7. \A u \in Threads : at'[u] \in RedirectedTo <=> at[u] \in RedirectedTo
  BY <1>1, <1>2 DEF RedirectedTo
<1>8. QED
  BY <1>2, <1>4, <1>5, <1>6, <1>7 DEF StreamInv

\* The steps that are not about the output, of a conversion or of /credentials.
LEMMA QuietStepsKeepStreams ==
  ASSUME ShimsTypeOK, ContextInv, StreamInv, NEW t \in Threads,
         \/ Detect(t) \/ AcquireTransformLock(t) \/ SaveEnv(t) \/ SetEnv(t) \/ Chdir(t) \/ Patch(t)
         \/ Unpatch(t) \/ RestoreCwd(t) \/ RestoreEnv(t)
  PROVE  StreamInv'
<1> USE DEF StepTo, reqVars, savedVars, lockVars, sharedVars
<1>1. /\ at \in [Threads -> ThreadSteps] /\ kind \in [Threads -> Kinds] /\ Printed(t)
      /\ OnlyConversions /\ RulesHeldInside
  BY DEF ShimsTypeOK, RequestTypes, ContextInv, StreamInv
<1>2. UNCHANGED <<kind, lines, reply, oldStdout, stdout, rulesLock>>
  BY DEF Detect, DetectId, DetectSecret, AcquireTransformLock, SaveEnv, SetEnv, Chdir, Patch,
     Unpatch, RestoreCwd, RestoreEnv
<1>3. PICK s \in ThreadSteps :
        /\ at' = [at EXCEPT ![t] = s]
        /\ \/ /\ at[t] \in BeforeRead \ {"rulesLock", "readStdout"}
              /\ s \in {"detectSecret", "lock", "saveEnv", "setId", "setSecret", "chdir", "readStdout"}
           \/ at[t] \in {"detectId", "detectSecret"} /\ s = "idle"
           \/ at[t] = "chdir" /\ s = "restoreEnv"
           \/ at[t] = "patch" /\ s = "run"
           \/ at[t] = "unpatch" /\ s = "restoreStdout"
           \/ at[t] \in {"restoreCwd", "restoreEnv", "restoreSecret"}
                /\ s \in {"restoreEnv", "restoreSecret", "unlock"}
        /\ s = "readStdout" => at[t] = "chdir"
        /\ s = "lock" => Converts(t)
  <2>1. CASE Detect(t)
    BY <2>1 DEF Detect, DetectId, DetectSecret, Detected, BeforeRead, BeforeRun, ThreadSteps, Converts
  <2>2. CASE AcquireTransformLock(t) \/ SaveEnv(t) \/ SetEnv(t)
    BY <2>2 DEF AcquireTransformLock, SaveEnv, SetEnv, BeforeRead, BeforeRun, ThreadSteps
  <2>3. CASE Chdir(t)
    BY <2>3 DEF Chdir, BeforeRead, BeforeRun, ThreadSteps
  <2>4. CASE Patch(t) \/ Unpatch(t)
    BY <2>4 DEF Patch, Unpatch, ThreadSteps
  <2>5. CASE RestoreCwd(t) \/ RestoreEnv(t)
    BY <2>5 DEF RestoreCwd, RestoreEnv, ThreadSteps
  <2>6. QED
    BY <2>1, <2>2, <2>3, <2>4, <2>5
<1>4. Busy(t) /\ (at[t] \in RedirectedTo <=> s \in RedirectedTo)
  BY <1>3 DEF Busy, RedirectedTo, BeforeRead, BeforeRun
<1>5. Printed(t)'
  BY <1>1, <1>2, <1>3 DEF Printed, BeforeRead, BeforeRun
<1>6. RulesHeldInside'
  <2>1. at[t] \in RulesSteps \cup {"rulesLock", "reply"} \/ s \in RulesSteps \cup {"rulesLock", "reply"}
          => Converts(t)
    BY <1>1, <1>3 DEF OnlyConversions, BeforeRedirect, BeforeRead, BeforeRun, RulesSteps
  <2>2. QED
    BY <1>1, <1>2, <1>3, <2>1 DEF RulesHeldInside, InRules, Converts
<1>7. QED
  BY <1>2, <1>3, <1>4, <1>5, <1>6, QuietStep

\* The steps of a thread that has the stream, or is about to have it.
LEMMA RedirectionKeepsStreams ==
  ASSUME ShimsTypeOK, ContextInv, StreamInv, NEW t \in Threads,
         ReadStdout(t) \/ SetStdout(t) \/ Run(t) \/ RestoreStdout(t)
  PROVE  StreamInv'
<1> USE DEF StepTo, reqVars, savedVars, lockVars, sharedVars, RulesSteps
<1>1. /\ at \in [Threads -> ThreadSteps] /\ kind \in [Threads -> Kinds] /\ lines \in [Threads -> SUBSET Threads]
      /\ oldStdout \in [Threads -> Streams \cup {"none"}]
      /\ OnlyConversions /\ RulesHeldInside /\ Threads \cap {"terminal", "none"} = {}
  BY ShimsAssumption DEF ShimsTypeOK, RequestTypes, StreamTypes, ContextInv, StreamInv
<1>2. /\ at[t] \in StreamSteps
      /\ \A u \in Threads \ {t} : at[u] \notin StreamSteps /\ at'[u] = at[u] /\ Printed(u)
      /\ Printed(t) /\ Busy(t) /\ UNCHANGED <<kind, reply, rulesLock>>
  BY <1>1, OneStream DEF StreamInv, StreamSteps, ReadStdout, SetStdout, Run, RestoreStdout, Busy
<1>3. stdout = IF at[t] \in RedirectedTo THEN t ELSE "terminal"
  BY <1>2 DEF StreamInv, StreamSteps, RedirectedTo
<1>4. KeptApart'
  BY <1>2 DEF StreamInv, KeptApart, Busy, Converts
<1>5. ASSUME NEW u \in Threads \ {t}
      PROVE  Printed(u)' /\ at'[u] \notin RedirectedTo
  BY <1>1, <1>2, <1>3, <1>5 DEF Printed, ReadStdout, SetStdout, Run, RestoreStdout, RedirectedTo, StreamSteps
<1>6. CASE ReadStdout(t)
  <2>1. at'[t] = "setStdout" /\ oldStdout'[t] = "terminal" /\ UNCHANGED <<stdout, lines>>
    BY <1>1, <1>3, <1>6 DEF ReadStdout, RedirectedTo
  <2>2. Printed(t)' /\ RulesHeldInside'
    BY <1>1, <1>2, <1>6, <2>1 DEF ReadStdout, Printed, BeforeRun, BeforeRead, RulesHeldInside, InRules, Converts
  <2>3. QED
    BY <1>2, <1>3, <1>4, <1>5, <1>6, <2>1, <2>2 DEF ReadStdout, StreamInv, RedirectedTo
<1>7. CASE SetStdout(t)
  <2>1. at'[t] \in {"patch", "run"} /\ stdout' = t /\ UNCHANGED <<oldStdout, lines>>
        /\ (at'[t] = "patch" => Converts(t))
    BY <1>1, <1>7 DEF SetStdout
  <2>2. Printed(t)' /\ RulesHeldInside'
    BY <1>1, <1>2, <1>7, <2>1 DEF SetStdout, Printed, BeforeRun, BeforeRead, RulesHeldInside, InRules, Converts
  <2>3. QED
    BY <1>2, <1>4, <1>5, <2>1, <2>2 DEF StreamInv, RedirectedTo
<1>8. CASE Run(t)
  <2>1. /\ at'[t] \in {"unpatch", "restoreStdout"} /\ stdout = t /\ lines'[t] = {t} /\ UNCHANGED <<oldStdout, stdout>>
        /\ at'[t] = "unpatch" => Converts(t)
    BY <1>1, <1>2, <1>3, <1>8 DEF Run, Printed, BeforeRun, RedirectedTo
  <2>2. Printed(t)' /\ RulesHeldInside'
    BY <1>1, <1>2, <1>8, <2>1 DEF Run, Printed, BeforeRun, BeforeRead, RulesHeldInside, InRules, Converts
  <2>3. QED
    BY <1>2, <1>4, <1>5, <2>1, <2>2 DEF StreamInv, RedirectedTo
<1>9. CASE RestoreStdout(t)
  <2>1. oldStdout[t] = "terminal"
    BY <1>2, <1>9, ShimsTypeOK DEF RestoreStdout, Printed, ShimsTypeOK, StreamTypes, RedirectedSteps
  <2>2. /\ at'[t] \in {"restoreCwd", "unlock"} /\ stdout' = "terminal" /\ UNCHANGED <<oldStdout, lines>>
        /\ at'[t] = "restoreCwd" <=> Converts(t)
    BY <1>1, <1>9, <2>1 DEF RestoreStdout
  <2>3. Printed(t)' /\ RulesHeldInside'
    BY <1>1, <1>2, <1>9, <2>2 DEF RestoreStdout, Printed, BeforeRun, BeforeRead, ThreadSteps, RulesHeldInside, InRules,
       Converts
  <2>4. QED
    BY <1>2, <1>4, <1>5, <2>2, <2>3 DEF StreamInv, RedirectedTo
<1>10. QED
  BY <1>6, <1>7, <1>8, <1>9

LEMMA LocksKeepStreams ==
  ASSUME ShimsTypeOK, ContextInv, StreamInv, NEW t \in Threads,
         AcquireRulesLock(t) \/ Unlock(t)
  PROVE  StreamInv'
<1> USE DEF StepTo, reqVars, savedVars, lockVars, sharedVars, RulesSteps
<1>1. /\ at \in [Threads -> ThreadSteps] /\ kind \in [Threads -> Kinds] /\ Printed(t)
      /\ OnlyConversions /\ RulesHeldInside /\ NoThread \notin Threads
  BY ShimsAssumption DEF ShimsTypeOK, RequestTypes, ContextInv, StreamInv
<1>2. CASE AcquireRulesLock(t)
  <2>1. /\ at' = [at EXCEPT ![t] = "readStdout"] /\ at[t] = "rulesLock" /\ ~Converts(t)
        /\ UNCHANGED <<kind, lines, reply, oldStdout, stdout>>
    BY <1>1, <1>2 DEF AcquireRulesLock, OnlyConversions
  <2>2. Printed(t)' /\ Busy(t) /\ "readStdout" \in ThreadSteps
    BY <1>1, <2>1 DEF Printed, BeforeRun, BeforeRead, Busy, ThreadSteps
  <2>3. RulesHeldInside'
    BY <1>1, <1>2, <2>1 DEF AcquireRulesLock, RulesHeldInside, InRules, Converts
  <2>4. QED
    BY <2>1, <2>2, <2>3, QuietStep DEF RedirectedTo
<1>3. CASE Unlock(t)
  <2>1. /\ at' = [at EXCEPT ![t] = "reply"] /\ at[t] = "unlock"
        /\ UNCHANGED <<kind, lines, reply, oldStdout, stdout>>
    BY <1>3 DEF Unlock
  <2>2. Printed(t)' /\ Busy(t) /\ "reply" \in ThreadSteps
    BY <1>1, <2>1 DEF Printed, BeforeRun, BeforeRead, Busy, ThreadSteps
  <2>3. RulesHeldInside'
    BY <1>1, <1>3, <2>1 DEF Unlock, RulesHeldInside, InRules, Converts
  <2>4. QED
    BY <2>1, <2>2, <2>3, QuietStep DEF RedirectedTo
<1>4. QED
  BY <1>2, <1>3

LEMMA ReplyKeepsStreams ==
  ASSUME ShimsTypeOK, ContextInv, StreamInv, NEW t \in Threads, Reply(t)
  PROVE  StreamInv'
<1> USE DEF StepTo, lockVars, RulesSteps
<1>1. /\ at \in [Threads -> ThreadSteps] /\ reply \in [Threads -> SUBSET Threads]
      /\ oldStdout \in [Threads -> Streams \cup {"none"}]
      /\ Threads \cap {"terminal", "none"} = {} /\ \A u \in Threads : Printed(u)
  BY ShimsAssumption DEF ShimsTypeOK, RequestTypes, StreamTypes, StreamInv
<1>2. /\ at[t] = "reply" /\ at' = [at EXCEPT ![t] = "idle"]
      /\ UNCHANGED <<kind, lines, rulesLock>>
  BY DEF Reply
<1>3. reply'[t] = {t} /\ \A u \in Threads : reply'[u] = {u}
  BY <1>1, <1>2 DEF Reply, Printed, ThreadSteps, BeforeRun
<1>4. stdout # t /\ stdout' = stdout
  BY <1>1, <1>2 DEF Reply, StreamInv, RedirectedTo
<1>5. oldStdout' = oldStdout
  BY <1>1 DEF Reply, Printed
<1>6. \A u \in Threads : Printed(u)'
  BY <1>1, <1>2, <1>3, <1>5 DEF Printed, BeforeRun, BeforeRead
<1>7. KeptApart' /\ RulesHeldInside'
  BY <1>1, <1>2 DEF StreamInv, KeptApart, RulesHeldInside, InRules, Busy, Converts
<1>8. QED
  BY <1>1, <1>2, <1>4, <1>6, <1>7 DEF StreamInv, RedirectedTo

\* The output is redirected to one request at a time, which puts it back, if
\* no request for the rules overlaps a conversion (redirect_stdout).
THEOREM StreamInvariant ==
  ASSUME RulesApart
  PROVE  ShimsSpec => []StreamInv
<1>1. ShimsInit => StreamInv
  BY ShimsAssumption DEF ShimsInit, StreamInv, KeptApart, RulesHeldInside, InRules, RulesSteps, Printed, Busy,
     BeforeRun, BeforeRead, RedirectedTo, Converts
<1>2. ShimsTypeOK /\ ContextInv /\ StreamInv /\ [ShimsNext]_shimVars => StreamInv'
  <2> SUFFICES ASSUME ShimsTypeOK, ContextInv, StreamInv, [ShimsNext]_shimVars
               PROVE  StreamInv'
    OBVIOUS
  <2>1. ASSUME NEW t \in Threads, NEW k \in Kinds, Begin(t, k)
        PROVE  StreamInv'
    BY <2>1, RulesApart, BeginKeepsStreams
  <2>2. ASSUME NEW t \in Threads,
               \/ Detect(t) \/ AcquireTransformLock(t) \/ SaveEnv(t) \/ SetEnv(t) \/ Chdir(t) \/ Patch(t)
               \/ Unpatch(t) \/ RestoreCwd(t) \/ RestoreEnv(t)
        PROVE  StreamInv'
    BY <2>2, QuietStepsKeepStreams
  <2>3. ASSUME NEW t \in Threads, ReadStdout(t) \/ SetStdout(t) \/ Run(t) \/ RestoreStdout(t)
        PROVE  StreamInv'
    BY <2>3, RedirectionKeepsStreams
  <2>4. ASSUME NEW t \in Threads, AcquireRulesLock(t) \/ Unlock(t)
        PROVE  StreamInv'
    BY <2>4, LocksKeepStreams
  <2>5. ASSUME NEW t \in Threads, Reply(t)
        PROVE  StreamInv'
    BY <2>5, ReplyKeepsStreams
  <2>6. CASE UNCHANGED shimVars
    BY <2>6 DEF shimVars, reqVars, savedVars, lockVars, sharedVars, StreamInv, KeptApart, RulesHeldInside, InRules,
       Printed, Busy, Converts
  <2>7. QED
    BY <2>1, <2>2, <2>3, <2>4, <2>5, <2>6 DEF ShimsNext, EnterShims, LeaveShims
<1>3. QED
  BY <1>1, <1>2, TypeCorrect, ContextInvariant, PTL DEF ShimsSpec

\* The log of a conversion, and the text of /rules, is all of its own output
\* and nobody else's, unless a request for the rules overlaps a conversion.
THEOREM WholeReplies ==
  ASSUME RulesApart
  PROVE  ShimsSpec => []RepliesAreWhole
<1>1. StreamInv => RepliesAreWhole
  BY DEF StreamInv, Printed, RepliesAreWhole
<1>2. QED
  BY <1>1, StreamInvariant, PTL

\* The process is as it was whenever both locks are free, with whatever
\* failed, unless a request for the rules overlaps a conversion.
THEOREM ProcessRestored ==
  ASSUME RulesApart
  PROVE  ShimsSpec => []Restored
<1>1. ShimsTypeOK /\ ContextInv /\ StreamInv => Restored
  <2> SUFFICES ASSUME ShimsTypeOK, ContextInv, StreamInv, transformLock = NoThread, rulesLock = NoThread
               PROVE  stdout = "terminal" /\ cwd = "home" /\ env = host.env /\ skip = FALSE
    BY DEF Restored
  <2>1. AsAtStart
    BY DEF ContextInv
  <2>2. env \in [KeyNames -> Keys] /\ host.env \in [KeyNames -> {"unset", "server"}]
    BY DEF ShimsTypeOK, EnvTypes
  <2>3. env = host.env
    BY <2>1, <2>2 DEF AsAtStart
  <2>4. ASSUME NEW t \in Threads
        PROVE  at[t] \notin RedirectedTo
    BY ShimsAssumption DEF ContextInv, HeldInside, OnlyConversions, Inside, InWorkspace, StreamInv,
       RulesHeldInside, InRules, RulesSteps, RedirectedTo
  <2>5. QED
    BY <2>1, <2>3, <2>4 DEF StreamInv, AsAtStart
<1>2. QED
  BY <1>1, TypeCorrect, ContextInvariant, StreamInvariant, PTL

-----------------------------------------------------------------------------
\* Nothing that detects credentials is in flight beside a validation.
DetectionApart == Overlaps \cap {{"validate"}, {"validate", "credentials"}} = {}

Detects(t) == kind[t] \in {"validate", "credentials"}

\* Only a validation puts keys of its own into the environment, so that while
\* a request looks there the keys are the server's.
SourceInv ==
  /\ \A t, u \in Threads :
       t # u /\ Busy(t) /\ Busy(u) /\ kind[t] = "validate" => ~Detects(u)
  /\ \A t \in Threads :
       /\ at[t] \in {"detectId", "detectSecret"} => Detects(t)
       /\ ~Detects(t) => found[t] = "none"
       /\ at[t] = "detectSecret" => host.env["id"] = "server"
  /\ SourceIsTrue

LEMMA ServersOwnKeys ==
  ASSUME ShimsTypeOK, ContextInv, SourceInv, NEW t \in Threads, at[t] \in {"detectId", "detectSecret"}
  PROVE  \A n \in KeyNames : env[n] = host.env[n]
<1>1. CASE transformLock = NoThread
  BY <1>1 DEF ContextInv, AsAtStart
<1>2. CASE transformLock # NoThread
  <2>1. PICK u \in Threads : transformLock = u /\ Inside(u)
    BY <1>2 DEF ShimsTypeOK, RequestTypes, ContextInv, HeldInside
  <2>2. u # t /\ Busy(u) /\ Busy(t) /\ Converts(u)
    BY <2>1 DEF Inside, BeforeRedirect, InWorkspace, AfterRedirect, Busy
  <2>3. found[u] # "cli"
    BY <2>2 DEF SourceInv, Detects, Converts
  <2>4. QED
    BY <2>1, <2>3 DEF ContextInv, AsLeft
<1>3. QED
  BY <1>1, <1>2

\* A step of t that is not about its credentials.
LEMMA OtherSteps ==
  ASSUME ShimsTypeOK, SourceInv, NEW t \in Threads, EnterShims(t) \/ Run(t) \/ LeaveShims(t) \/ Reply(t)
  PROVE  SourceInv'
<1> USE DEF StepTo, reqVars, savedVars, lockVars, sharedVars
<1>1. at \in [Threads -> ThreadSteps]
  BY DEF ShimsTypeOK, RequestTypes
<1>2. Busy(t) /\ UNCHANGED <<kind, found, host>>
  BY DEF EnterShims, AcquireTransformLock, SaveEnv, SetEnv, Chdir, AcquireRulesLock, ReadStdout, SetStdout,
     Patch, Run, LeaveShims, Unpatch, RestoreStdout, RestoreCwd, RestoreEnv, Unlock, Reply, Busy
<1>3. /\ at'[t] \notin {"detectId", "detectSecret"}
      /\ \A u \in Threads \ {t} : at'[u] = at[u]
  <2>1. CASE EnterShims(t)
    BY <1>1, <2>1 DEF EnterShims, AcquireTransformLock, SaveEnv, SetEnv, Chdir, AcquireRulesLock,
       ReadStdout, SetStdout, Patch
  <2>2. CASE Run(t) \/ LeaveShims(t) \/ Reply(t)
    BY <1>1, <2>2 DEF Run, LeaveShims, Unpatch, RestoreStdout, RestoreCwd, RestoreEnv, Unlock, Reply
  <2>3. QED
    BY <2>1, <2>2
<1>4. QED
  BY <1>2, <1>3 DEF SourceInv, SourceIsTrue, Detects, Busy

LEMMA BeginKeepsSource ==
  ASSUME DetectionApart, ShimsTypeOK, SourceInv, NEW t \in Threads, NEW k \in Kinds, Begin(t, k)
  PROVE  SourceInv'
<1> USE DEF StepTo
<1>1. /\ at \in [Threads -> ThreadSteps] /\ kind \in [Threads -> Kinds] /\ found \in [Threads -> Sources]
  BY DEF ShimsTypeOK, RequestTypes
<1>2. /\ at[t] = "idle" /\ kind' = [kind EXCEPT ![t] = k] /\ found' = [found EXCEPT ![t] = "none"]
      /\ at' = [at EXCEPT ![t] = IF k = "convert" THEN "lock" ELSE IF k = "rules" THEN "rulesLock"
                                 ELSE "detectId"]
      /\ UNCHANGED host
  BY DEF Begin
<1>3. ASSUME NEW u \in Threads, Busy(u)
      PROVE  /\ k = "validate" => ~Detects(u)
             /\ kind[u] = "validate" => k \notin {"validate", "credentials"}
  <2>1. {k, kind[u]} \notin {{"validate"}, {"validate", "credentials"}}
    BY <1>3 DEF Begin, DetectionApart, Conflicts
  <2>2. QED
    BY <2>1 DEF Detects
<1>4. \A u, v \in Threads :
        u # v /\ Busy(u)' /\ Busy(v)' /\ kind'[u] = "validate" => ~Detects(v)'
  BY <1>1, <1>2, <1>3 DEF SourceInv, Busy, Detects
<1>5. ASSUME NEW u \in Threads
      PROVE  /\ at'[u] \in {"detectId", "detectSecret"} => Detects(u)'
             /\ ~Detects(u)' => found'[u] = "none"
             /\ at'[u] = "detectSecret" => host'.env["id"] = "server"
  BY <1>1, <1>2 DEF SourceInv, Detects, Kinds
<1>6. SourceIsTrue'
  BY <1>1, <1>2 DEF SourceInv, SourceIsTrue
<1>7. QED
  BY <1>4, <1>5, <1>6 DEF SourceInv

LEMMA DetectKeepsSource ==
  ASSUME ShimsTypeOK, ContextInv, SourceInv, NEW t \in Threads, Detect(t)
  PROVE  SourceInv'
<1> USE DEF StepTo
<1>1. /\ at \in [Threads -> ThreadSteps] /\ found \in [Threads -> Sources]
      /\ host.env \in [KeyNames -> {"unset", "server"}]
  BY DEF ShimsTypeOK, RequestTypes, EnvTypes
<1>2. /\ at[t] \in {"detectId", "detectSecret"} /\ Busy(t) /\ Detects(t) /\ UNCHANGED <<kind, host>>
      /\ \A n \in KeyNames : env[n] = host.env[n]
  BY ServersOwnKeys DEF Detect, DetectId, DetectSecret, Busy, SourceInv
<1>3. PICK s \in ThreadSteps, source \in Sources :
        /\ at' = [at EXCEPT ![t] = s] /\ found' = [found EXCEPT ![t] = source]
        /\ s # "detectId" /\ (s = "detectSecret" => host.env["id"] = "server")
        /\ source = "environment" => \/ source = found[t]
                                     \/ \A n \in KeyNames : host.env[n] = "server"
  <2>1. CASE DetectId(t)
    <3>1. CASE env["id"] # "unset"
      <4>1. at' = [at EXCEPT ![t] = "detectSecret"] /\ found' = [found EXCEPT ![t] = found[t]]
        BY <1>1, <2>1, <3>1 DEF DetectId
      <4>2. host.env["id"] = "server" /\ found[t] \in Sources
        BY <1>1, <1>2, <3>1 DEF KeyNames
      <4>3. QED
        BY <4>1, <4>2 DEF ThreadSteps
    <3>2. CASE env["id"] = "unset"
      BY <2>1, <3>2 DEF DetectId, Detected, InFiles, ThreadSteps, Sources
    <3>3. QED
      BY <3>1, <3>2
  <2>2. CASE DetectSecret(t)
    <3>1. env["secret"] # "unset" => \A n \in KeyNames : host.env[n] = "server"
      BY <1>1, <1>2, <2>2 DEF DetectSecret, SourceInv, KeyNames
    <3>2. QED
      BY <2>2, <3>1 DEF DetectSecret, Detected, InFiles, ThreadSteps, Sources
  <2>3. QED
    BY <2>1, <2>2 DEF Detect
<1>4. QED
  BY <1>1, <1>2, <1>3 DEF SourceInv, SourceIsTrue, Detects, Busy

\* detect_credentials finds the server's own keys in the environment, never
\* those of a request in flight, if none overlaps a validation.
THEOREM SourceInvariant ==
  ASSUME DetectionApart
  PROVE  ShimsSpec => []SourceInv
<1>1. ShimsInit => SourceInv
  BY DEF ShimsInit, SourceInv, SourceIsTrue, Detects, Busy
<1>2. ShimsTypeOK /\ ContextInv /\ SourceInv /\ [ShimsNext]_shimVars => SourceInv'
  <2> SUFFICES ASSUME ShimsTypeOK, ContextInv, SourceInv, [ShimsNext]_shimVars
               PROVE  SourceInv'
    OBVIOUS
  <2>1. ASSUME NEW t \in Threads, NEW k \in Kinds, Begin(t, k)
        PROVE  SourceInv'
    BY <2>1, DetectionApart, BeginKeepsSource
  <2>2. ASSUME NEW t \in Threads, Detect(t)
        PROVE  SourceInv'
    BY <2>2, DetectKeepsSource
  <2>3. ASSUME NEW t \in Threads, EnterShims(t) \/ Run(t) \/ LeaveShims(t) \/ Reply(t)
        PROVE  SourceInv'
    BY <2>3, OtherSteps
  <2>4. CASE UNCHANGED shimVars
    BY <2>4 DEF shimVars, reqVars, SourceInv, SourceIsTrue, Detects, Busy
  <2>5. QED
    BY <2>1, <2>2, <2>3, <2>4 DEF ShimsNext
<1>3. QED
  BY <1>1, <1>2, TypeCorrect, ContextInvariant, PTL DEF ShimsSpec

\* Keys said to be in the environment are the server's own.
THEOREM TrueSource ==
  ASSUME DetectionApart
  PROVE  ShimsSpec => []SourceIsTrue
<1>1. SourceInv => SourceIsTrue
  BY DEF SourceInv
<1>2. QED
  BY <1>1, SourceInvariant, PTL

\* The keys that were detected are there when the template is validated, long
\* after they were, and under the lock that was not held then.
THEOREM KeysForValidation ==
  ASSUME DetectionApart
  PROVE  ShimsSpec => []ValidatedWithKeys
<1>1. ShimsTypeOK /\ ContextInv /\ SourceInv => ValidatedWithKeys
  <2> SUFFICES ASSUME ShimsTypeOK, ContextInv, SourceInv,
                      NEW t \in Threads, at[t] = "run", Validates(t), found[t] # "file",
                      NEW n \in KeyNames
               PROVE  env[n] # "unset"
    BY DEF ValidatedWithKeys
  <2>1. AsLeft(t)
    BY DEF ContextInv, Inside, InWorkspace, Validates, Converts
  <2>2. env[n] = IF found[t] = "cli" THEN "cli" ELSE host.env[n]
    BY <2>1 DEF AsLeft, KeyAt
  <2>3. found[t] \in {"cli", "environment"}
    BY DEF ShimsTypeOK, RequestTypes, Sources, Validates
  <2>4. QED
    BY <2>2, <2>3 DEF SourceInv, SourceIsTrue
<1>2. QED
  BY <1>1, TypeCorrect, ContextInvariant, SourceInvariant, PTL
=============================================================================
