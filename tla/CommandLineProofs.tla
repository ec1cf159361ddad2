-------------------------- MODULE CommandLineProofs --------------------------
(***************************************************************************)
(* Theorems about RulesUpdater, for all classifiers, versions and retries, *)
(* and about ServerLifecycle, for all processes and shells.                *)
(***************************************************************************)
EXTENDS RulesUpdater, ServerLifecycle, TLAPS

LEMMA Zero == 0 \in 0 .. MaxVersion /\ 0 \in 0 .. MaxRetries /\ 1 \in Versions /\ Versions \subseteq 0 .. MaxVersion
  BY UpdaterAssumption DEF Versions

LEMMA InitTypes == Init => TypeOK
  BY Zero DEF Init, TypeOK, CommandTypes, CacheTypes, Steps, AnswersGiven

LEMMA NextCommandTypes ==
  ASSUME TypeOK, Next
  PROVE  CommandTypes'
<1> USE Zero DEF TypeOK, CommandTypes, Steps, NetworkSteps, ChangingSteps, AnswersGiven,
                 Goto, End, commandVars, cacheVars
<1>1. CASE Start
  BY <1>1 DEF Start, Reset, Update
<1>2. CASE TimeOut
  BY <1>2, UpdaterAssumption DEF TimeOut
<1>3. CASE NetworkError
  BY <1>3 DEF NetworkError
<1>4. CASE FetchVersions
  BY <1>4 DEF FetchVersions, CacheTypes
<1>5. CASE Download
  BY <1>5 DEF Download, CacheTypes
<1>6. CASE CheckLocal
  BY <1>6 DEF CheckLocal
<1>7. CASE RemoveRules
  BY <1>7 DEF RemoveRules
<1>8. CASE CopyRules
  BY <1>8 DEF CopyRules
<1>9. CASE OpenMeta
  BY <1>9 DEF OpenMeta
<1>10. CASE WriteMeta \/ ResetMeta
  BY <1>10 DEF WriteMeta, ResetMeta
<1>11. CASE DiskError \/ Kill
  BY <1>11 DEF DiskError, Kill
<1>12. CASE Publish
  BY <1>12 DEF Publish
<1>13. QED
  BY <1>1, <1>2, <1>3, <1>4, <1>5, <1>6, <1>7, <1>8, <1>9, <1>10, <1>11, <1>12
     DEF Next, Progress, Network, Change

LEMMA NextCacheTypes ==
  ASSUME TypeOK, Next
  PROVE  CacheTypes'
<1> USE Zero DEF TypeOK, CacheTypes, cacheVars
<1>1. CASE RemoveRules
  <2>1. content' \in [Classifiers -> 0 .. MaxVersion]
    BY <1>1 DEF RemoveRules
  <2>2. torn' \subseteq Classifiers
    BY <1>1 DEF RemoveRules
  <2>3. QED
    BY <1>1, <2>1, <2>2 DEF RemoveRules
<1>2. CASE CopyRules
  <2>1. content' \in [Classifiers -> 0 .. MaxVersion]
    BY <1>2 DEF CopyRules, CommandTypes
  <2>2. torn' \subseteq Classifiers
    BY <1>2 DEF CopyRules
  <2>3. QED
    BY <1>2, <2>1, <2>2 DEF CopyRules
<1>3. CASE OpenMeta
  BY <1>3 DEF OpenMeta
<1>4. CASE WriteMeta
  BY <1>4 DEF WriteMeta, CommandTypes
<1>5. CASE ResetMeta
  BY <1>5 DEF ResetMeta
<1>6. CASE DiskError
  BY <1>6 DEF DiskError
<1>7. CASE Kill
  BY <1>7 DEF Kill
<1>8. CASE Publish
  BY <1>8, UpdaterAssumption DEF Publish, Versions
<1>9. CASE Start \/ Network \/ CheckLocal
  BY <1>9 DEF Start, Reset, Update, Network, TimeOut, NetworkError, FetchVersions, Download, CheckLocal
<1>10. QED
  BY <1>1, <1>2, <1>3, <1>4, <1>5, <1>6, <1>7, <1>8, <1>9 DEF Next, Progress, Change

\* Every variable keeps its type; requests are retried MaxRetries times at most.
THEOREM TypeCorrect == Spec => []TypeOK
<1>1. TypeOK /\ UNCHANGED vars => TypeOK'
  BY DEF TypeOK, CommandTypes, CacheTypes, vars, commandVars, cacheVars
<1>2. TypeOK /\ [Next]_vars => TypeOK'
  BY <1>1, NextCommandTypes, NextCacheTypes DEF TypeOK
<1>3. QED
  BY InitTypes, <1>2, PTL DEF Spec

-----------------------------------------------------------------------------
\* The cache is empty, or it holds the version rules_meta.json names.
Coherent ==
  /\ Installed(meta)
  /\ dirExists <=> meta # 0

\* What the running command has done so far, from one step to the next.
Halfway ==
  /\ pc \in {"check", "archive"} => target # 0
  /\ pc \in {"remove", "copy", "openMeta", "writeMeta"} => tmp # 0
  /\ pc = "copy" => \A c \in Classifiers : content[c] \in {0, tmp}
  /\ pc \in {"openMeta", "writeMeta"} => dirExists /\ Installed(tmp)
  /\ pc = "resetMeta" => ~dirExists
  /\ pc # "idle" => answer = "none"

CacheInv ==
  /\ TypeOK
  /\ \A c \in torn : content[c] # 0
  /\ ~dirExists => Installed(0)
  /\ ~disturbed /\ pc \notin ChangingSteps => Coherent
  /\ Halfway
  /\ UpdatedIsInstalled
  /\ UpToDateUnlessDisturbed

LEMMA InitCache == Init => CacheInv
  BY InitTypes DEF Init, CacheInv, Coherent, Halfway, Installed, ChangingSteps,
     UpdatedIsInstalled, UpToDateUnlessDisturbed, UpToDateIsInstalled

\* The steps that leave the cache alone.
LEMMA OtherStepsKeepCache ==
  ASSUME CacheInv, Start \/ Network \/ CheckLocal \/ DiskError \/ Kill \/ Publish, TypeOK'
  PROVE  CacheInv'
<1> USE DEF CacheInv, TypeOK, CommandTypes, CacheTypes, Coherent, Halfway, Installed,
            ChangingSteps, NetworkSteps, Versions,
            UpdatedIsInstalled, UpToDateUnlessDisturbed, UpToDateIsInstalled,
            Goto, End, commandVars, cacheVars
<1>1. CASE Start
  BY <1>1 DEF Start, Reset, Update
<1>2. CASE TimeOut \/ NetworkError
  BY <1>2 DEF TimeOut, NetworkError
<1>3. CASE FetchVersions
  BY <1>3 DEF FetchVersions
<1>4. CASE Download
  BY <1>4 DEF Download
<1>5. CASE CheckLocal
  BY <1>5 DEF CheckLocal
<1>6. CASE DiskError \/ Kill
  BY <1>6 DEF DiskError, Kill, Steps
<1>7. CASE Publish
  BY <1>7 DEF Publish
<1>8. QED
  BY <1>1, <1>2, <1>3, <1>4, <1>5, <1>6, <1>7 DEF Network

\* Files that are removed are removed whole before the directory is gone.
LEMMA RemoveKeepsCache ==
  ASSUME CacheInv, RemoveRules, TypeOK'
  PROVE  CacheInv'
<1> USE DEF CacheInv, TypeOK, CommandTypes, CacheTypes, Installed, RemoveRules
<1>1. \A c \in torn' : content'[c] # 0
  OBVIOUS
<1>2. ~dirExists' => Installed(0)'
  OBVIOUS
<1>3. ~disturbed' /\ pc' \notin ChangingSteps => Coherent'
  BY DEF ChangingSteps, Goto
<1>4. Halfway'
  BY DEF Halfway, Goto, commandVars
<1>5. UpdatedIsInstalled' /\ UpToDateUnlessDisturbed'
  BY DEF Halfway, Goto, commandVars, UpdatedIsInstalled, UpToDateUnlessDisturbed, UpToDateIsInstalled
<1>6. QED
  BY <1>1, <1>2, <1>3, <1>4, <1>5

\* Only the extracted version is copied, into an empty cache.
LEMMA CopyKeepsCache ==
  ASSUME CacheInv, CopyRules, TypeOK'
  PROVE  CacheInv'
<1> USE DEF CacheInv, TypeOK, CommandTypes, CacheTypes, Installed, CopyRules
<1>1. \A c \in torn' : content'[c] # 0
  BY DEF Halfway
<1>2. ~disturbed' /\ pc' \notin ChangingSteps => Coherent'
  BY DEF ChangingSteps, Goto
<1>3. Halfway'
  BY DEF Halfway, Goto, commandVars
<1>4. UpdatedIsInstalled' /\ UpToDateUnlessDisturbed'
  BY DEF Halfway, Goto, commandVars, UpdatedIsInstalled, UpToDateUnlessDisturbed, UpToDateIsInstalled
<1>5. QED
  BY <1>1, <1>2, <1>3, <1>4

LEMMA MetaKeepsCache ==
  ASSUME CacheInv, OpenMeta \/ WriteMeta \/ ResetMeta, TypeOK'
  PROVE  CacheInv'
<1> USE DEF CacheInv, TypeOK, CommandTypes, CacheTypes, Coherent, Halfway, Installed,
            ChangingSteps, Versions,
            UpdatedIsInstalled, UpToDateUnlessDisturbed, UpToDateIsInstalled,
            Goto, End, commandVars
<1>1. CASE OpenMeta
  BY <1>1 DEF OpenMeta
<1>2. CASE WriteMeta
  BY <1>2 DEF WriteMeta
<1>3. CASE ResetMeta
  BY <1>3 DEF ResetMeta
<1>4. QED
  BY <1>1, <1>2, <1>3

LEMMA StutterKeepsCache == CacheInv /\ UNCHANGED vars => CacheInv'
  BY DEF CacheInv, TypeOK, CommandTypes, CacheTypes, Coherent, Halfway, Installed,
     UpdatedIsInstalled, UpToDateUnlessDisturbed, UpToDateIsInstalled, vars, commandVars, cacheVars

LEMMA CacheInvariant == Spec => []CacheInv
<1>1. CacheInv /\ [Next]_vars => CacheInv'
  <2> SUFFICES ASSUME CacheInv, [Next]_vars
               PROVE  CacheInv'
    OBVIOUS
  <2>1. CASE Next
    <3>1. TypeOK'
      BY <2>1, NextCommandTypes, NextCacheTypes DEF CacheInv, TypeOK
    <3>2. QED
      BY <2>1, <3>1, OtherStepsKeepCache, RemoveKeepsCache, CopyKeepsCache, MetaKeepsCache
         DEF Next, Progress, Change
  <2>2. QED
    BY <2>1, StutterKeepsCache
<1>2. QED
  BY InitCache, <1>1, PTL DEF Spec

\* Unless a command ended while it changed the cache, the rules shown are the
\* rules loaded, whatever the remote publishes meanwhile.
THEOREM ActiveRules == Spec => []ShownIsActive
<1>1. CacheInv => ShownIsActive
  BY DEF CacheInv, Coherent, ShownIsActive, Shown, Installed, ChangingSteps
<1>2. QED
  BY CacheInvariant, <1>1, PTL

\* What an update has installed, and what it finds up-to-date, is in the cache.
THEOREM InstalledRules == Spec => []AnswerIsInstalled
<1>1. CacheInv => AnswerIsInstalled
  BY DEF CacheInv, AnswerIsInstalled
<1>2. QED
  BY CacheInvariant, <1>1, PTL

----------------------------------------------------------------------------
Commands ==
  [op : {"none", "start", "stop", "status"},
   at : {"prompt", "read", "probe", "spawn", "open", "write", "signal", "poll", "unlink"},
   pid : Pids \cup {NoPid}, polls : 0 .. MaxPolls]

CommandSteps == {"read", "probe", "spawn", "open", "write", "signal", "poll", "unlink"}

UnderWay(c) == command[c].at # "prompt"

\* A command in each shell, as it may be.
Typed(r) ==
  /\ r \in Commands
  /\ r.at = "prompt" => r = AtPrompt
  /\ r.at # "prompt" => r.op # "none"
  /\ r.at \in {"open", "write", "signal", "poll"} => r.pid \in Pids

ServerTypes ==
  /\ process \in [Pids -> Servers \cup {"none", "another"}]
  /\ portTaken \in BOOLEAN
  /\ muddled \in BOOLEAN
  /\ command \in [Shells -> Commands]
  /\ \A c \in Shells : Typed(command[c])

\* Where a server is known, if the commands came one after the other: by the
\* command that has started it, then in the file, and by the command that has
\* read it there.  None is left when one is started, or the file removed.
KnownBy(p) ==
  /\ \A c \in Shells : command[c].at \notin {"spawn", "unlink"}
  /\ \A c \in Shells :
       command[c].at \in {"probe", "open", "write", "signal", "poll"} => command[c].pid = p
  /\ (\A c \in Shells : command[c].at \notin {"open", "write"}) => pidFile = p

ServerInv ==
  /\ ServerTypes
  /\ ~muddled =>
       /\ \A c, d \in Shells : UnderWay(c) /\ UnderWay(d) => c = d
       /\ \A p \in Pids : process[p] \in Servers => KnownBy(p)

LEMMA PromptTyped == Typed(AtPrompt) /\ AtPrompt.at = "prompt"
<1>1. AtPrompt \in Commands
  BY ServerAssumption DEF AtPrompt, Commands
<1>2. AtPrompt.at = "prompt"
  BY DEF AtPrompt
<1>3. QED
  BY <1>1, <1>2 DEF Typed

LEMMA InitServer == ServerInit => ServerInv
<1> SUFFICES ASSUME ServerInit PROVE ServerInv
  OBVIOUS
<1>1. /\ process = [p \in Pids |-> "none"] /\ portTaken \in BOOLEAN /\ muddled = FALSE
      /\ command = [c \in Shells |-> AtPrompt]
  BY DEF ServerInit
<1>2. \A c \in Shells : command[c] = AtPrompt /\ ~UnderWay(c)
  BY <1>1, PromptTyped DEF UnderWay
<1>3. ServerTypes
  BY <1>1, <1>2, PromptTyped DEF ServerTypes, Typed
<1>4. QED
  BY <1>1, <1>2, <1>3 DEF ServerInv, Servers

\* A step of the command of c, to the record next.
LEMMA CommandChanges ==
  ASSUME ServerTypes, NEW c \in Shells, NEW next, Typed(next), command' = [command EXCEPT ![c] = next]
  PROVE  /\ command' \in [Shells -> Commands]
         /\ \A d \in Shells : Typed(command'[d])
         /\ command'[c] = next
         /\ \A d \in Shells \ {c} : command'[d] = command[d]
<1>1. /\ command \in [Shells -> Commands] /\ \A d \in Shells : Typed(command[d])
      /\ next \in Commands
  BY DEF ServerTypes, Typed
<1>2. QED
  BY <1>1

\* A step of a process, or of another program: no server is new.
LEMMA ProcessStep ==
  ASSUME ServerInv, UNCHANGED <<pidFile, command, muddled>>, portTaken' \in BOOLEAN,
         process' \in [Pids -> Servers \cup {"none", "another"}],
         \A p \in Pids : process'[p] \in Servers => process[p] \in Servers
  PROVE  ServerInv'
<1>1. ServerTypes'
  BY DEF ServerInv, ServerTypes
<1>2. \A p : KnownBy(p)' = KnownBy(p)
  BY DEF KnownBy
<1>3. QED
  BY <1>1, <1>2 DEF ServerInv, UnderWay

\* A step of the command of c, when it is the only one, to the record next.
LEMMA StepAlone ==
  ASSUME ServerInv, NEW c \in Shells, UnderWay(c), NEW next, Typed(next),
         command' = [command EXCEPT ![c] = next],
         UNCHANGED <<portTaken, muddled>>,
         process' \in [Pids -> Servers \cup {"none", "another"}],
         ~muddled => \A p \in Pids : process'[p] \in Servers =>
           /\ next.at \notin {"spawn", "unlink"}
           /\ next.at \in {"probe", "open", "write", "signal", "poll"} => next.pid = p
           /\ next.at \notin {"open", "write"} => pidFile' = p
  PROVE  ServerInv'
<1>1. ServerTypes
  BY DEF ServerInv
<1>2. /\ command' \in [Shells -> Commands]
      /\ \A d \in Shells : Typed(command'[d])
      /\ command'[c] = next
      /\ \A d \in Shells \ {c} : command'[d] = command[d]
  BY <1>1, CommandChanges
<1>3. ServerTypes'
  BY <1>1, <1>2 DEF ServerTypes
<1>4. CASE muddled
  BY <1>3, <1>4 DEF ServerInv
<1>5. CASE ~muddled
  <2>1. \A d \in Shells \ {c} : command'[d].at = "prompt"
    BY <1>2, <1>5 DEF ServerInv, UnderWay
  <2>2. \A d, e \in Shells : UnderWay(d)' /\ UnderWay(e)' => d = e
    BY <2>1 DEF UnderWay
  <2>3. \A p \in Pids : process'[p] \in Servers => KnownBy(p)'
    BY <1>2, <1>5, <2>1 DEF KnownBy
  <2>4. QED
    BY <1>3, <2>2, <2>3 DEF ServerInv
<1>6. QED
  BY <1>4, <1>5

\* What Go makes of a command.
LEMMA GoneTo ==
  ASSUME ServerTypes, NEW c \in Shells, UnderWay(c), NEW step \in CommandSteps,
         step \in {"open", "write", "signal", "poll"} => command[c].pid \in Pids, Go(c, step)
  PROVE  \E next : /\ Typed(next) /\ command' = [command EXCEPT ![c] = next]
                   /\ next.at = step /\ next.pid = command[c].pid
<1> DEFINE next == [command[c] EXCEPT !.at = step]
<1>1. command[c] \in Commands /\ command[c].op # "none" /\ command \in [Shells -> Commands]
  BY DEF ServerTypes, Typed, UnderWay
<1>2. next \in Commands /\ next.at = step /\ next.pid = command[c].pid /\ next.op = command[c].op
  BY <1>1 DEF Commands, CommandSteps
<1>3. command' = [command EXCEPT ![c] = next]
  BY <1>1 DEF Go
<1> HIDE DEF next
<1>4. Typed(next)
  BY <1>1, <1>2 DEF Typed, CommandSteps
<1>5. QED
  BY <1>2, <1>3, <1>4

\* A server that runs while the command of c is the only one, and where it is.
LEMMA ServerMet ==
  ASSUME ServerInv, NEW c \in Shells, UnderWay(c), ~muddled, NEW p \in Pids, process[p] \in Servers
  PROVE  /\ command[c].at \notin {"spawn", "unlink"}
         /\ command[c].at \in {"probe", "open", "write", "signal", "poll"} => command[c].pid = p
         /\ command[c].at \notin {"open", "write"} => pidFile = p
         /\ Alive(p)
<1>1. KnownBy(p) /\ \A d \in Shells : UnderWay(d) => d = c
  BY DEF ServerInv
<1>2. Alive(p)
  BY ServerAssumption DEF Alive, Servers
<1>3. QED
  BY <1>1, <1>2 DEF KnownBy, UnderWay

LEMMA EnterServer ==
  ASSUME ServerInv, NEW c \in Shells, NEW op \in {"start", "stop", "status"}, Enter(c, op)
  PROVE  ServerInv'
<1> DEFINE next == [AtPrompt EXCEPT !.op = op, !.at = "read"]
<1>1. /\ command[c] = AtPrompt /\ command' = [command EXCEPT ![c] = next]
      /\ UNCHANGED <<process, portTaken, pidFile>> /\ ServerTypes
  BY DEF Enter, ServerInv
<1>2. /\ muddled' \in BOOLEAN
      /\ ~muddled' => \A d \in Shells \ {c} : command[d] = AtPrompt
      /\ ~muddled' => \A p \in Pids : process[p] \in Servers => ~muddled
  BY DEF Enter, ServerInv, ServerTypes
<1>3. Typed(next) /\ next.at = "read"
  <2>1. AtPrompt \in Commands
    BY PromptTyped DEF Typed
  <2>2. next \in Commands /\ next.at = "read" /\ next.op # "none"
    BY <2>1 DEF Commands
  <2>3. QED
    BY <2>2 DEF Typed
<1> HIDE DEF next
<1>4. /\ command' \in [Shells -> Commands]
      /\ \A d \in Shells : Typed(command'[d])
      /\ command'[c] = next
      /\ \A d \in Shells \ {c} : command'[d] = command[d]
  BY <1>1, <1>3, CommandChanges
<1>5. ServerTypes'
  BY <1>1, <1>2, <1>4 DEF ServerTypes
<1>6. ~muddled' => \A d \in Shells \ {c} : command'[d].at = "prompt"
  BY <1>2, <1>4, PromptTyped
<1>7. ASSUME ~muddled', NEW p \in Pids, process'[p] \in Servers
      PROVE  KnownBy(p)'
  <2>1. KnownBy(p)
    BY <1>1, <1>2, <1>7 DEF ServerInv
  <2>2. \A d \in Shells : command[d].at = "prompt"
    BY <1>1, <1>2, <1>7, PromptTyped
  <2>3. pidFile = p
    BY <2>1, <2>2 DEF KnownBy
  <2>4. QED
    BY <1>1, <1>3, <1>4, <1>6, <1>7, <2>3 DEF KnownBy
<1>8. ~muddled' => \A d, e \in Shells : UnderWay(d)' /\ UnderWay(e)' => d = e
  BY <1>6 DEF UnderWay
<1>9. QED
  BY <1>5, <1>7, <1>8 DEF ServerInv

LEMMA AbortServer ==
  ASSUME ServerInv, NEW c \in Shells, Abort(c)
  PROVE  ServerInv'
<1>1. /\ command' = [command EXCEPT ![c] = AtPrompt] /\ muddled' = TRUE /\ UNCHANGED <<process, portTaken>>
      /\ ServerTypes
  BY DEF Abort, Ends, ServerInv
<1>2. command' \in [Shells -> Commands] /\ \A d \in Shells : Typed(command'[d])
  BY <1>1, PromptTyped, CommandChanges
<1>3. ServerTypes'
  BY <1>1, <1>2 DEF ServerTypes
<1>4. QED
  BY <1>1, <1>3 DEF ServerInv

LEMMA ReadStateServer ==
  ASSUME ServerInv, NEW c \in Shells, ReadState(c)
  PROVE  ServerInv'
<1> DEFINE found == IF pidFile \in Pids THEN pidFile ELSE NoPid
           next == [command[c] EXCEPT !.at = "probe", !.pid = found]
<1>1. /\ UnderWay(c) /\ command[c].at = "read" /\ UNCHANGED <<process, portTaken, pidFile, muddled>>
      /\ command \in [Shells -> Commands] /\ command[c] \in Commands /\ command[c].op # "none"
      /\ process \in [Pids -> Servers \cup {"none", "another"}]
  BY DEF ReadState, UnderWay, ServerInv, ServerTypes, Typed
<1>2. next \in Commands /\ next.at = "probe" /\ next.pid = found /\ next.op = command[c].op
  BY <1>1 DEF Commands
<1>3. command' = [command EXCEPT ![c] = next]
  BY <1>1 DEF ReadState
<1>4. ASSUME ~muddled, NEW p \in Pids, process[p] \in Servers
      PROVE  pidFile = p /\ found = p
  BY <1>1, <1>4, ServerMet
<1> HIDE DEF next, found
<1>5. Typed(next)
  BY <1>1, <1>2 DEF Typed
<1>6. QED
  BY <1>1, <1>2, <1>3, <1>4, <1>5, StepAlone

LEMMA EndsServer ==
  ASSUME ServerInv, NEW c \in Shells, UnderWay(c), Ends(c), UNCHANGED <<portTaken, muddled>>,
         process' \in [Pids -> Servers \cup {"none", "another"}],
         ~muddled => \A p \in Pids : process'[p] \in Servers => pidFile' = p
  PROVE  ServerInv'
<1>1. command' = [command EXCEPT ![c] = AtPrompt]
  BY DEF Ends
<1>2. QED
  BY <1>1, PromptTyped, StepAlone

LEMMA GoServer ==
  ASSUME ServerInv, NEW c \in Shells, UnderWay(c), NEW step \in CommandSteps, Go(c, step),
         step \in {"open", "write", "signal", "poll"} => command[c].pid \in Pids,
         UNCHANGED <<portTaken, muddled>>,
         process' \in [Pids -> Servers \cup {"none", "another"}],
         ~muddled => \A p \in Pids : process'[p] \in Servers =>
           /\ step \notin {"spawn", "unlink"}
           /\ step \in {"probe", "open", "write", "signal", "poll"} => command[c].pid = p
           /\ step \notin {"open", "write"} => pidFile' = p
  PROVE  ServerInv'
<1>1. ServerTypes
  BY DEF ServerInv
<1>2. PICK next : /\ Typed(next) /\ command' = [command EXCEPT ![c] = next]
                  /\ next.at = step /\ next.pid = command[c].pid
  BY <1>1, GoneTo
<1>3. QED
  BY <1>2, StepAlone

LEMMA ProbeServer ==
  ASSUME ServerInv, NEW c \in Shells, Probe(c)
  PROVE  ServerInv'
<1>1. /\ UnderWay(c) /\ command[c].at = "probe" /\ UNCHANGED <<process, portTaken, pidFile, muddled>>
      /\ process \in [Pids -> Servers \cup {"none", "another"}]
      /\ command[c].op \in {"start", "stop", "status"}
  BY DEF Probe, UnderWay, ServerInv, ServerTypes, Typed, Commands
<1>2. ASSUME ~muddled, NEW p \in Pids, process[p] \in Servers
      PROVE  command[c].pid = p /\ pidFile = p /\ Alive(command[c].pid)
  BY <1>1, <1>2, ServerMet
<1>3. CASE Ends(c)
  BY <1>1, <1>2, <1>3, EndsServer
<1>4. CASE Go(c, "spawn") /\ ~Alive(command[c].pid)
  BY <1>1, <1>2, <1>4, GoServer DEF CommandSteps
<1>5. CASE Go(c, "unlink") /\ ~Alive(command[c].pid)
  BY <1>1, <1>2, <1>5, GoServer DEF CommandSteps
<1>6. CASE Go(c, "signal") /\ Alive(command[c].pid)
  <2>1. command[c].pid \in Pids
    BY <1>6 DEF ServerInv, ServerTypes, Typed, Commands, Alive
  <2>2. QED
    BY <1>1, <1>2, <1>6, <2>1, GoServer DEF CommandSteps
<1>7. QED
  BY <1>1, <1>3, <1>4, <1>5, <1>6 DEF Probe, RefusesToStart

LEMMA SpawnServer ==
  ASSUME ServerInv, NEW c \in Shells, NEW p \in Pids, Spawn(c, p)
  PROVE  ServerInv'
<1> DEFINE next == [command[c] EXCEPT !.at = "open", !.pid = p]
<1>1. /\ UnderWay(c) /\ command[c].at = "spawn" /\ UNCHANGED <<portTaken, pidFile, muddled>>
      /\ command \in [Shells -> Commands] /\ command[c] \in Commands /\ command[c].op # "none"
      /\ process \in [Pids -> Servers \cup {"none", "another"}]
      /\ process' = [process EXCEPT ![p] = "starting"]
  BY DEF Spawn, UnderWay, ServerInv, ServerTypes, Typed
<1>2. next \in Commands /\ next.at = "open" /\ next.pid = p /\ next.op = command[c].op
  BY <1>1 DEF Commands
<1>3. command' = [command EXCEPT ![c] = next]
  BY <1>1 DEF Spawn
<1>4. ~muddled => \A q \in Pids : process[q] \notin Servers
  BY <1>1, ServerMet
<1> HIDE DEF next
<1>5. Typed(next)
  BY <1>1, <1>2 DEF Typed
<1>6. process' \in [Pids -> Servers \cup {"none", "another"}]
  BY <1>1 DEF Servers
<1>7. ~muddled => \A q \in Pids : process'[q] \in Servers => q = p
  BY <1>1, <1>4
<1>8. QED
  BY <1>1, <1>2, <1>3, <1>5, <1>6, <1>7, StepAlone

LEMMA SpawnFailsServer ==
  ASSUME ServerInv, NEW c \in Shells, SpawnFails(c)
  PROVE  ServerInv'
<1>1. /\ UnderWay(c) /\ command[c].at = "spawn" /\ UNCHANGED <<process, portTaken, pidFile, muddled>>
      /\ Ends(c) /\ process \in [Pids -> Servers \cup {"none", "another"}]
  BY DEF SpawnFails, UnderWay, ServerInv, ServerTypes
<1>2. ~muddled => \A q \in Pids : process[q] \notin Servers
  BY <1>1, ServerMet
<1>3. QED
  BY <1>1, <1>2, EndsServer

LEMMA OpenFileServer ==
  ASSUME ServerInv, NEW c \in Shells, OpenFile(c)
  PROVE  ServerInv'
<1>1. /\ UnderWay(c) /\ command[c].at = "open" /\ UNCHANGED <<process, portTaken, muddled>>
      /\ Go(c, "write") /\ process \in [Pids -> Servers \cup {"none", "another"}]
      /\ command[c].pid \in Pids
  BY DEF OpenFile, UnderWay, ServerInv, ServerTypes, Typed
<1>2. ~muddled => \A q \in Pids : process[q] \in Servers => command[c].pid = q
  BY <1>1, ServerMet
<1>3. QED
  BY <1>1, <1>2, GoServer DEF CommandSteps

LEMMA WriteFileServer ==
  ASSUME ServerInv, NEW c \in Shells, WriteFile(c)
  PROVE  ServerInv'
<1>1. /\ UnderWay(c) /\ command[c].at = "write" /\ UNCHANGED <<process, portTaken, muddled>>
      /\ Ends(c) /\ process \in [Pids -> Servers \cup {"none", "another"}]
      /\ pidFile' = command[c].pid
  BY DEF WriteFile, UnderWay, ServerInv, ServerTypes
<1>2. ~muddled => \A q \in Pids : process[q] \in Servers => command[c].pid = q
  BY <1>1, ServerMet
<1>3. QED
  BY <1>1, <1>2, EndsServer

LEMMA TerminateServer ==
  ASSUME ServerInv, NEW c \in Shells, Terminate(c)
  PROVE  ServerInv'
<1>1. /\ UnderWay(c) /\ command[c].at = "signal" /\ UNCHANGED <<portTaken, pidFile, muddled>>
      /\ process \in [Pids -> Servers \cup {"none", "another"}]
      /\ command[c].pid \in Pids
  BY DEF Terminate, UnderWay, ServerInv, ServerTypes, Typed
<1>2. ~muddled => \A q \in Pids : process[q] \in Servers => command[c].pid = q /\ pidFile = q
  BY <1>1, ServerMet
<1>3. CASE ~Alive(command[c].pid)
  BY <1>1, <1>2, <1>3, EndsServer DEF Terminate
<1>4. CASE Alive(command[c].pid)
  <2>1. process' = Signalled(command[c].pid) /\ Go(c, "poll")
    BY <1>4 DEF Terminate
  <2>2. /\ process' \in [Pids -> Servers \cup {"none", "another"}]
        /\ \A q \in Pids : process'[q] \in Servers => process[q] \in Servers
    BY <1>1, <2>1 DEF Signalled, Servers
  <2>3. QED
    BY <1>1, <1>2, <2>1, <2>2, GoServer DEF CommandSteps
<1>5. QED
  BY <1>3, <1>4

LEMMA PollServer ==
  ASSUME ServerInv, NEW c \in Shells, Poll(c)
  PROVE  ServerInv'
<1>1. /\ UnderWay(c) /\ command[c].at = "poll" /\ UNCHANGED <<process, portTaken, pidFile, muddled>>
      /\ process \in [Pids -> Servers \cup {"none", "another"}]
      /\ command[c].pid \in Pids /\ command[c].polls < MaxPolls
      /\ command \in [Shells -> Commands] /\ command[c] \in Commands /\ command[c].op # "none"
  BY DEF Poll, UnderWay, ServerInv, ServerTypes, Typed
<1>2. ~muddled => \A q \in Pids : process[q] \in Servers =>
                    command[c].pid = q /\ pidFile = q /\ Alive(command[c].pid)
  BY <1>1, ServerMet
<1>3. CASE ~Alive(command[c].pid)
  <2>1. Go(c, "unlink")
    BY <1>3 DEF Poll, Go
  <2>2. QED
    BY <1>1, <1>2, <1>3, <2>1, GoServer DEF CommandSteps
<1>4. CASE Alive(command[c].pid)
  <2> DEFINE next == [command[c] EXCEPT !.polls = PollsCounted(c)]
  <2>1. PollsCounted(c) \in 0 .. MaxPolls
    BY <1>1, ServerAssumption DEF PollsCounted, Commands
  <2>2. next \in Commands /\ next.at = "poll" /\ next.pid = command[c].pid /\ next.op = command[c].op
    BY <1>1, <2>1 DEF Commands
  <2>3. command' = [command EXCEPT ![c] = next]
    BY <1>1, <1>4 DEF Poll
  <2> HIDE DEF next
  <2>4. Typed(next)
    BY <1>1, <2>2 DEF Typed
  <2>5. QED
    BY <1>1, <1>2, <2>2, <2>3, <2>4, StepAlone
<1>5. QED
  BY <1>3, <1>4

LEMMA Kill9Server ==
  ASSUME ServerInv, NEW c \in Shells, Kill9(c)
  PROVE  ServerInv'
<1>1. /\ UnderWay(c) /\ command[c].at = "poll" /\ UNCHANGED <<portTaken, pidFile, muddled>>
      /\ process \in [Pids -> Servers \cup {"none", "another"}]
      /\ command[c].pid \in Pids /\ Go(c, "unlink")
      /\ process' = [process EXCEPT ![command[c].pid] = "none"]
  BY DEF Kill9, SendKill, UnderWay, ServerInv, ServerTypes, Typed
<1>2. ~muddled => \A q \in Pids : process[q] \in Servers => command[c].pid = q
  BY <1>1, ServerMet
<1>3. /\ process' \in [Pids -> Servers \cup {"none", "another"}]
      /\ ~muddled => \A q \in Pids : process'[q] \notin Servers
  BY <1>1, <1>2 DEF Servers
<1>4. QED
  BY <1>1, <1>3, GoServer DEF CommandSteps

LEMMA UnlinkServer ==
  ASSUME ServerInv, NEW c \in Shells, Unlink(c)
  PROVE  ServerInv'
<1>1. /\ UnderWay(c) /\ command[c].at = "unlink" /\ UNCHANGED <<process, portTaken, muddled>>
      /\ Ends(c) /\ process \in [Pids -> Servers \cup {"none", "another"}]
  BY DEF Unlink, UnderWay, ServerInv, ServerTypes
<1>2. ~muddled => \A q \in Pids : process[q] \notin Servers
  BY <1>1, ServerMet
<1>3. QED
  BY <1>1, <1>2, EndsServer

LEMMA BindServer ==
  ASSUME ServerInv, NEW p \in Pids, Bind(p) \/ ProcessEnds(p) \/ Reuse(p)
  PROVE  ServerInv'
<1>1. process \in [Pids -> Servers \cup {"none", "another"}] /\ portTaken \in BOOLEAN
  BY DEF ServerInv, ServerTypes
<1>2. /\ UNCHANGED <<portTaken, pidFile, command, muddled>>
      /\ process' \in [Pids -> Servers \cup {"none", "another"}]
      /\ \A q \in Pids : process'[q] \in Servers => process[q] \in Servers
  BY <1>1 DEF Bind, ProcessEnds, Reuse, Servers
<1>3. QED
  BY <1>1, <1>2, ProcessStep

LEMMA NextServer == ServerInv /\ [ServerNext]_serverVars => ServerInv'
<1> SUFFICES ASSUME ServerInv, [ServerNext]_serverVars PROVE ServerInv'
  OBVIOUS
<1>1. ASSUME NEW c \in Shells, NEW op \in {"start", "stop", "status"}, Enter(c, op)
      PROVE  ServerInv'
  BY <1>1, EnterServer
<1>2. ASSUME NEW c \in Shells, CommandStep(c)
      PROVE  ServerInv'
  BY <1>2, ReadStateServer, ProbeServer, SpawnServer, SpawnFailsServer, OpenFileServer,
     WriteFileServer, TerminateServer, PollServer, Kill9Server, UnlinkServer DEF CommandStep
<1>3. ASSUME NEW c \in Shells, Abort(c)
      PROVE  ServerInv'
  BY <1>3, AbortServer
<1>4. ASSUME NEW p \in Pids, Bind(p) \/ ProcessEnds(p) \/ Reuse(p)
      PROVE  ServerInv'
  BY <1>4, BindServer
<1>5. CASE PortChanges
  <2>1. /\ process \in [Pids -> Servers \cup {"none", "another"}]
        /\ UNCHANGED <<process, pidFile, command, muddled>> /\ portTaken' \in BOOLEAN
    BY <1>5 DEF PortChanges, ServerInv, ServerTypes
  <2>2. QED
    BY <2>1, ProcessStep
<1>6. CASE UNCHANGED serverVars
  <2>1. /\ process \in [Pids -> Servers \cup {"none", "another"}] /\ portTaken \in BOOLEAN
        /\ UNCHANGED <<process, portTaken, pidFile, command, muddled>>
    BY <1>6 DEF serverVars, ServerInv, ServerTypes
  <2>2. QED
    BY <2>1, ProcessStep
<1>7. QED
  BY <1>1, <1>2, <1>3, <1>4, <1>5, <1>6 DEF ServerNext

\* The states of the background service and of its commands keep ServerInv.
THEOREM ServerInvariant == ServerSpec => []ServerInv
<1>1. QED
  BY InitServer, NextServer, PTL DEF ServerSpec

\* Unless commands were under way at once or one was killed, a server that runs
\* is the one in server.json, or the one that `start` is about to write there,
\* and there is no other (server_start, server_stop, server_status).
THEOREM RecordedServer == ServerSpec => []ServerIsRecorded
<1>1. ServerInv => ServerIsRecorded
  BY DEF ServerInv, KnownBy, ServerIsRecorded
<1>2. QED
  BY <1>1, ServerInvariant, PTL

\* `stop` removes server.json only when the server it has found there has ended,
\* however often it polls, unless two commands overlapped or one was killed
\* (server_stop).
THEOREM StoppedServer == ServerSpec => StopStops
<1>1. ASSUME ServerInv, NEW c \in Shells, At(c, "stop", "unlink"), command[c].pid # NoPid, ~muddled
      PROVE  process[command[c].pid] \notin Servers
  <2>1. UnderWay(c) /\ command[c].at = "unlink" /\ command[c].pid \in Pids
    BY <1>1 DEF At, UnderWay, ServerInv, ServerTypes, Typed, Commands
  <2>2. QED
    BY <1>1, <2>1, ServerMet
<1>2. ServerInv => [\A c \in Shells :
        At(c, "stop", "unlink") /\ command[c].pid # NoPid /\ command'[c] = AtPrompt /\ ~muddled =>
          process[command[c].pid] \notin Servers]_serverVars
  BY <1>1
<1>3. QED
  BY <1>2, ServerInvariant, PTL DEF StopStops
==============================================================================
