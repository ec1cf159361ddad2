---------------------------- MODULE RulesUpdater ----------------------------
(***************************************************************************)
(* rostran/core/rules_updater.py: `rostran rules update` and `rostran      *)
(* rules reset`, the rules cache ~/.rostran/rules and rules_meta.json.     *)
(*                                                                         *)
(* One command runs at a time.  It may be killed, and a disk error may end *)
(* it, between any two steps; the remote repository publishes new versions *)
(* at any time.  The cache is one directory per rule classifier, which     *)
(* copytree and rmtree fill and empty file by file: torn means some of its *)
(* files are missing.  A version stands for the rules published under it.  *)
(***************************************************************************)
EXTENDS Naturals

CONSTANTS
  Classifiers,  \* the subdirectories of the rules: RuleClassifier
  MaxVersion,   \* bound on the versions the remote publishes
  MaxRetries    \* _HTTP_TIMEOUT_RETRIES

ASSUME UpdaterAssumption ==
  /\ MaxVersion \in Nat \ {0}
  /\ MaxRetries \in Nat

VARIABLES
  pc,         \* the next step of the running command
  asked,      \* the version asked for, 0 for the latest
  forced,     \* --force
  attempt,    \* timeouts of the current HTTP request
  target,     \* target_version
  tmp,        \* the version extracted into the temporary directory
  answer,     \* how the last command ended
  latest,     \* the remote's latest version
  dirExists,  \* whether ~/.rostran/rules exists
  content,    \* the version each classifier's directory comes from, 0: none
  torn,       \* the classifiers some of whose files are missing
  meta,       \* the version rules_meta.json names, 0: none or unreadable
  disturbed   \* a command ended while it was changing the cache, and none
              \* has completed a change since

commandVars == <<asked, forced, attempt, target, tmp>>
cacheVars   == <<dirExists, content, torn, meta>>
vars == <<pc, commandVars, answer, latest, cacheVars, disturbed>>

Versions == 1 .. MaxVersion
NetworkSteps == {"versions", "archive"}
ChangingSteps == {"remove", "copy", "openMeta", "writeMeta", "resetRemove", "resetMeta"}
Steps == {"idle", "check"} \cup NetworkSteps \cup ChangingSteps
AnswersGiven == {"none", "updated", "upToDate", "reset", "failed", "error"}

Init ==
  /\ pc = "idle"
  /\ asked = 0
  /\ forced = FALSE
  /\ attempt = 0
  /\ target = 0
  /\ tmp = 0
  /\ answer = "none"
  /\ latest = 1
  /\ dirExists = FALSE
  /\ content = [c \in Classifiers |-> 0]
  /\ torn = {}
  /\ meta = 0
  /\ disturbed = FALSE

-----------------------------------------------------------------------------
Goto(step) == pc' = step /\ UNCHANGED answer

End(a) ==
  /\ pc' = "idle"
  /\ answer' = a
  /\ UNCHANGED commandVars

\* The user starts an update, of the latest version or of v.
Update(v, f) ==
  /\ pc = "idle"
  /\ pc' = "versions"
  /\ asked' = v
  /\ forced' = f
  /\ attempt' = 0
  /\ target' = 0
  /\ tmp' = 0
  /\ answer' = "none"
  /\ UNCHANGED <<latest, cacheVars, disturbed>>

Reset ==
  /\ pc = "idle"
  /\ pc' = IF dirExists THEN "resetRemove" ELSE "resetMeta"
  /\ answer' = "none"
  /\ UNCHANGED <<commandVars, latest, cacheVars, disturbed>>

-----------------------------------------------------------------------------
\* Slip: the last retry starts the count anew.
RetryForever ==
  /\ pc \in NetworkSteps
  /\ attempt' = IF attempt < MaxRetries THEN attempt + 1 ELSE 0
  /\ UNCHANGED <<pc, answer, asked, forced, target, tmp, latest, cacheVars, disturbed>>

\* _http_get: a timeout is retried, at most MaxRetries times.
TimeOut ==
  /\ pc \in NetworkSteps
  /\ IF attempt < MaxRetries
       THEN attempt' = attempt + 1 /\ UNCHANGED <<pc, answer, asked, forced, target, tmp>>
       ELSE End("failed")
  /\ UNCHANGED <<latest, cacheVars, disturbed>>

\* Any other error, an unreadable answer or a broken archive is not.
NetworkError ==
  /\ pc \in NetworkSteps
  /\ End("failed")
  /\ UNCHANGED <<latest, cacheVars, disturbed>>

\* VERSIONS.json: the latest version, or the commit of the one asked for.
FetchVersions ==
  /\ pc = "versions"
  /\ IF asked > latest
       THEN End("failed")
       ELSE /\ Goto("check")
            /\ target' = IF asked = 0 THEN latest ELSE asked
            /\ attempt' = 0
            /\ UNCHANGED <<asked, forced, tmp>>
  /\ UNCHANGED <<latest, cacheVars, disturbed>>

CheckLocal ==
  /\ pc = "check"
  /\ IF ~forced /\ meta = target
       THEN End("upToDate")
       ELSE Goto("archive") /\ UNCHANGED commandVars
  /\ UNCHANGED <<latest, cacheVars, disturbed>>

\* The archive of the main branch has what is the latest version by now, the
\* archive of a commit the version it was looked up for.
Download ==
  /\ pc = "archive"
  /\ tmp' = IF asked = 0 THEN latest ELSE target
  /\ Goto(IF dirExists THEN "remove" ELSE "copy")
  /\ UNCHANGED <<asked, forced, attempt, target, latest, cacheVars, disturbed>>

-----------------------------------------------------------------------------
\* Slip: the old rules are not removed first.
KeepOld ==
  /\ pc \in {"remove", "resetRemove"}
  /\ Goto(IF pc = "remove" THEN "copy" ELSE "resetMeta")
  /\ UNCHANGED <<commandVars, latest, cacheVars, disturbed>>

\* rmtree of the cache, file by file.
RemoveRules ==
  /\ pc \in {"remove", "resetRemove"}
  /\ \/ \E c \in Classifiers \ torn :
          /\ content[c] # 0
          /\ torn' = torn \cup {c}
          /\ UNCHANGED <<pc, answer, dirExists, content>>
     \/ \E c \in torn :
          /\ torn' = torn \ {c}
          /\ content' = [content EXCEPT ![c] = 0]
          /\ UNCHANGED <<pc, answer, dirExists>>
     \/ /\ \A c \in Classifiers : content[c] = 0
        /\ dirExists' = FALSE
        /\ Goto(IF pc = "remove" THEN "copy" ELSE "resetMeta")
        /\ UNCHANGED <<content, torn>>
  /\ UNCHANGED <<commandVars, latest, meta, disturbed>>

\* copytree of the extracted rules, one directory after the other.
CopyRules ==
  /\ pc = "copy"
  /\ dirExists' = TRUE
  /\ \/ \E c \in Classifiers :
          /\ content[c] = 0 /\ torn = {}
          /\ content' = [content EXCEPT ![c] = tmp]
          /\ torn' = {c}
          /\ UNCHANGED <<pc, answer>>
     \/ /\ torn # {}
        /\ torn' = {}
        /\ UNCHANGED <<pc, answer, content>>
     \/ /\ torn = {} /\ \A c \in Classifiers : content[c] # 0
        /\ Goto("openMeta")
        /\ UNCHANGED <<content, torn>>
  /\ UNCHANGED <<commandVars, latest, meta, disturbed>>

\* _write_meta: opening rules_meta.json for writing truncates it.
OpenMeta ==
  /\ pc = "openMeta"
  /\ meta' = 0
  /\ Goto("writeMeta")
  /\ UNCHANGED <<commandVars, latest, dirExists, content, torn, disturbed>>

\* Slip: the version looked up is recorded, not the one downloaded.
WriteTargetVersion ==
  /\ pc = "writeMeta"
  /\ meta' = target
  /\ disturbed' = FALSE
  /\ End("updated")
  /\ UNCHANGED <<latest, dirExists, content, torn>>

WriteMeta ==
  /\ pc = "writeMeta"
  /\ meta' = tmp
  /\ disturbed' = FALSE
  /\ End("updated")
  /\ UNCHANGED <<latest, dirExists, content, torn>>

ResetMeta ==
  /\ pc = "resetMeta"
  /\ meta' = 0
  /\ disturbed' = FALSE
  /\ End("reset")
  /\ UNCHANGED <<latest, dirExists, content, torn>>

-----------------------------------------------------------------------------
\* An OSError while the cache is changed ends the command with a traceback.
DiskError ==
  /\ pc \in ChangingSteps
  /\ End("error")
  /\ disturbed' = TRUE
  /\ UNCHANGED <<latest, cacheVars>>

\* The user interrupts the command, or the machine goes down.
Kill ==
  /\ pc # "idle"
  /\ End("none")
  /\ disturbed' = (disturbed \/ pc \in ChangingSteps)
  /\ UNCHANGED <<latest, cacheVars>>

Publish ==
  /\ latest < MaxVersion
  /\ latest' = latest + 1
  /\ UNCHANGED <<pc, commandVars, answer, cacheVars, disturbed>>

Network == TimeOut \/ NetworkError \/ FetchVersions \/ Download

Change == RemoveRules \/ CopyRules \/ OpenMeta \/ WriteMeta \/ ResetMeta

Progress == Network \/ CheckLocal \/ Change

Start == Reset \/ \E v \in 0 .. MaxVersion, f \in BOOLEAN : Update(v, f)

Next == Start \/ Progress \/ DiskError \/ Kill \/ Publish

Spec == Init /\ [][Next]_vars

\* A command that is not interrupted goes on: every HTTP attempt has a timeout.
FairSpec == Spec /\ WF_vars(Progress)

-----------------------------------------------------------------------------
CommandTypes ==
  /\ pc \in Steps
  /\ asked \in 0 .. MaxVersion
  /\ forced \in BOOLEAN
  /\ attempt \in 0 .. MaxRetries
  /\ target \in 0 .. MaxVersion
  /\ tmp \in 0 .. MaxVersion
  /\ answer \in AnswersGiven

CacheTypes ==
  /\ latest \in Versions
  /\ dirExists \in BOOLEAN
  /\ content \in [Classifiers -> 0 .. MaxVersion]
  /\ torn \subseteq Classifiers
  /\ meta \in 0 .. MaxVersion
  /\ disturbed \in BOOLEAN

\* A request is retried MaxRetries times at most; no version is unpublished.
TypeOK == CommandTypes /\ CacheTypes

Installed(v) == torn = {} /\ \A c \in Classifiers : content[c] = v

\* The version _show_rules_version names as the active one, 0: the built-in.
Shown == IF dirExists /\ meta # 0 THEN meta ELSE 0

\* The version RuleManager loads for each classifier is the one shown, and
\* all of it, unless a command ended while it changed the cache: and then an
\* update that installs, or a reset, makes it so again.
ShownIsActive == pc = "idle" /\ ~disturbed => Installed(Shown)

\* The rules an update says it has installed are there, although the remote
\* may publish a version between its two downloads.
UpdatedIsInstalled == answer = "updated" => Installed(meta) /\ meta \in Versions

\* Rules said to be up-to-date are there, all of them.
UpToDateIsInstalled == answer = "upToDate" => Installed(target)

\* They are if no command has ended while it changed the cache.
UpToDateUnlessDisturbed == ~disturbed => UpToDateIsInstalled

\* What an update says, of either kind, is so (update_rules).
AnswerIsInstalled == UpdatedIsInstalled /\ UpToDateUnlessDisturbed

\* However often requests time out, a command ends.
EveryCommandEnds == pc # "idle" ~> pc = "idle"
=============================================================================
