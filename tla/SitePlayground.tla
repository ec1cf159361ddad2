---------------------------- MODULE SitePlayground ----------------------------
(***************************************************************************)
(* The playground of the documentation website, Playground in              *)
(* website/src/components/Playground/index.tsx: rostran/wasm.py in Pyodide,*)
(* loaded into the document when a conversion is first asked for.  A       *)
(* handler is one action up to where it awaits, and one for the rest.      *)
(*                                                                         *)
(* A component is one mounting of Playground: it goes when the visitor     *)
(* follows a link to another page, and what it had begun goes on.          *)
(* Templates are abstracted to a few texts, and which example is selected  *)
(* is left out.                                                            *)
(***************************************************************************)
EXTENDS Naturals, FiniteSets

CONSTANTS
  Components,  \* the mountings of Playground
  Jobs,        \* the calls of run that may be under way
  Formats,     \* the source formats
  TargetKinds, \* the target formats
  Texts,       \* the templates that are not blank; an example is one
  Convertible, \* those that Python converts or formats
  None         \* no component, no template

Blank == "blank"

ASSUME SiteAssumption ==
  /\ None \notin Components /\ Blank \notin Texts
  /\ "cloudformation" \in Formats /\ "auto" \in TargetKinds
  /\ "example" \in Texts /\ Convertible \subseteq Texts

Idle == [at |-> "idle", in |-> None, asked |-> None, reply |-> None]

\* A page without a result, and the form a component begins with.
Cleared == [result |-> None, status |-> "idle"]

\* CF_SAMPLE or ROS_SAMPLE, as the source format is.
Sample == "example"

FirstForm == [source |-> "cloudformation", target |-> "auto", text |-> Sample]

VARIABLES
  script,     \* the promise in scriptLoads for pyodide.js
  mounted,    \* the component on the page
  runtime,    \* how far the promise in runtimeRef of each is
  payload,    \* payload_json among the globals of each runtime
  job,        \* the calls of run
  form,       \* the formats selected, and the editor
  shown,      \* result, and the kind of status
  disturbed,  \* history: a choice was made while a job was under way
  loads       \* history: how often each component has called loadRuntime

siteVars ==
  <<script, mounted, runtime, payload, job, form, shown, disturbed, loads>>

SiteInit ==
  /\ script = "none"
  /\ mounted = None
  /\ runtime = [m \in Components |-> "none"]
  /\ payload = [m \in Components |-> None]
  /\ job = [j \in Jobs |-> Idle]
  /\ form = FirstForm /\ shown = Cleared
  /\ disturbed = FALSE
  /\ loads = [m \in Components |-> 0]

UnderWay(m) == {j \in Jobs : job[j].in = m}

\* Slip: what is loading is not busy.
BusyRunning == shown.status = "running"

Busy == shown.status \in {"loading", "running"}

----------------------------------------------------------------------------
\* The form.  All but editing ends in resetIO.
Choose(f) ==
  /\ mounted # None
  /\ form' = f
  /\ shown' = Cleared
  /\ disturbed' = (disturbed \/ UnderWay(mounted) # {})
  /\ UNCHANGED <<script, mounted, runtime, payload, job, loads>>

\* onSourceChange, and loadExample.
SelectSource(s) == Choose([FirstForm EXCEPT !.source = s])

SelectTarget(t) == Choose([form EXCEPT !.target = t])

\* onUpload, when the text of the file is there.
UploadRead(text) == Choose([form EXCEPT !.text = text])

Edit(text) ==
  /\ mounted # None
  /\ form' = [form EXCEPT !.text = text]
  /\ UNCHANGED <<script, mounted, runtime, payload, job, shown, disturbed, loads>>

CloseError ==
  /\ mounted # None /\ shown.result # None
  /\ ~shown.result.ok
  /\ shown' = [shown EXCEPT !.result = None]
  /\ UNCHANGED <<script, mounted, runtime, payload, job, form, disturbed, loads>>

----------------------------------------------------------------------------
\* run, up to where it awaits.
Failure(asked) == [asked |-> asked, of |-> None, ok |-> FALSE]

RunBlank ==
  /\ mounted # None /\ ~Busy
  /\ form.text = Blank
  /\ shown' = [shown EXCEPT !.result = Failure(form)]
  /\ UNCHANGED <<script, mounted, runtime, payload, job, form, disturbed, loads>>

\* !runtimeRef.current
NoneLoading == runtime[mounted] = "none"

Run(j) ==
  /\ mounted # None /\ ~Busy
  /\ form.text # Blank
  /\ job[j] = Idle
  /\ job' = [job EXCEPT ![j] = [at |-> "runtime", in |-> mounted, asked |-> form,
                                reply |-> None]]
  /\ shown' = [result |-> None, status |-> IF NoneLoading THEN "loading" ELSE "running"]
  /\ runtime' = IF NoneLoading THEN [runtime EXCEPT ![mounted] = "manifest"] ELSE runtime
  /\ loads' = IF NoneLoading THEN [loads EXCEPT ![mounted] = @ + 1] ELSE loads
  /\ disturbed' = (disturbed /\ UnderWay(mounted) # {})
  /\ UNCHANGED <<script, mounted, payload, form>>

----------------------------------------------------------------------------
\* loadRuntime.  Each step of it may fail, and the promise stays rejected.
Loading(m, from, to) ==
  /\ runtime[m] = from
  /\ runtime' = [runtime EXCEPT ![m] = to]
  /\ UNCHANGED <<mounted, payload, job, form, shown, disturbed, loads>>

LoadFails(m) ==
  /\ \E from \in {"manifest", "python"} : Loading(m, from, "failed")
  /\ UNCHANGED script

\* loadScript adds the script unless it has a promise for it.
ManifestRead(m) ==
  /\ Loading(m, "manifest", "script")
  /\ script' = IF script = "none" THEN "loading" ELSE script

\* script.onload, script.onerror
ScriptEnds(end) ==
  /\ script = "loading"
  /\ script' = end
  /\ UNCHANGED <<mounted, runtime, payload, job, form, shown, disturbed, loads>>

ScriptAwaited(m) ==
  /\ script \in {"loaded", "failed"}
  /\ Loading(m, "script", IF script = "loaded" THEN "python" ELSE "failed")
  /\ UNCHANGED script

\* loadPyodide, loadPackage, and the package unpacked.
PackageInstalled(m) ==
  /\ Loading(m, "python", "ready")
  /\ UNCHANGED script

LoadStep(m) == LoadFails(m) \/ ManifestRead(m) \/ ScriptAwaited(m) \/ PackageInstalled(m)

----------------------------------------------------------------------------
\* The rest of run.
\* Slip: what is thrown leaves the status as it was.
SettleResult(j, reply) ==
  /\ job' = [job EXCEPT ![j] = Idle]
  /\ shown' = IF job[j].in = mounted
                THEN [result |-> reply,
                      status |-> IF reply.ok THEN "ready"
                                 ELSE IF reply.of = None THEN shown.status ELSE "error"]
                ELSE shown

\* setResult and setStatus, of a component that may have gone.
Settle(j, reply) ==
  /\ job' = [job EXCEPT ![j] = Idle]
  /\ shown' = IF job[j].in = mounted
                THEN [result |-> reply, status |-> IF reply.ok THEN "ready" ELSE "error"]
                ELSE shown

RuntimeFailed(j) ==
  /\ job[j].at = "runtime" /\ runtime[job[j].in] = "failed"
  /\ Settle(j, Failure(job[j].asked))
  /\ UNCHANGED payload

\* globals.set, and runPythonAsync, which evaluates later.
CallPython(j) ==
  /\ job[j].at = "runtime" /\ runtime[job[j].in] = "ready"
  /\ payload' = [payload EXCEPT ![job[j].in] = job[j].asked]
  /\ job' = [job EXCEPT ![j].at = "python"]
  /\ UNCHANGED shown

\* handle: the reply is of what the operation makes of the template, or of the
\* error it ends with.
Handle(asked, given) ==
  [asked |-> asked, of |-> given, ok |-> given.text \in Convertible]

\* The name payload_json may be undefined.
Evaluate(j) ==
  LET given == payload[job[j].in]
      reply == IF given = None THEN Failure(job[j].asked)
               ELSE Handle(job[j].asked, given) IN
  /\ job[j].at = "python"
  /\ job' = [job EXCEPT ![j].at = "evaluated", ![j].reply = reply]
  /\ UNCHANGED <<payload, shown>>

\* finally: a name that is not there cannot be deleted.
Answered(j) ==
  LET m == job[j].in IN
  /\ job[j].at = "evaluated"
  /\ payload' = [payload EXCEPT ![m] = None]
  /\ Settle(j, IF payload[m] = None THEN Failure(job[j].asked) ELSE job[j].reply)

JobStep(j) ==
  /\ RuntimeFailed(j) \/ CallPython(j) \/ Evaluate(j) \/ Answered(j)
  /\ UNCHANGED <<script, mounted, runtime, form, disturbed, loads>>

----------------------------------------------------------------------------
\* The page is left for another, and comes back with a new component.
Unmount ==
  /\ mounted # None
  /\ mounted' = None
  /\ form' = FirstForm /\ shown' = Cleared
  /\ disturbed' = FALSE
  /\ UNCHANGED <<script, runtime, payload, job, loads>>

Mount(m) ==
  /\ mounted = None
  /\ UnderWay(m) = {}
  /\ mounted' = m
  /\ runtime' = [runtime EXCEPT ![m] = "none"]
  /\ payload' = [payload EXCEPT ![m] = None]
  /\ loads' = [loads EXCEPT ![m] = 0]
  /\ UNCHANGED <<script, job, form, shown, disturbed>>

ReloadDocument ==
  /\ script' = "none"
  /\ mounted' = None
  /\ runtime' = [m \in Components |-> "none"]
  /\ payload' = [m \in Components |-> None]
  /\ job' = [j \in Jobs |-> Idle]
  /\ form' = FirstForm /\ shown' = Cleared
  /\ disturbed' = FALSE
  /\ loads' = [m \in Components |-> 0]

VisitorActs ==
  \/ \E s \in Formats : SelectSource(s)
  \/ \E t \in TargetKinds : SelectTarget(t)
  \/ \E text \in Texts \cup {Blank} : UploadRead(text) \/ Edit(text)
  \/ CloseError
  \/ RunBlank
  \/ \E j \in Jobs : Run(j)
  \/ Unmount
  \/ \E m \in Components : Mount(m)
  \/ ReloadDocument

ScriptStep == ScriptEnds("loaded") \/ ScriptEnds("failed")

SiteNext ==
  \/ VisitorActs
  \/ ScriptStep
  \/ \E m \in Components : LoadStep(m)
  \/ \E j \in Jobs : JobStep(j)

\* Requests end, and the event loop goes on.
SiteFairness ==
  WF_siteVars(\/ ScriptStep
              \/ \E m \in Components : LoadStep(m)
              \/ \E j \in Jobs : JobStep(j))

SiteSpec == SiteInit /\ [][SiteNext]_siteVars /\ SiteFairness

----------------------------------------------------------------------------
Forms == [source : Formats, target : TargetKinds, text : Texts \cup {Blank}]

Replies == [asked : Forms, of : Forms \cup {None}, ok : BOOLEAN]

\* The variables hold values of their types, and a call under way has what its
\* next step needs.
SiteTypeOK ==
  /\ script \in {"none", "loading", "loaded", "failed"}
  /\ mounted \in Components \cup {None}
  /\ runtime \in [Components -> {"none", "manifest", "script", "python", "ready", "failed"}]
  /\ payload \in [Components -> Forms \cup {None}]
  /\ job \in [Jobs -> [at : {"idle", "runtime", "python", "evaluated"},
                       in : Components \cup {None},
                       asked : Forms \cup {None}, reply : Replies \cup {None}]]
  /\ \A j \in Jobs :
       /\ job[j].in = None => job[j].at = "idle"
       /\ job[j].at = "idle" => job[j].in = None
       /\ job[j].at # "idle" => job[j].asked \in Forms
       /\ job[j].at = "evaluated" => job[j].reply \in Replies
  /\ form \in Forms
  /\ shown \in [result : Replies \cup {None},
                status : {"idle", "loading", "running", "ready", "error"}]
  /\ disturbed \in BOOLEAN
  /\ loads \in [Components -> Nat]

\* What Python answered was of the payload of the call that shows it, and of
\* the formats selected: no other call has come between globals.set and the
\* evaluation.  Not so once a choice was made while a call was under way, which
\* ends `busy` before the call (runPython, run, resetIO).
AnswerIsOfItsPayload ==
  mounted # None /\ shown.result # None /\ ~disturbed =>
    LET r == shown.result IN
    /\ r.of \in {r.asked, None}
    /\ r.asked.source = form.source /\ r.asked.target = form.target

\* However many calls are under way, a component loads Pyodide once
\* (ensureRuntime, runtimeRef).
RuntimeLoadedOnce == \A m \in Components : loads[m] <= 1

\* The button does not go on spinning: a call ends, or the visitor ends `busy`
\* himself (run, loadRuntime, runPython).
BusyEnds == Busy ~> ~Busy
=============================================================================
