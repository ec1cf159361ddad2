----------------------------- MODULE PagesProofs -----------------------------
(***************************************************************************)
(* Theorems about the pages: SitePlayground, for any mountings and calls of*)
(* run, any formats and texts; LocaleRedirect, for any addresses, browsers *)
(* and words; SourcePane, for any files, examples and formats.             *)
(***************************************************************************)
EXTENDS SitePlayground, LocaleRedirect, SourcePane, WellFoundedInduction, TLAPS

\* A component has begun to load the runtime, or it has not.
LoadsCounted == \A m \in Components : loads[m] = IF runtime[m] = "none" THEN 0 ELSE 1

\* The call j, of the component on the page, has what it asked for all along.
KeepsItsPayload(j) ==
  /\ job[j].asked.source = form.source /\ job[j].asked.target = form.target
  /\ job[j].at = "python" => payload[mounted] = job[j].asked
  /\ job[j].at = "evaluated" =>
       /\ job[j].reply.of \in {job[j].asked, None}
       /\ job[j].reply.asked = job[j].asked

\* Until a choice disturbs it, a call keeps the page busy and is alone.
OneCall ==
  mounted # None /\ ~disturbed =>
    \A j \in UnderWay(mounted) :
      /\ Busy
      /\ KeepsItsPayload(j)
      /\ \A i \in UnderWay(mounted) : i = j

SiteInv ==
  /\ SiteTypeOK
  /\ LoadsCounted
  /\ OneCall
  /\ mounted = None => shown.result = None
  /\ AnswerIsOfItsPayload

----------------------------------------------------------------------------
(***************************************************************************)
(* Forms, and what is shown of them.                                       *)
(***************************************************************************)
LEMMA FormsAre ==
  /\ FirstForm \in Forms
  /\ \A s \in Formats : [FirstForm EXCEPT !.source = s] \in Forms
  /\ \A f \in Forms, t \in TargetKinds : [f EXCEPT !.target = t] \in Forms
  /\ \A f \in Forms, x \in Texts \cup {Blank} :
       /\ [f EXCEPT !.text = x] \in Forms
       /\ [f EXCEPT !.text = x].source = f.source
       /\ [f EXCEPT !.text = x].target = f.target
  BY SiteAssumption DEF Forms, FirstForm, Sample

LEMMA RepliesAre ==
  ASSUME NEW f \in Forms
  PROVE  /\ Failure(f) \in Replies /\ Failure(f).asked = f /\ Failure(f).of = None
         /\ \A g \in Forms : /\ Handle(f, g) \in Replies
                             /\ Handle(f, g).asked = f /\ Handle(f, g).of = g
  BY DEF Failure, Handle, Replies, Forms

----------------------------------------------------------------------------
(***************************************************************************)
(* The invariant holds at first, and each action preserves it.             *)
(***************************************************************************)
LEMMA InitSite == SiteInit => SiteInv
<1> SUFFICES ASSUME SiteInit PROVE SiteInv
  OBVIOUS
<1>1. SiteTypeOK
  BY FormsAre, SiteAssumption DEF SiteInit, SiteTypeOK, Idle, Cleared
<1>2. LoadsCounted
  BY DEF SiteInit, LoadsCounted
<1>3. QED
  BY <1>1, <1>2 DEF SiteInit, SiteInv, OneCall, AnswerIsOfItsPayload, Cleared

LEMMA ChoosePreserves ==
  ASSUME SiteInv, NEW f \in Forms, Choose(f)
  PROVE  SiteInv'
<1>1. SiteTypeOK'
  BY DEF SiteInv, Choose, SiteTypeOK, Cleared
<1>2. LoadsCounted'
  BY DEF SiteInv, Choose, LoadsCounted
<1>3. OneCall'
  BY DEF SiteInv, Choose, OneCall, UnderWay
<1>4. QED
  BY <1>1, <1>2, <1>3 DEF SiteInv, Choose, Cleared, AnswerIsOfItsPayload

LEMMA EditPreserves ==
  ASSUME SiteInv, NEW x \in Texts \cup {Blank}, Edit(x)
  PROVE  SiteInv'
<1>1. /\ form' \in Forms /\ form'.source = form.source /\ form'.target = form.target
  BY FormsAre DEF SiteInv, SiteTypeOK, Edit
<1>2. SiteTypeOK'
  BY <1>1 DEF SiteInv, Edit, SiteTypeOK
<1>3. LoadsCounted'
  BY DEF SiteInv, Edit, LoadsCounted
<1>4. OneCall'
  BY <1>1 DEF SiteInv, Edit, OneCall, UnderWay, Busy, KeepsItsPayload
<1>5. AnswerIsOfItsPayload'
  BY <1>1 DEF SiteInv, Edit, AnswerIsOfItsPayload
<1>6. QED
  BY <1>2, <1>3, <1>4, <1>5 DEF SiteInv, Edit

LEMMA CloseErrorPreserves ==
  ASSUME SiteInv, CloseError
  PROVE  SiteInv'
<1>1. shown'.result = None /\ shown'.status = shown.status
  BY DEF SiteInv, SiteTypeOK, CloseError
<1>2. SiteTypeOK'
  BY <1>1 DEF SiteInv, CloseError, SiteTypeOK
<1>3. LoadsCounted'
  BY DEF SiteInv, CloseError, LoadsCounted
<1>4. OneCall'
  BY <1>1 DEF SiteInv, CloseError, OneCall, UnderWay, Busy, KeepsItsPayload
<1>5. QED
  BY <1>1, <1>2, <1>3, <1>4 DEF SiteInv, CloseError, AnswerIsOfItsPayload

LEMMA RunBlankPreserves ==
  ASSUME SiteInv, RunBlank
  PROVE  SiteInv'
<1>1. /\ shown'.result = Failure(form) /\ shown'.status = shown.status
      /\ Failure(form) \in Replies /\ Failure(form).asked = form
      /\ Failure(form).of = None
  BY RepliesAre DEF SiteInv, SiteTypeOK, RunBlank
<1>2. SiteTypeOK'
  BY <1>1 DEF SiteInv, RunBlank, SiteTypeOK
<1>3. LoadsCounted'
  BY DEF SiteInv, RunBlank, LoadsCounted
<1>4. OneCall'
  BY <1>1 DEF SiteInv, RunBlank, OneCall, UnderWay, Busy, KeepsItsPayload
<1>5. QED
  BY <1>1, <1>2, <1>3, <1>4 DEF SiteInv, RunBlank, AnswerIsOfItsPayload

LEMMA RunPreserves ==
  ASSUME SiteInv, NEW j \in Jobs, Run(j)
  PROVE  SiteInv'
<1>0. mounted \in Components /\ mounted # None /\ form \in Forms
  BY DEF SiteInv, SiteTypeOK, Run
<1>1. /\ job' \in [Jobs -> [at : {"idle", "runtime", "python", "evaluated"},
                            in : Components \cup {None},
                            asked : Forms \cup {None}, reply : Replies \cup {None}]]
      /\ job'[j] = [at |-> "runtime", in |-> mounted, asked |-> form, reply |-> None]
      /\ \A i \in Jobs \ {j} : job'[i] = job[i]
  BY <1>0 DEF SiteInv, SiteTypeOK, Run
<1>2. /\ shown'.result = None /\ shown'.status \in {"loading", "running"}
      /\ shown' \in [result : Replies \cup {None},
                     status : {"idle", "loading", "running", "ready", "error"}]
  BY DEF Run
<1>3. SiteTypeOK'
  <2>1. \A i \in Jobs :
          /\ job'[i].in = None => job'[i].at = "idle"
          /\ job'[i].at = "idle" => job'[i].in = None
          /\ job'[i].at # "idle" => job'[i].asked \in Forms
          /\ job'[i].at = "evaluated" => job'[i].reply \in Replies
    BY <1>0, <1>1 DEF SiteInv, SiteTypeOK
  <2>2. /\ runtime' \in [Components -> {"none", "manifest", "script", "python", "ready", "failed"}]
        /\ loads' \in [Components -> Nat]
    BY <1>0 DEF SiteInv, SiteTypeOK, Run
  <2>3. QED
    BY <1>1, <1>2, <2>1, <2>2 DEF SiteInv, SiteTypeOK, Run
<1>4. LoadsCounted'
  BY <1>0 DEF SiteInv, SiteTypeOK, Run, NoneLoading, LoadsCounted
<1>5. OneCall'
  <2> SUFFICES ASSUME ~disturbed'
               PROVE  \A i \in UnderWay(mounted)' :
                        /\ Busy'
                        /\ KeepsItsPayload(i)'
                        /\ \A k \in UnderWay(mounted)' : k = i
    BY DEF OneCall
  <2>1. UnderWay(mounted) = {}
    BY <1>0 DEF SiteInv, SiteTypeOK, Run, OneCall
  <2>2. mounted' = mounted /\ form' = form
    BY DEF Run
  <2>3. \A i \in UnderWay(mounted)' : i = j
    BY <1>1, <2>1, <2>2 DEF UnderWay
  <2>4. KeepsItsPayload(j)'
    BY <1>1, <2>2 DEF KeepsItsPayload
  <2>5. Busy'
    BY <1>2 DEF Busy
  <2>6. QED
    BY <2>3, <2>4, <2>5
<1>6. QED
  BY <1>0, <1>2, <1>3, <1>4, <1>5 DEF SiteInv, Run, AnswerIsOfItsPayload

\* What becomes of the promises of the script and of the runtimes is seen by a
\* call when it comes to them.
LEMMA LoadPreserves ==
  ASSUME SiteInv,
         script' \in {"none", "loading", "loaded", "failed"},
         runtime' \in [Components -> {"none", "manifest", "script", "python", "ready", "failed"}],
         \A m \in Components : runtime'[m] = "none" <=> runtime[m] = "none",
         UNCHANGED <<mounted, payload, job, form, shown, disturbed, loads>>
  PROVE  SiteInv'
<1>1. SiteTypeOK'
  BY DEF SiteInv, SiteTypeOK
<1>2. LoadsCounted'
  BY DEF SiteInv, LoadsCounted
<1>3. OneCall'
  BY DEF SiteInv, OneCall, UnderWay, Busy, KeepsItsPayload
<1>4. QED
  BY <1>1, <1>2, <1>3 DEF SiteInv, AnswerIsOfItsPayload

LEMMA ScriptStepPreserves ==
  ASSUME SiteInv, ScriptStep
  PROVE  SiteInv'
  BY LoadPreserves DEF ScriptStep, ScriptEnds, SiteInv, SiteTypeOK

LEMMA LoadStepPreserves ==
  ASSUME SiteInv, NEW m \in Components, LoadStep(m)
  PROVE  SiteInv'
<1>1. script' \in {"none", "loading", "loaded", "failed"}
  BY DEF SiteInv, SiteTypeOK, LoadStep, LoadFails, ManifestRead, ScriptAwaited,
         PackageInstalled
<1>2. PICK from, to \in {"manifest", "script", "python", "ready", "failed"} :
        Loading(m, from, to)
  BY DEF LoadStep, LoadFails, ManifestRead, ScriptAwaited, PackageInstalled
<1>3. /\ runtime' \in [Components -> {"none", "manifest", "script", "python", "ready", "failed"}]
      /\ \A k \in Components : runtime'[k] = "none" <=> runtime[k] = "none"
  BY <1>2 DEF SiteInv, SiteTypeOK, Loading
<1>4. UNCHANGED <<mounted, payload, job, form, shown, disturbed, loads>>
  BY <1>2 DEF Loading
<1>5. QED
  BY <1>1, <1>3, <1>4, LoadPreserves

----------------------------------------------------------------------------
(***************************************************************************)
(* The rest of run.                                                        *)
(***************************************************************************)
\* A call under way belongs to a component and has asked for something.
LEMMA CallUnderWay ==
  ASSUME SiteInv, NEW j \in Jobs, job[j].at # "idle"
  PROVE  /\ job[j].in \in Components /\ job[j].asked \in Forms
         /\ job[j].at = "evaluated" => job[j].reply \in Replies
         /\ payload[job[j].in] \in Forms \cup {None}
         /\ mounted # None /\ ~disturbed /\ job[j].in = mounted =>
              /\ Busy /\ KeepsItsPayload(j)
              /\ \A i \in UnderWay(mounted) : i = j
<1>1. job[j].in \in Components /\ job[j].asked \in Forms
  BY DEF SiteInv, SiteTypeOK
<1>2. QED
  BY <1>1 DEF SiteInv, SiteTypeOK, OneCall, UnderWay

\* The call j ends with an answer of its payload, or of none.
LEMMA SettlePreserves ==
  ASSUME SiteInv, NEW j \in Jobs, job[j].at # "idle", NEW r \in Replies, Settle(j, r),
         payload' \in [Components -> Forms \cup {None}],
         \A m \in Components \ {job[j].in} : payload'[m] = payload[m],
         mounted # None /\ ~disturbed /\ job[j].in = mounted =>
           r.asked = job[j].asked /\ r.of \in {r.asked, None},
         UNCHANGED <<script, mounted, runtime, form, disturbed, loads>>
  PROVE  SiteInv'
<1>1. /\ job[j].in \in Components /\ job[j].asked \in Forms
      /\ mounted # None /\ ~disturbed /\ job[j].in = mounted =>
              /\ KeepsItsPayload(j)
              /\ \A i \in UnderWay(mounted) : i = j
  BY CallUnderWay
<1>2. /\ job' \in [Jobs -> [at : {"idle", "runtime", "python", "evaluated"},
                            in : Components \cup {None},
                            asked : Forms \cup {None}, reply : Replies \cup {None}]]
      /\ job'[j] = Idle /\ \A i \in Jobs \ {j} : job'[i] = job[i]
  BY DEF SiteInv, SiteTypeOK, Settle, Idle
<1>3. shown' \in [result : Replies \cup {None},
                  status : {"idle", "loading", "running", "ready", "error"}]
  BY DEF SiteInv, SiteTypeOK, Settle
<1>4. SiteTypeOK'
  <2>1. \A i \in Jobs :
          /\ job'[i].in = None => job'[i].at = "idle"
          /\ job'[i].at = "idle" => job'[i].in = None
          /\ job'[i].at # "idle" => job'[i].asked \in Forms
          /\ job'[i].at = "evaluated" => job'[i].reply \in Replies
    BY <1>2 DEF SiteInv, SiteTypeOK, Idle
  <2>2. QED
    BY <1>2, <1>3, <2>1 DEF SiteInv, SiteTypeOK
<1>5. LoadsCounted'
  BY DEF SiteInv, LoadsCounted
<1>6. CASE job[j].in = mounted
  <2>1. shown'.result = r
    BY <1>6 DEF Settle
  <2>2. mounted \in Components /\ mounted # None
    BY <1>1, <1>6, SiteAssumption
  <2>3. OneCall'
    <3> SUFFICES ASSUME ~disturbed', NEW i \in UnderWay(mounted)' PROVE FALSE
      BY DEF OneCall
    <3>1. i # j
      BY <1>2, <2>2 DEF UnderWay, Idle
    <3>2. i \in UnderWay(mounted)
      BY <1>2, <3>1 DEF UnderWay
    <3>3. QED
      BY <1>1, <1>6, <2>2, <3>1, <3>2
  <2>4. AnswerIsOfItsPayload'
    BY <1>1, <1>6, <2>1, <2>2 DEF AnswerIsOfItsPayload, KeepsItsPayload
  <2>5. QED
    BY <1>4, <1>5, <2>2, <2>3, <2>4 DEF SiteInv
<1>7. CASE job[j].in # mounted
  <2>1. shown' = shown
    BY <1>7 DEF Settle
  <2>2. OneCall'
    <3> SUFFICES ASSUME mounted # None, ~disturbed
                 PROVE  \A i \in UnderWay(mounted)' :
                          /\ Busy'
                          /\ KeepsItsPayload(i)'
                          /\ \A k \in UnderWay(mounted)' : k = i
      BY DEF OneCall
    <3>1. mounted \in Components \ {job[j].in}
      BY <1>7 DEF SiteInv, SiteTypeOK
    <3>2. \A i \in UnderWay(mounted)' : i \in UnderWay(mounted) /\ i # j /\ job'[i] = job[i]
      BY <1>2, <3>1, SiteAssumption DEF UnderWay, Idle
    <3>3. payload'[mounted] = payload[mounted]
      BY <3>1
    <3>4. Busy' <=> Busy
      BY <2>1 DEF Busy
    <3>5. QED
      BY <3>2, <3>3, <3>4 DEF SiteInv, OneCall, KeepsItsPayload
  <2>3. QED
    BY <1>4, <1>5, <2>1, <2>2 DEF SiteInv, AnswerIsOfItsPayload
<1>8. QED
  BY <1>6, <1>7

LEMMA RuntimeFailedPreserves ==
  ASSUME SiteInv, NEW j \in Jobs, RuntimeFailed(j),
         UNCHANGED <<script, mounted, runtime, form, disturbed, loads>>
  PROVE  SiteInv'
<1>1. /\ job[j].at # "idle" /\ payload' = payload
      /\ Settle(j, Failure(job[j].asked))
  BY DEF RuntimeFailed
<1>2. /\ Failure(job[j].asked) \in Replies
      /\ Failure(job[j].asked).asked = job[j].asked /\ Failure(job[j].asked).of = None
  BY <1>1, CallUnderWay, RepliesAre
<1>3. payload \in [Components -> Forms \cup {None}]
  BY DEF SiteInv, SiteTypeOK
<1>4. QED
  BY <1>1, <1>2, <1>3, SettlePreserves

LEMMA AnsweredPreserves ==
  ASSUME SiteInv, NEW j \in Jobs, Answered(j),
         UNCHANGED <<script, mounted, runtime, form, disturbed, loads>>
  PROVE  SiteInv'
<1> DEFINE r == IF payload[job[j].in] = None THEN Failure(job[j].asked) ELSE job[j].reply
<1>1. /\ job[j].at = "evaluated" /\ job[j].at # "idle" /\ Settle(j, r)
      /\ payload' = [payload EXCEPT ![job[j].in] = None]
  BY DEF Answered
<1>2. /\ job[j].reply \in Replies
      /\ Failure(job[j].asked) \in Replies
      /\ Failure(job[j].asked).asked = job[j].asked /\ Failure(job[j].asked).of = None
  BY <1>1, CallUnderWay, RepliesAre
<1>3. /\ payload' \in [Components -> Forms \cup {None}]
      /\ \A m \in Components \ {job[j].in} : payload'[m] = payload[m]
  BY <1>1 DEF SiteInv, SiteTypeOK
<1>4. mounted # None /\ ~disturbed /\ job[j].in = mounted =>
        r.asked = job[j].asked /\ r.of \in {r.asked, None}
  BY <1>1, <1>2, CallUnderWay DEF KeepsItsPayload
<1>5. r \in Replies
  BY <1>2
<1>6. QED
  BY <1>1, <1>3, <1>4, <1>5, SettlePreserves

\* Python begins on a payload, or on what it finds in its place.
LEMMA GoesOn ==
  ASSUME SiteInv, NEW j \in Jobs, job[j].at # "idle",
         NEW at \in {"python", "evaluated"}, NEW reply \in Replies \cup {None},
         job' = [job EXCEPT ![j].at = at, ![j].reply = reply],
         at = "evaluated" => reply \in Replies,
         payload' \in [Components -> Forms \cup {None}],
         \A m \in Components \ {job[j].in} : payload'[m] = payload[m],
         mounted # None /\ ~disturbed /\ job[j].in = mounted =>
           /\ at = "python" => payload'[mounted] = job[j].asked
           /\ at = "evaluated" => /\ reply.of \in {job[j].asked, None}
                                  /\ reply.asked = job[j].asked,
         UNCHANGED <<script, mounted, runtime, form, shown, disturbed, loads>>
  PROVE  SiteInv'
<1>1. /\ job[j].in \in Components /\ job[j].asked \in Forms
      /\ mounted # None /\ ~disturbed /\ job[j].in = mounted =>
              /\ KeepsItsPayload(j)
              /\ \A i \in UnderWay(mounted) : i = j
  BY CallUnderWay
<1>2. /\ job' \in [Jobs -> [at : {"idle", "runtime", "python", "evaluated"},
                            in : Components \cup {None},
                            asked : Forms \cup {None}, reply : Replies \cup {None}]]
      /\ job'[j].at = at /\ job'[j].reply = reply
      /\ job'[j].in = job[j].in /\ job'[j].asked = job[j].asked
      /\ \A i \in Jobs \ {j} : job'[i] = job[i]
  BY DEF SiteInv, SiteTypeOK
<1>3. SiteTypeOK'
  <2>1. \A i \in Jobs :
          /\ job'[i].in = None => job'[i].at = "idle"
          /\ job'[i].at = "idle" => job'[i].in = None
          /\ job'[i].at # "idle" => job'[i].asked \in Forms
          /\ job'[i].at = "evaluated" => job'[i].reply \in Replies
    BY <1>1, <1>2, SiteAssumption DEF SiteInv, SiteTypeOK
  <2>2. QED
    BY <1>2, <2>1 DEF SiteInv, SiteTypeOK
<1>4. LoadsCounted'
  BY DEF SiteInv, LoadsCounted
<1>5. OneCall'
  <2> SUFFICES ASSUME mounted # None, ~disturbed, NEW i \in UnderWay(mounted)
               PROVE  /\ Busy' /\ KeepsItsPayload(i)'
                      /\ \A k \in UnderWay(mounted) : k = i
    BY <1>2 DEF OneCall, UnderWay
  <2>1. Busy' /\ \A k \in UnderWay(mounted) : k = i
    BY DEF SiteInv, OneCall, Busy
  <2>2. KeepsItsPayload(i)'
    <3>1. CASE i = j
      BY <1>1, <1>2, <3>1 DEF UnderWay, KeepsItsPayload
    <3>2. CASE i # j
      <4>1. mounted \in Components \ {job[j].in} /\ job'[i] = job[i]
        BY <1>2, <2>1, <3>2 DEF SiteInv, SiteTypeOK, UnderWay
      <4>2. KeepsItsPayload(i) /\ payload'[mounted] = payload[mounted]
        BY <4>1 DEF SiteInv, OneCall
      <4>3. QED
        BY <4>1, <4>2 DEF KeepsItsPayload
    <3>3. QED
      BY <3>1, <3>2
  <2>3. QED
    BY <2>1, <2>2
<1>6. QED
  BY <1>3, <1>4, <1>5 DEF SiteInv, AnswerIsOfItsPayload

LEMMA CallPythonPreserves ==
  ASSUME SiteInv, NEW j \in Jobs, CallPython(j),
         UNCHANGED <<script, mounted, runtime, form, disturbed, loads>>
  PROVE  SiteInv'
<1>1. /\ job[j].at = "runtime" /\ shown' = shown
      /\ payload' = [payload EXCEPT ![job[j].in] = job[j].asked]
      /\ job' = [job EXCEPT ![j].at = "python"]
  BY DEF CallPython
<1>2. job[j].in \in Components /\ job[j].asked \in Forms
  BY <1>1, CallUnderWay
<1>3. /\ job[j].reply \in Replies \cup {None}
      /\ job' = [job EXCEPT ![j].at = "python", ![j].reply = job[j].reply]
  BY <1>1 DEF SiteInv, SiteTypeOK
<1>4. /\ payload' \in [Components -> Forms \cup {None}]
      /\ payload'[job[j].in] = job[j].asked
      /\ \A m \in Components \ {job[j].in} : payload'[m] = payload[m]
  BY <1>1, <1>2 DEF SiteInv, SiteTypeOK
<1>5. QED
  BY <1>1, <1>3, <1>4, GoesOn

LEMMA EvaluatePreserves ==
  ASSUME SiteInv, NEW j \in Jobs, Evaluate(j),
         UNCHANGED <<script, mounted, runtime, form, disturbed, loads>>
  PROVE  SiteInv'
<1> DEFINE given == payload[job[j].in]
           reply == IF given = None THEN Failure(job[j].asked)
                    ELSE Handle(job[j].asked, given)
<1>1. /\ job[j].at = "python" /\ payload' = payload /\ shown' = shown
      /\ job' = [job EXCEPT ![j].at = "evaluated", ![j].reply = reply]
  BY DEF Evaluate
<1>2. job[j].asked \in Forms /\ given \in Forms \cup {None}
  BY <1>1, CallUnderWay
<1>3. /\ reply \in Replies /\ reply.asked = job[j].asked
      /\ reply.of \in {given, None}
  BY <1>2, RepliesAre
<1>4. mounted # None /\ ~disturbed /\ job[j].in = mounted => given = job[j].asked
  BY <1>1, CallUnderWay DEF KeepsItsPayload
<1>5. payload \in [Components -> Forms \cup {None}]
  BY DEF SiteInv, SiteTypeOK
<1> HIDE DEF reply
<1>6. QED
  BY <1>1, <1>3, <1>4, <1>5, GoesOn

LEMMA JobStepPreserves ==
  ASSUME SiteInv, NEW j \in Jobs, JobStep(j)
  PROVE  SiteInv'
  BY RuntimeFailedPreserves, CallPythonPreserves, EvaluatePreserves, AnsweredPreserves
     DEF JobStep

----------------------------------------------------------------------------
(***************************************************************************)
(* The component and the document come and go.                             *)
(***************************************************************************)
LEMMA UnmountPreserves ==
  ASSUME SiteInv, Unmount
  PROVE  SiteInv'
<1>1. SiteTypeOK'
  BY FormsAre DEF SiteInv, SiteTypeOK, Unmount, Cleared
<1>2. LoadsCounted'
  BY DEF SiteInv, Unmount, LoadsCounted
<1>3. QED
  BY <1>1, <1>2 DEF SiteInv, Unmount, OneCall, AnswerIsOfItsPayload, Cleared

LEMMA MountPreserves ==
  ASSUME SiteInv, NEW m \in Components, Mount(m)
  PROVE  SiteInv'
<1>1. SiteTypeOK'
  BY DEF SiteInv, SiteTypeOK, Mount
<1>2. LoadsCounted'
  BY DEF SiteInv, SiteTypeOK, Mount, LoadsCounted
<1>3. OneCall'
  BY DEF Mount, OneCall, UnderWay
<1>4. AnswerIsOfItsPayload'
  BY DEF SiteInv, Mount, AnswerIsOfItsPayload
<1>5. QED
  BY <1>1, <1>2, <1>3, <1>4 DEF SiteInv, Mount

LEMMA ReloadPreserves ==
  ASSUME SiteInv, ReloadDocument
  PROVE  SiteInv'
<1>1. SiteTypeOK'
  BY FormsAre, SiteAssumption DEF SiteTypeOK, ReloadDocument, Idle, Cleared
<1>2. LoadsCounted'
  BY DEF ReloadDocument, LoadsCounted
<1>3. QED
  BY <1>1, <1>2 DEF SiteInv, ReloadDocument, OneCall, AnswerIsOfItsPayload, Cleared

LEMMA VisitorPreserves ==
  ASSUME SiteInv, VisitorActs
  PROVE  SiteInv'
<1>1. ASSUME NEW s \in Formats, SelectSource(s) PROVE SiteInv'
  BY <1>1, FormsAre, ChoosePreserves DEF SelectSource
<1>2. ASSUME NEW t \in TargetKinds, SelectTarget(t) PROVE SiteInv'
  BY <1>2, FormsAre, ChoosePreserves DEF SelectTarget, SiteInv, SiteTypeOK
<1>3. ASSUME NEW x \in Texts \cup {Blank}, UploadRead(x) PROVE SiteInv'
  BY <1>3, FormsAre, ChoosePreserves DEF UploadRead, SiteInv, SiteTypeOK
<1>4. QED
  BY <1>1, <1>2, <1>3, EditPreserves, CloseErrorPreserves, RunBlankPreserves,
     RunPreserves, UnmountPreserves, MountPreserves, ReloadPreserves
     DEF VisitorActs

LEMMA SiteStep == SiteInv /\ [SiteNext]_siteVars => SiteInv'
<1>1. ASSUME SiteInv, UNCHANGED siteVars PROVE SiteInv'
  BY <1>1, LoadPreserves DEF siteVars, SiteInv, SiteTypeOK
<1>2. QED
  BY <1>1, VisitorPreserves, ScriptStepPreserves, LoadStepPreserves, JobStepPreserves
     DEF SiteNext

LEMMA SiteInvariant == SiteSpec => []SiteInv
  BY InitSite, SiteStep, PTL DEF SiteSpec

----------------------------------------------------------------------------
\* The variables of the playground of the website keep their types, and a call
\* under way has what its next step needs.
THEOREM SiteTypeCorrect == SiteSpec => []SiteTypeOK
<1>1. SiteInv => SiteTypeOK
  BY DEF SiteInv
<1>2. QED
  BY <1>1, SiteInvariant, PTL

\* However many calls are under way, a component loads Pyodide once: runtimeRef
\* is set before the first await, and a failed load stays in it.
THEOREM OneRuntime == SiteSpec => []RuntimeLoadedOnce
<1>1. SiteInv => RuntimeLoadedOnce
  BY DEF SiteInv, LoadsCounted, RuntimeLoadedOnce
<1>2. QED
  BY <1>1, SiteInvariant, PTL

\* What is shown is what Python made of the payload of that call and of the
\* formats selected, unless a choice was made while a call was under way.
THEOREM OwnAnswer == SiteSpec => []AnswerIsOfItsPayload
<1>1. SiteInv => AnswerIsOfItsPayload
  BY DEF SiteInv
<1>2. QED
  BY <1>1, SiteInvariant, PTL

----------------------------------------------------------------------------
(***************************************************************************)
(* The locale of a visitor.  First(S) is the least of S, and so there is a *)
(* first language that the site has if there is one at all.                *)
(***************************************************************************)
LEMMA FirstIsThere ==
  ASSUME NEW S \in SUBSET Nat, S # {}
  PROVE  First(S) \in S /\ \A k \in S : First(S) <= k
<1> DEFINE R == {ss \in Nat \X Nat : ss[1] < ss[2]}
<1>1. IsWellFoundedOn(R, Nat)
  BY NatLessThanWellFounded DEF OpToRel
<1>2. ASSUME NEW k \in Nat, NEW l \in Nat, <<l, k>> \notin R
      PROVE  k <= l
  BY <1>2
<1> HIDE DEF R
<1>3. PICK k \in S : \A l \in S : ~(<<l, k>> \in R)
  BY <1>1, WFMin
<1>4. ASSUME NEW l \in S
      PROVE  k <= l
  <2>1. k \in Nat /\ l \in Nat /\ <<l, k>> \notin R
    BY <1>3
  <2>2. QED
    BY <2>1, <1>2
<1>5. QED
  BY <1>4 DEF First

\* The subtags of a language that the site has.
Spoken(tags) == tags # <<>> /\ tags[1] \in {"en", "zh"}

LEMMA LocalesAre ==
  /\ DOMAIN SupportedLocales = {1, 2}
  /\ SupportedLocales[1] = "en" /\ SupportedLocales[2] = "zh-cn" /\ DefaultLocale = "en"
  /\ LocaleSubtags[1] = <<"en">> /\ LocaleSubtags[2] = <<"zh", "cn">>
<1>1. DOMAIN SupportedLocales = {1, 2}
  BY DEF SupportedLocales
<1>2. SupportedLocales[1] = "en" /\ SupportedLocales[2] = "zh-cn" /\ DefaultLocale = "en"
  BY DEF SupportedLocales, DefaultLocale
<1>3. QED
  BY <1>1, <1>2, LocaleAssumption DEF LocaleSubtags

\* What matches a language is the locale of its primary subtag.
LEMMA MatchIsOfPrimary ==
  ASSUME NEW tags \in Seq(STRING)
  PROVE  /\ Matches(tags) \subseteq {1, 2}
         /\ Matches(tags) # {} <=> Spoken(tags)
         /\ Spoken(tags) => Matches(tags) = IF tags[1] = "zh" THEN {2} ELSE {1}
<1> DEFINE direct == {k \in DOMAIN SupportedLocales : LocaleSubtags[k] = tags}
<1>1. LocaleSubtags[1][1] = "en" /\ LocaleSubtags[2][1] = "zh" /\ <<>> \notin {<<"en">>, <<"zh", "cn">>}
  BY LocalesAre
<1>2. direct \subseteq {1, 2} /\ (1 \in direct <=> tags = <<"en">>) /\ (2 \in direct <=> tags = <<"zh", "cn">>)
  BY LocalesAre
<1>3. CASE tags = <<>>
  BY <1>1, <1>3 DEF Matches, Spoken
<1>4. CASE tags # <<>> /\ direct # {}
  <2>1. Matches(tags) = direct
    BY <1>4 DEF Matches
  <2> HIDE DEF direct
  <2>2. CASE tags = <<"en">>
    <3>1. tags[1] = "en" /\ tags # <<"zh", "cn">>
      BY <2>2
    <3>2. direct = {1}
      BY <1>2, <2>2, <3>1
    <3>3. QED
      BY <1>4, <2>1, <3>1, <3>2 DEF Spoken
  <2>3. CASE tags = <<"zh", "cn">>
    <3>1. tags[1] = "zh" /\ tags # <<"en">>
      BY <2>3
    <3>2. direct = {2}
      BY <1>2, <2>3, <3>1
    <3>3. QED
      BY <1>4, <2>1, <3>1, <3>2 DEF Spoken
  <2>4. QED
    BY <1>2, <1>4, <2>2, <2>3
<1>5. CASE tags # <<>> /\ direct = {}
  <2>1. Matches(tags) = {k \in DOMAIN SupportedLocales : LocaleSubtags[k][1] = tags[1]}
    BY <1>5 DEF Matches
  <2>2. \A k : k \in Matches(tags) <=> \/ k = 1 /\ tags[1] = "en"
                                       \/ k = 2 /\ tags[1] = "zh"
    BY <1>1, <2>1, LocalesAre
  <2> HIDE DEF direct
  <2>3. CASE tags[1] = "zh"
    <3>1. Matches(tags) = {2}
      BY <2>2, <2>3
    <3>2. QED
      BY <1>5, <2>3, <3>1 DEF Spoken
  <2>4. CASE tags[1] = "en"
    <3>1. Matches(tags) = {1}
      BY <2>2, <2>4
    <3>2. QED
      BY <1>5, <2>4, <3>1 DEF Spoken
  <2>5. CASE tags[1] \notin {"en", "zh"}
    <3>1. Matches(tags) = {}
      BY <2>2, <2>5
    <3>2. QED
      BY <1>5, <2>5, <3>1 DEF Spoken
  <2>6. QED
    BY <2>3, <2>4, <2>5
<1>6. QED
  BY <1>3, <1>4, <1>5

\* The preferred locale is that of the first language the site has.
LEMMA PreferredIsFirst ==
  ASSUME NEW languages \in Seq(Words)
  PROVE  LET spoken == {n \in DOMAIN languages : Spoken(Subtags[languages[n]])} IN
         /\ spoken = {} => PreferredLocale(languages) = "en"
         /\ spoken # {} =>
              /\ First(spoken) \in spoken
              /\ PreferredLocale(languages) =
                   IF Subtags[languages[First(spoken)]][1] = "zh" THEN "zh-cn" ELSE "en"
<1> DEFINE spoken == {n \in DOMAIN languages : Spoken(Subtags[languages[n]])}
           matched == {n \in DOMAIN languages : Matches(Subtags[languages[n]]) # {}}
<1> SUFFICES /\ spoken = {} => PreferredLocale(languages) = "en"
             /\ spoken # {} =>
                  /\ First(spoken) \in spoken
                  /\ PreferredLocale(languages) =
                       IF Subtags[languages[First(spoken)]][1] = "zh" THEN "zh-cn" ELSE "en"
  OBVIOUS
<1>1. \A n \in DOMAIN languages : Subtags[languages[n]] \in Seq(STRING)
  BY LocaleAssumption
<1>2. matched = spoken
  BY <1>1, MatchIsOfPrimary
<1>3. DOMAIN languages \subseteq Nat
  OBVIOUS
<1>4. spoken \in SUBSET Nat /\ spoken \subseteq DOMAIN languages
  BY <1>3
<1>5. \A n \in spoken : Spoken(Subtags[languages[n]])
  OBVIOUS
<1>6. PreferredLocale(languages) =
        IF matched = {} THEN DefaultLocale
        ELSE SupportedLocales[First(Matches(Subtags[languages[First(matched)]]))]
  BY DEF PreferredLocale
<1> HIDE DEF spoken, matched
<1>7. CASE spoken = {}
  BY <1>2, <1>6, <1>7, LocalesAre
<1>8. CASE spoken # {}
  <2> DEFINE tags == Subtags[languages[First(spoken)]]
  <2>1. First(spoken) \in spoken
    BY <1>4, <1>8, FirstIsThere
  <2>2. tags \in Seq(STRING) /\ Spoken(tags)
    BY <1>1, <1>4, <1>5, <2>1
  <2>3. PreferredLocale(languages) = SupportedLocales[First(Matches(tags))]
    BY <1>2, <1>6, <1>8
  <2> HIDE DEF tags
  <2>4. Matches(tags) = IF tags[1] = "zh" THEN {2} ELSE {1}
    BY <2>2, MatchIsOfPrimary
  <2>5. First({1}) = 1 /\ First({2}) = 2
    <3>1. {1} \in SUBSET Nat /\ {1} # {} /\ {2} \in SUBSET Nat /\ {2} # {}
      OBVIOUS
    <3>2. First({1}) \in {1} /\ First({2}) \in {2}
      BY <3>1, FirstIsThere
    <3>3. QED
      BY <3>2
  <2>6. PreferredLocale(languages) = IF tags[1] = "zh" THEN "zh-cn" ELSE "en"
    BY <2>3, <2>4, <2>5, LocalesAre
  <2>7. QED
    BY <2>1, <2>6 DEF tags
<1>9. QED
  BY <1>7, <1>8

LEMMA LanguagesAre ==
  ASSUME navigator \in Navigators
  PROVE  BrowserLanguages \in Seq(Words)
  BY LocaleAssumption DEF BrowserLanguages

\* A visitor who asks for Chinese is not left with the default locale.
LEMMA ChineseIsPreferred ==
  ASSUME navigator \in Navigators
  PROVE  AsksForChinese => PreferredLocale(BrowserLanguages) # DefaultLocale
<1> DEFINE spoken == {n \in DOMAIN BrowserLanguages : Spoken(Subtags[BrowserLanguages[n]])}
<1>1. BrowserLanguages \in Seq(Words)
  BY LanguagesAre
<1>2. AsksForChinese => spoken # {} /\ Subtags[BrowserLanguages[First(spoken)]][1] = "zh"
  BY DEF AsksForChinese, Spoken
<1>3. spoken # {} => PreferredLocale(BrowserLanguages) =
        IF Subtags[BrowserLanguages[First(spoken)]][1] = "zh" THEN "zh-cn" ELSE "en"
  BY <1>1, PreferredIsFirst
<1> HIDE DEF spoken
<1>4. QED
  BY <1>2, <1>3, LocalesAre

\* A redirect leads to a localized page.
LEMMA RedirectIsLocalized ==
  ASSUME navigator \in Navigators, NEW u, u.path \in Seq(Words), Redirects(u)
  PROVE  IsLocalized(RedirectUrl(u))
<1>1. BrowserLanguages \in Seq(Words)
  BY LanguagesAre
<1>2. PreferredLocale(BrowserLanguages) \in {"en", "zh-cn"}
  BY <1>1, PreferredIsFirst
<1>3. PreferredLocale(BrowserLanguages) = "zh-cn"
  BY <1>2, LocalesAre DEF Redirects
<1>4. RedirectUrl(u) = [inBase |-> TRUE, path |-> <<"zh-cn">> \o u.path]
  BY <1>3 DEF RedirectUrl
<1>5. FirstWord(RedirectUrl(u)) = "zh-cn" /\ RedirectUrl(u).inBase
  <2>1. "zh-cn" \in Words
    BY LocaleAssumption
  <2>2. <<"zh-cn">> \o u.path # <<>> /\ Head(<<"zh-cn">> \o u.path) = "zh-cn"
    BY <2>1
  <2>3. QED
    BY <1>4, <2>2 DEF FirstWord
<1>6. 2 \in 2..Len(SupportedLocales) /\ Subtags["zh-cn"] = LocaleSubtags[2]
  BY LocaleAssumption, LocalesAre DEF SupportedLocales
<1>7. QED
  BY <1>5, <1>6 DEF IsLocalized

----------------------------------------------------------------------------
(***************************************************************************)
(* A document that was redirected to is localized; what is remembered has  *)
(* happened, and if anything can be remembered, what has happened is.      *)
(***************************************************************************)
UrlOf(u) == u.path \in Seq(Words)

LocaleInv ==
  /\ navigator \in Navigators
  /\ UrlOf(address)
  /\ UrlOf(goal)
  /\ chain \in {0, 1}
  /\ redirected \in BOOLEAN /\ settled \in BOOLEAN
  /\ redirected => settled
  /\ storage = "works" /\ settled => redirected
  /\ tab = "leaving" => chain = 0 /\ settled /\ IsLocalized(goal)
  /\ tab = "loading" /\ chain = 1 => IsLocalized(address)
  /\ RightLocale

LEMMA InitLocale == LocaleInit => LocaleInv
<1>1. UrlOf(NoAddress)
  BY DEF UrlOf, NoAddress
<1>2. LocaleInit => RightLocale /\ tab \notin {"leaving", "loading"} /\ UrlOf(address) /\ UrlOf(goal)
  BY <1>1 DEF LocaleInit, RightLocale
<1>3. QED
  BY <1>2 DEF LocaleInit, LocaleInv

LEMMA AsksUnchanged == UNCHANGED navigator => (AsksForChinese' <=> AsksForChinese)
  BY DEF AsksForChinese, BrowserLanguages

LEMMA NextLocale == LocaleInv /\ [LocaleNext]_localeVars => LocaleInv'
<1> SUFFICES ASSUME LocaleInv, [LocaleNext]_localeVars PROVE LocaleInv'
  OBVIOUS
<1> USE DEF LocaleInv
<1>1. CASE LoadLocalized
  BY <1>1, AsksUnchanged DEF LoadLocalized, RememberRedirect, RightLocale
<1>2. CASE LoadAsItIs
  <2>1. UNCHANGED <<address, goal, redirected, storage, navigator, chain, settled>> /\ tab' = "shown"
    BY <1>2 DEF LoadAsItIs
  <2>2. ~settled /\ address.inBase => ~AsksForChinese
    BY <1>2, ChineseIsPreferred DEF LoadAsItIs, HasRedirected, Redirects
  <2>3. RightLocale'
    BY <2>1, <2>2, AsksUnchanged DEF RightLocale
  <2>4. QED
    BY <2>1, <2>3
<1>3. CASE BeginRedirect
  <2>1. /\ tab = "loading" /\ Redirects(address) /\ RememberRedirect /\ goal' = RedirectUrl(address)
        /\ tab' = "leaving" /\ settled' = TRUE /\ UNCHANGED <<address, storage, navigator, chain>>
    BY <1>3 DEF BeginRedirect
  <2>2. IsLocalized(goal)'
    <3>1. IsLocalized(RedirectUrl(address))
      BY <2>1, RedirectIsLocalized DEF UrlOf
    <3>2. QED
      BY <2>1, <3>1 DEF IsLocalized, FirstWord
  <2>3. chain = 0
    BY <2>1 DEF Redirects
  <2>4. UrlOf(goal)'
    <3>1. BrowserLanguages \in Seq(Words)
      BY LanguagesAre
    <3>2. PreferredLocale(BrowserLanguages) \in {"en", "zh-cn"}
      BY <3>1, PreferredIsFirst
    <3>3. PreferredLocale(BrowserLanguages) \in Words
      BY <3>2, LocaleAssumption
    <3>4. QED
      BY <2>1, <3>3 DEF UrlOf, RedirectUrl
  <2>5. RightLocale' /\ UrlOf(address)'
    BY <2>1 DEF RightLocale, UrlOf
  <2>6. QED
    BY <2>1, <2>2, <2>3, <2>4, <2>5 DEF RememberRedirect
<1>4. CASE FollowRedirect
  <2>1. /\ tab = "leaving" /\ tab' = "loading" /\ address' = goal /\ chain' = 1
        /\ UNCHANGED <<goal, redirected, storage, navigator, settled>>
    BY <1>4 DEF FollowRedirect
  <2>2. IsLocalized(address)' /\ UrlOf(address)' /\ UrlOf(goal)' /\ RightLocale'
    BY <2>1 DEF IsLocalized, FirstWord, UrlOf, RightLocale
  <2>3. QED
    BY <2>1, <2>2
<1>5. CASE StopLoading
  BY <1>5 DEF StopLoading, RightLocale, UrlOf
<1>6. ASSUME NEW u \in Addresses, OpenAddress(u)
      PROVE  LocaleInv'
  <2>1. u.path \in Seq(Words)
    BY LocaleAssumption
  <2>2. QED
    BY <1>6, <2>1 DEF OpenAddress, RightLocale, UrlOf
<1>7. ASSUME NEW u \in Addresses, FollowLink(u)
      PROVE  LocaleInv'
  <2>1. u.path \in Seq(Words)
    BY LocaleAssumption
  <2>2. /\ tab = "shown" /\ address.inBase /\ address' = u /\ chain' = 0
        /\ IsLocalized(u) = IsLocalized(address)
        /\ UNCHANGED <<tab, goal, redirected, storage, navigator, settled>>
    BY <1>7 DEF FollowLink
  <2>3. IsLocalized(address)' <=> IsLocalized(address)
    BY <2>2 DEF IsLocalized, FirstWord
  <2>4. RightLocale'
    BY <2>2, <2>3, AsksUnchanged DEF RightLocale
  <2>5. QED
    BY <2>1, <2>2, <2>4 DEF UrlOf
<1>8. CASE UNCHANGED localeVars
  <2>1. UNCHANGED <<tab, address, goal, redirected, storage, navigator, chain, settled>>
    BY <1>8 DEF localeVars
  <2>2. (IsLocalized(address)' <=> IsLocalized(address)) /\ (IsLocalized(goal)' <=> IsLocalized(goal))
    BY <2>1 DEF IsLocalized, FirstWord
  <2>3. RightLocale'
    BY <2>1, <2>2, AsksUnchanged DEF RightLocale
  <2>4. QED
    BY <2>1, <2>2, <2>3 DEF UrlOf
<1>9. QED
  BY <1>1, <1>2, <1>3, <1>4, <1>5, <1>6, <1>7, <1>8 DEF LocaleNext

LEMMA LocaleInvariant == LocaleSpec => []LocaleInv
<1>1. QED
  BY InitLocale, NextLocale, PTL DEF LocaleSpec

\* The page a visitor is redirected to does not redirect him again, whatever
\* sessionStorage does, his languages and the page he has opened
\* (isLocalizedPath, getLocaleRedirectUrl).
THEOREM OneRedirect == LocaleSpec => []NoRedirectLoop
<1>1. LocaleInv => NoRedirectLoop
  BY DEF LocaleInv, NoRedirectLoop
<1>2. QED
  BY <1>1, LocaleInvariant, PTL

\* Who asks for Chinese first is not shown a page of the default locale before
\* he has been redirected or has seen a localized one (getPreferredLocale).
THEOREM LocaleOfVisitor == LocaleSpec => []RightLocale
<1>1. LocaleInv => RightLocale
  BY DEF LocaleInv
<1>2. QED
  BY <1>1, LocaleInvariant, PTL

\* Where the session can remember, a visitor is redirected once and his choice
\* is kept (runBrowserLocaleRedirect, rememberRedirect).
THEOREM ChoiceIsKept == LocaleSpec => ChoiceKept
<1>1. LocaleInv /\ [LocaleNext]_localeVars =>
        [storage = "works" /\ settled => ~(tab = "loading" /\ tab' = "leaving")]_localeVars
  <2> SUFFICES ASSUME LocaleInv, LocaleNext, storage = "works", settled, tab = "loading",
                      tab' = "leaving"
               PROVE  FALSE
    OBVIOUS
  <2>1. BeginRedirect
    BY DEF LocaleNext, LoadLocalized, LoadAsItIs, FollowRedirect, StopLoading, OpenAddress, FollowLink
  <2>2. QED
    BY <2>1 DEF BeginRedirect, HasRedirected, LocaleInv
<1>2. QED
  BY <1>1, LocaleInvariant, PTL DEF LocaleSpec, ChoiceKept

----------------------------------------------------------------------------
(***************************************************************************)
(* The sources of the page of the web service.  A choice made while nothing*)
(* was awaited awaits no more than what it has begun itself: the files it  *)
(* reads, or the example it loads.                                         *)
(***************************************************************************)
PaneTypes ==
  /\ awaited \in [PaneExamples -> Nat]
  /\ selectedExample \in PaneExamples \cup {"nothing"}
  /\ content \in [from : PaneExamples \cup {"nothing"}, blank : BOOLEAN]

FilesHold ==
  choice.of = "files" =>
    /\ ingests \subseteq {[files |-> choice.files, under |-> choice.under]}
    /\ sourceFormat = choice.under
    /\ ingests = {} => uploads = choice.files

ExampleShown(e) ==
  uploads = <<>> /\ content.from = e /\ sourceFormat = ExampleOf[e]

ExampleHolds ==
  /\ \A e \in PaneExamples : awaited[e] > 0 =>
       choice.of = "example" /\ choice.example = e /\ awaited[e] = 1
  /\ choice.of = "example" =>
       /\ choice.example \in PaneExamples
       /\ awaited[choice.example] = 0 => ExampleShown(choice.example)

ChoiceHolds ==
  /\ choice.of # "files" => ingests = {}
  /\ FilesHold
  /\ ExampleHolds
  /\ choice.of = "format" => uploads = <<>> /\ sourceFormat = choice.format

PaneInv ==
  /\ PaneTypes
  /\ ~overlapped => ChoiceHolds
  /\ ExampleNamed

LEMMA InitPane == PaneInit => PaneInv
<1> SUFFICES ASSUME PaneInit PROVE PaneInv
  OBVIOUS
<1>1. PaneTypes
  BY DEF PaneInit, PaneTypes
<1>2. ChoiceHolds
  BY DEF PaneInit, ChoiceHolds, FilesHold, ExampleHolds
<1>3. QED
  BY <1>1, <1>2 DEF PaneInit, PaneInv, ExampleNamed

\* What a choice finds, if nothing is awaited.
LEMMA NothingAwaited ==
  ASSUME PaneTypes, ~Awaiting
  PROVE  ingests = {} /\ \A e \in PaneExamples : awaited[e] = 0
  BY DEF PaneTypes, Awaiting

\* Steps that change nothing a choice is about.
LEMMA SourceUnchanged ==
  ASSUME PaneInv, UNCHANGED <<sourceFormat, uploads, awaited, ingests, choice, overlapped, lost>>,
         selectedExample' \in {selectedExample, "nothing"},
         content' \in [from : PaneExamples \cup {"nothing"}, blank : BOOLEAN],
         content'.from = content.from
  PROVE  PaneInv'
<1>1. PaneTypes'
  BY DEF PaneInv, PaneTypes
<1>2. ~overlapped' => ChoiceHolds'
  BY DEF PaneInv, ChoiceHolds, FilesHold, ExampleHolds, ExampleShown
<1>3. ExampleNamed'
  BY DEF PaneInv, ExampleNamed
<1>4. QED
  BY <1>1, <1>2, <1>3 DEF PaneInv

LEMMA FormatPane ==
  ASSUME PaneInv, NEW f \in PaneFormats, ChangeFormat(f)
  PROVE  PaneInv'
<1>1. PaneTypes'
  BY DEF PaneInv, ChangeFormat, PaneTypes
<1>2. ASSUME ~overlapped'
      PROVE  ChoiceHolds'
  <2>1. ingests = {} /\ \A e \in PaneExamples : awaited[e] = 0
    BY <1>2, NothingAwaited DEF PaneInv, ChangeFormat, Chosen
  <2>2. /\ UNCHANGED <<awaited, ingests>> /\ uploads' = <<>> /\ sourceFormat' = f
        /\ choice' = [of |-> "format", format |-> f]
    BY DEF ChangeFormat, ClearUploads, Chosen
  <2>3. QED
    BY <2>1, <2>2 DEF ChoiceHolds, FilesHold, ExampleHolds
<1>3. ExampleNamed'
  BY DEF ChangeFormat, ExampleNamed
<1>4. QED
  BY <1>1, <1>2, <1>3 DEF PaneInv

LEMMA IngestPane ==
  ASSUME PaneInv, NEW files \in Selections, Ingest(files)
  PROVE  PaneInv'
<1> DEFINE i == [files |-> Kept(files), under |-> sourceFormat]
<1>1. /\ ingests' = ingests \cup {i}
      /\ choice' = [of |-> "files", files |-> Kept(files), under |-> sourceFormat]
      /\ overlapped' = Awaiting
      /\ UNCHANGED <<sourceFormat, selectedExample, content, uploads, awaited, lost>>
  BY DEF Ingest, Chosen, uploadVars
<1>2. PaneTypes'
  BY <1>1 DEF PaneInv, PaneTypes
<1>3. ASSUME ~overlapped'
      PROVE  ChoiceHolds'
  <2>1. ingests = {} /\ \A e \in PaneExamples : awaited[e] = 0
    BY <1>1, <1>3, NothingAwaited DEF PaneInv
  <2>2. choice'.of = "files" /\ choice'.files = Kept(files) /\ choice'.under = sourceFormat
    BY <1>1
  <2>3. ingests' = {[files |-> choice'.files, under |-> choice'.under]} /\ ingests' # {}
    BY <1>1, <2>1, <2>2
  <2>4. FilesHold'
    BY <1>1, <2>2, <2>3 DEF FilesHold
  <2>5. ExampleHolds'
    BY <1>1, <2>1, <2>2 DEF ExampleHolds
  <2>6. QED
    BY <2>2, <2>4, <2>5 DEF ChoiceHolds
<1>4. ExampleNamed'
  BY <1>1 DEF PaneInv, ExampleNamed
<1>5. QED
  BY <1>2, <1>3, <1>4 DEF PaneInv

LEMMA FilesPane ==
  ASSUME PaneInv, NEW i \in ingests, FilesAreRead(i)
  PROVE  PaneInv'
<1>1. /\ ingests' = ingests \ {i} /\ uploads' = i.files /\ selectedExample' = "nothing"
      /\ UNCHANGED <<sourceFormat, content, awaited, choice, overlapped>>
  BY DEF FilesAreRead, Show, choiceVars
<1>2. PaneTypes'
  BY <1>1 DEF PaneInv, PaneTypes
<1>3. ASSUME ~overlapped'
      PROVE  ChoiceHolds'
  <2>1. ChoiceHolds
    BY <1>1, <1>3 DEF PaneInv
  <2>2. choice.of = "files" /\ i = [files |-> choice.files, under |-> choice.under]
    BY <2>1 DEF ChoiceHolds, FilesHold
  <2>3. ingests' = {} /\ uploads' = choice.files /\ sourceFormat = choice.under
    BY <1>1, <2>1, <2>2 DEF ChoiceHolds, FilesHold
  <2>4. QED
    BY <1>1, <2>1, <2>2, <2>3 DEF ChoiceHolds, FilesHold, ExampleHolds
<1>4. ExampleNamed'
  BY <1>1 DEF ExampleNamed
<1>5. QED
  BY <1>2, <1>3, <1>4 DEF PaneInv

LEMMA ClearPane ==
  ASSUME PaneInv, ClickClear
  PROVE  PaneInv'
<1>1. /\ uploads # <<>> /\ uploads' = <<>> /\ choice' = [of |-> "nothing"] /\ overlapped' = Awaiting
      /\ UNCHANGED <<sourceFormat, selectedExample, content, awaited, ingests, lost>>
  BY DEF ClickClear, ClearUploads, Chosen
<1>2. PaneTypes'
  BY <1>1 DEF PaneInv, PaneTypes
<1>3. ASSUME ~overlapped'
      PROVE  ChoiceHolds'
  <2>1. ingests = {} /\ \A e \in PaneExamples : awaited[e] = 0
    BY <1>1, <1>3, NothingAwaited DEF PaneInv
  <2>2. QED
    BY <1>1, <2>1 DEF ChoiceHolds, FilesHold, ExampleHolds
<1>4. ExampleNamed'
  BY <1>1 DEF PaneInv, ExampleNamed
<1>5. QED
  BY <1>2, <1>3, <1>4 DEF PaneInv

LEMMA SelectPane ==
  ASSUME PaneInv, NEW e \in PaneExamples, SelectExample(e)
  PROVE  PaneInv'
<1>1. /\ selectedExample' = e /\ awaited' = [awaited EXCEPT ![e] = @ + 1]
      /\ choice' = [of |-> "example", example |-> e] /\ overlapped' = Awaiting
      /\ UNCHANGED <<sourceFormat, content, uploads, ingests>>
      /\ awaited \in [PaneExamples -> Nat]
  BY DEF SelectExample, Chosen, uploadVars, PaneInv, PaneTypes
<1>2. PaneTypes' /\ awaited'[e] = awaited[e] + 1 /\ \A d \in PaneExamples \ {e} : awaited'[d] = awaited[d]
  BY <1>1 DEF PaneInv, PaneTypes
<1>3. ASSUME ~overlapped'
      PROVE  ChoiceHolds'
  <2>1. ingests = {} /\ \A d \in PaneExamples : awaited[d] = 0
    BY <1>1, <1>3, NothingAwaited DEF PaneInv
  <2>2. awaited'[e] = 1 /\ \A d \in PaneExamples \ {e} : awaited'[d] = 0
    BY <1>2, <2>1
  <2>3. ExampleHolds'
    BY <1>1, <2>2 DEF ExampleHolds
  <2>4. QED
    BY <1>1, <2>1, <2>3 DEF ChoiceHolds, FilesHold
<1>4. ExampleNamed'
  BY <1>1, <1>2 DEF ExampleNamed
<1>5. QED
  BY <1>2, <1>3, <1>4 DEF PaneInv

LEMMA ArrivesPane ==
  ASSUME PaneInv, NEW e \in PaneExamples, ExampleArrives(e)
  PROVE  PaneInv'
<1>1. /\ selectedExample' = e /\ awaited' = [awaited EXCEPT ![e] = @ - 1] /\ awaited[e] > 0
      /\ sourceFormat' = ExampleOf[e] /\ uploads' = <<>> /\ content' = [from |-> e, blank |-> FALSE]
      /\ UNCHANGED <<ingests, choice, overlapped>>
      /\ awaited \in [PaneExamples -> Nat]
  BY DEF ExampleArrives, ShowExample, ClearUploads, choiceVars, PaneInv, PaneTypes
<1>2. awaited'[e] = awaited[e] - 1 /\ \A d \in PaneExamples \ {e} : awaited'[d] = awaited[d]
  BY <1>1
<1>3. PaneTypes'
  BY <1>1, <1>2 DEF PaneTypes
<1>4. ExampleShown(e)'
  BY <1>1 DEF ExampleShown
<1>5. ASSUME ~overlapped'
      PROVE  ChoiceHolds'
  <2>1. ChoiceHolds
    BY <1>1, <1>5 DEF PaneInv
  <2>2. choice.of = "example" /\ choice.example = e /\ awaited[e] = 1 /\ ingests = {}
    BY <1>1, <2>1 DEF ChoiceHolds, ExampleHolds
  <2>3. \A d \in PaneExamples : awaited'[d] = 0
    BY <1>2, <2>1, <2>2, <1>1 DEF ChoiceHolds, ExampleHolds
  <2>4. ExampleHolds'
    BY <1>1, <1>4, <2>2, <2>3 DEF ExampleHolds, ExampleShown
  <2>5. QED
    BY <1>1, <2>2, <2>4 DEF ChoiceHolds, FilesHold
<1>6. ExampleNamed'
  BY <1>1, <1>4 DEF ExampleNamed, ExampleShown
<1>7. QED
  BY <1>3, <1>5, <1>6 DEF PaneInv

LEMMA LostPane ==
  ASSUME PaneInv, NEW e \in PaneExamples, ExampleIsLost(e)
  PROVE  PaneInv'
<1>1. /\ awaited' = [awaited EXCEPT ![e] = @ - 1] /\ awaited[e] > 0
      /\ lost' = (lost \/ e = selectedExample) /\ choice' = [of |-> "lost"]
      /\ UNCHANGED <<sourceFormat, selectedExample, content, uploads, ingests, overlapped>>
      /\ awaited \in [PaneExamples -> Nat]
  BY DEF ExampleIsLost, uploadVars, PaneInv, PaneTypes
<1>2. awaited'[e] = awaited[e] - 1 /\ \A d \in PaneExamples \ {e} : awaited'[d] = awaited[d]
  BY <1>1
<1>3. PaneTypes'
  BY <1>1, <1>2 DEF PaneInv, PaneTypes
<1>4. ASSUME ~overlapped'
      PROVE  ChoiceHolds'
  <2>1. ChoiceHolds
    BY <1>1, <1>4 DEF PaneInv
  <2>2. choice.of = "example" /\ choice.example = e /\ awaited[e] = 1 /\ ingests = {}
    BY <1>1, <2>1 DEF ChoiceHolds, ExampleHolds
  <2>3. \A d \in PaneExamples : awaited'[d] = 0
    BY <1>2, <2>1, <2>2, <1>1 DEF ChoiceHolds, ExampleHolds
  <2>4. QED
    BY <1>1, <2>2, <2>3 DEF ChoiceHolds, FilesHold, ExampleHolds
<1>5. ExampleNamed'
  BY <1>1, <1>2 DEF PaneInv, PaneTypes, ExampleNamed
<1>6. QED
  BY <1>3, <1>4, <1>5 DEF PaneInv

LEMMA NextPane == PaneInv /\ [PaneNext]_paneVars => PaneInv'
<1> SUFFICES ASSUME PaneInv, [PaneNext]_paneVars PROVE PaneInv'
  OBVIOUS
<1>1. content \in [from : PaneExamples \cup {"nothing"}, blank : BOOLEAN]
  BY DEF PaneInv, PaneTypes
<1>2. ASSUME NEW blank \in BOOLEAN, EditSource(blank)
      PROVE  PaneInv'
  BY <1>1, <1>2, SourceUnchanged DEF EditSource, uploadVars, choiceVars
<1>3. CASE DeselectExample
  <2>1. /\ UNCHANGED <<sourceFormat, uploads, awaited, ingests, choice, overlapped, content>>
        /\ selectedExample' = "nothing"
    BY <1>3 DEF DeselectExample, uploadVars, choiceVars
  <2>2. QED
    BY <2>1 DEF PaneInv, PaneTypes, ChoiceHolds, FilesHold, ExampleHolds, ExampleShown, ExampleNamed
<1>4. ASSUME UNCHANGED <<sourceFormat, selectedExample, content, uploads, awaited, ingests, choice,
                         overlapped, lost>>
      PROVE  PaneInv'
  BY <1>1, <1>4, SourceUnchanged
<1>5. ASSUME NEW path, SelectFile(path) \/ SelectTargetFile(path)
      PROVE  PaneInv'
  BY <1>4, <1>5 DEF SelectFile, SelectTargetFile, uploadVars, choiceVars
<1>6. CASE Transform \/ Format
  BY <1>4, <1>6 DEF Transform, Format, Begin, uploadVars, choiceVars
<1>7. ASSUME NEW files, Answer(files)
      PROVE  PaneInv'
  BY <1>4, <1>7 DEF Answer, uploadVars, choiceVars
<1>8. CASE NoAnswer \/ CloseAlert \/ UNCHANGED paneVars
  BY <1>4, <1>8 DEF NoAnswer, CloseAlert, paneVars, uploadVars, choiceVars
<1>9. QED
  BY <1>2, <1>3, <1>5, <1>6, <1>7, <1>8, FormatPane, IngestPane, FilesPane, ClearPane, SelectPane,
     ArrivesPane, LostPane DEF PaneNext

LEMMA PaneInvariant == PaneSpec => []PaneInv
<1>1. QED
  BY InitPane, NextPane, PTL DEF PaneSpec

\* The example that is named as selected is the one in the editor, under its
\* format, whichever of several awaited has arrived last, unless it is still
\* awaited or was lost (setSelectedExample, loadExample).
THEOREM NamedExample == PaneSpec => []ExampleNamed
<1>1. PaneInv => ExampleNamed
  BY DEF PaneInv
<1>2. QED
  BY <1>1, PaneInvariant, PTL

\* What the page would convert is what was chosen last, if nothing was awaited
\* when it was chosen (ingest, loadExample, onSourceFormatChange).
THEOREM ShownChoice == PaneSpec => []LastChoiceShown
<1>1. ASSUME PaneInv, ~Awaiting, ~overlapped
      PROVE  LastChoiceShown
  <2>1. ingests = {} /\ \A e \in PaneExamples : awaited[e] = 0
    BY <1>1, NothingAwaited DEF PaneInv
  <2>2. ChoiceHolds
    BY <1>1 DEF PaneInv
  <2>3. QED
    BY <2>1, <2>2 DEF ChoiceHolds, FilesHold, ExampleHolds, ExampleShown, LastChoiceShown
<1>2. PaneInv => LastChoiceShown
  BY <1>1 DEF LastChoiceShown
<1>3. QED
  BY <1>2, PaneInvariant, PTL

----------------------------------------------------------------------------
(***************************************************************************)
(* The tree of the files.  FoldLeft chooses a function that satisfies the  *)
(* equation of the fold; that there is one, over as many files as there    *)
(* are, goes by the least number of files for which there would be none.   *)
(***************************************************************************)
\* What holds at 0 and goes on holding holds up to n.
LEMMA UpTo ==
  ASSUME NEW n \in Nat, NEW S \in SUBSET (0..n), 0 \in S,
         \A k \in 1..n : k - 1 \in S => k \in S
  PROVE  S = 0..n
<1> DEFINE rest == (0..n) \ S
<1>1. SUFFICES ASSUME rest # {} PROVE FALSE
  OBVIOUS
<1>2. First(rest) \in rest /\ \A j \in rest : First(rest) <= j
  <2>1. rest \in SUBSET Nat
    OBVIOUS
  <2> HIDE DEF rest
  <2>2. QED
    BY <1>1, <2>1, FirstIsThere
<1>3. PICK k \in rest : \A j \in rest : k <= j
  BY <1>2
<1>4. k \in 1..n /\ k - 1 \in 0..n /\ ~(k <= k - 1)
  BY <1>3
<1>5. k - 1 \in S
  BY <1>3, <1>4
<1>6. QED
  BY <1>3, <1>4, <1>5

NoTree == [n \in {} |-> <<>>]

\* The two folds over files: of buildTree, and of the filter of ingest.
Base(of) == IF of = "tree" THEN NoTree ELSE <<>>

Step(of, made, path) == IF of = "tree" THEN Insert(made, path) ELSE TakeSource(made, path)

IsFold(g, S, files, of) ==
  g = [s \in SUBSET S |-> IF s = {} THEN Base(of)
                          ELSE LET x == Max(s) IN Step(of, g[s \ {x}], files[x])]

Folded(of, files) ==
  IF of = "tree" THEN BuildTree(files) ELSE FoldLeft(TakeSource, <<>>, files)

LEMMA Unfold ==
  ASSUME NEW files, NEW of \in {"tree", "sources"}
  PROVE  Folded(of, files) = (CHOOSE g : IsFold(g, DOMAIN files, files, of))[DOMAIN files]
<1>1. CASE of = "tree"
  BY <1>1 DEF Folded, BuildTree, FoldLeft, MapThenFoldSet, IsFold, NoTree, Base, Step
<1>2. CASE of = "sources"
  BY <1>2 DEF Folded, FoldLeft, MapThenFoldSet, IsFold, Base, Step
<1>3. QED
  BY <1>1, <1>2

LEMMA LastIsMax ==
  ASSUME NEW n \in Nat, NEW s \in SUBSET (1..n), n \in s
  PROVE  Max(s) = n
<1>1. n \in s /\ \A y \in s : n >= y
  OBVIOUS
<1>2. ASSUME NEW x \in s, \A y \in s : x >= y
      PROVE  x = n
  BY <1>2
<1>3. QED
  BY <1>1, <1>2 DEF Max

LEMMA FoldGoesOn ==
  ASSUME NEW n \in Nat \ {0}, NEW files, NEW of, NEW g, IsFold(g, 1..(n - 1), files, of)
  PROVE  \E h : IsFold(h, 1..n, files, of)
<1> DEFINE h == [s \in SUBSET (1..n) |-> IF n \in s THEN Step(of, g[s \ {n}], files[n]) ELSE g[s]]
<1>1. ASSUME NEW s \in SUBSET (1..n)
      PROVE  h[s] = IF s = {} THEN Base(of) ELSE LET x == Max(s) IN Step(of, h[s \ {x}], files[x])
  <2>1. CASE n \in s
    <3>1. Max(s) = n /\ s # {} /\ s \ {n} \in SUBSET (1..n) /\ n \notin s \ {n}
      BY <2>1, LastIsMax
    <3>2. h[s \ {n}] = g[s \ {n}]
      BY <3>1
    <3>3. h[s] = Step(of, g[s \ {n}], files[n])
      BY <2>1
    <3> HIDE DEF h
    <3>4. QED
      BY <3>1, <3>2, <3>3
  <2>2. CASE n \notin s /\ s = {}
    <3>1. h[s] = g[s] /\ s \in SUBSET (1..(n - 1))
      BY <2>2
    <3>2. QED
      BY <2>2, <3>1 DEF IsFold
  <2>3. CASE n \notin s /\ s # {}
    <3>1. s \in SUBSET (1..(n - 1)) /\ s \ {Max(s)} \in SUBSET (1..n) /\ n \notin s \ {Max(s)}
      <4>1. \A x \in s : x \in 1..n /\ x # n
        BY <2>3
      <4>2. \A x \in s : x \in 1..(n - 1)
        BY <4>1
      <4>3. QED
        BY <4>1, <4>2
    <3>2. h[s] = g[s] /\ h[s \ {Max(s)}] = g[s \ {Max(s)}]
      BY <2>3, <3>1
    <3>3. g[s] = Step(of, g[s \ {Max(s)}], files[Max(s)])
      BY <2>3, <3>1 DEF IsFold
    <3> HIDE DEF h
    <3>4. QED
      BY <2>3, <3>2, <3>3
  <2>4. QED
    BY <2>1, <2>2, <2>3
<1>2. h = [s \in SUBSET (1..n) |-> h[s]]
  OBVIOUS
<1> HIDE DEF h
<1>3. h = [s \in SUBSET (1..n) |-> IF s = {} THEN Base(of) ELSE LET x == Max(s) IN Step(of, h[s \ {x}], files[x])]
  BY <1>1, <1>2
<1>4. IsFold(h, 1..n, files, of)
  BY <1>3 DEF IsFold
<1>5. QED
  BY <1>4

LEMMA FoldIsThere ==
  ASSUME NEW n \in Nat, NEW files, NEW of
  PROVE  \E g : IsFold(g, 1..n, files, of)
<1> DEFINE S == {k \in 0..n : \E g : IsFold(g, 1..k, files, of)}
<1>1. 0 \in S
  <2> DEFINE g == [s \in SUBSET (1..0) |-> Base(of)]
  <2>1. g = [s \in SUBSET (1..0) |-> IF s = {} THEN Base(of) ELSE LET x == Max(s) IN Step(of, g[s \ {x}], files[x])]
    <3>1. \A s \in SUBSET (1..0) : s = {}
      OBVIOUS
    <3>2. QED
      BY <3>1
  <2>2. IsFold(g, 1..0, files, of)
    BY <2>1 DEF IsFold
  <2>3. QED
    BY <2>2
<1>2. ASSUME NEW k \in 1..n, k - 1 \in S
      PROVE  k \in S
  BY <1>2, FoldGoesOn
<1> HIDE DEF S
<1>3. S = 0..n
  <2>1. S \in SUBSET (0..n)
    BY DEF S
  <2>2. QED
    BY <1>1, <1>2, <2>1, UpTo
<1>4. QED
  BY <1>3 DEF S

\* What a fold goes through, one file after the other.
LEMMA FoldSteps ==
  ASSUME NEW files, NEW of \in {"tree", "sources"}, NEW n \in Nat,
         DOMAIN files = 1..n
  PROVE  \E made :
           /\ made[0] = Base(of)
           /\ \A k \in 1..n : made[k] = Step(of, made[k - 1], files[k])
           /\ Folded(of, files) = made[n]
<1> DEFINE g == CHOOSE g : IsFold(g, 1..n, files, of)
           made == [k \in 0..n |-> g[1..k]]
<1>1. IsFold(g, 1..n, files, of)
  BY FoldIsThere
<1>2. Folded(of, files) = g[1..n]
  BY Unfold
<1> HIDE DEF g
<1>3. \A s \in SUBSET (1..n) : g[s] = IF s = {} THEN Base(of) ELSE Step(of, g[s \ {Max(s)}], files[Max(s)])
  BY <1>1 DEF IsFold
<1>4. made[0] = Base(of)
  <2>1. 1..0 = {} /\ {} \in SUBSET (1..n) /\ 0 \in 0..n
    OBVIOUS
  <2>2. QED
    BY <1>3, <2>1
<1>5. ASSUME NEW k \in 1..n
      PROVE  made[k] = Step(of, made[k - 1], files[k])
  <2>1. /\ 1..k \in SUBSET (1..n) /\ 1..k # {} /\ (1..k) \ {k} = 1..(k - 1)
        /\ k \in 0..n /\ k - 1 \in 0..n
    <3>1. k \in 1..k /\ \A x \in 1..k : x \in 1..n
      OBVIOUS
    <3>2. \A x : x \in (1..k) \ {k} <=> x \in 1..(k - 1)
      OBVIOUS
    <3>3. (1..k) \ {k} = 1..(k - 1)
      BY <3>2
    <3>4. QED
      BY <3>1, <3>3
  <2>2. Max(1..k) = k
    BY LastIsMax
  <2>3. g[1..k] = Step(of, g[1..(k - 1)], files[k])
    BY <1>3, <2>1, <2>2
  <2>4. QED
    BY <2>1, <2>3
<1>6. Folded(of, files) = made[n]
  BY <1>2
<1>7. QED
  BY <1>4, <1>5, <1>6

LEMMA NodesAre ==
  ASSUME NEW path \in Seq(DOMAIN Kind) \ {<<>>}
  PROVE  path \in NodesTo(path) /\ \A p \in NodesTo(path) : IsPrefix(p, path)
<1>1. SubSeq(path, 1, Len(path)) = path /\ Len(path) \in 0..Len(path)
  OBVIOUS
<1>2. path \in NodesTo(path)
  BY <1>1 DEF NodesTo, Prefixes
<1>3. ASSUME NEW l \in 0..Len(path)
      PROVE  IsPrefix(SubSeq(path, 1, l), path)
  <2>1. Len(SubSeq(path, 1, l)) = l
    BY <1>3
  <2>2. SubSeq(SubSeq(path, 1, l), 1, l) = SubSeq(path, 1, l)
    BY <1>3
  <2>3. QED
    BY <2>1, <2>2 DEF IsPrefix
<1>4. QED
  BY <1>2, <1>3 DEF NodesTo, Prefixes

\* The tree of the first k files: each is a leaf, below folders.
TreeOf(tree, files, k) ==
  /\ \A p : p \in DOMAIN tree <=> \E i \in 1..k : p \in NodesTo(files[i])
  /\ \A i \in 1..k :
       /\ ~tree[files[i]].isDir /\ tree[files[i]].file = files[i]
       /\ \A p \in NodesTo(files[i]) \ {files[i]} : tree[p].isDir

LEMMA InsertTree ==
  ASSUME NEW files, FileList(files), NEW k \in DOMAIN files, NEW tree, TreeOf(tree, files, k - 1)
  PROVE  TreeOf(Insert(tree, files[k]), files, k)
<1> DEFINE path == files[k]
           added == NodesTo(path) \ DOMAIN tree
           new == Insert(tree, path)
<1>1. /\ k \in Nat \ {0} /\ \A i \in 1..k : i \in DOMAIN files
      /\ \A i \in 1..k : i \in 1..(k - 1) \/ i = k
      /\ \A i \in 1..(k - 1) : i \in 1..k
      /\ \A i \in DOMAIN files : files[i] \in Seq(DOMAIN Kind) \ {<<>>} /\ files[i] \in Range(files)
  <2>1. DOMAIN files = 1..Len(files) /\ Len(files) \in Nat
    BY DEF FileList
  <2>2. QED
    BY <2>1 DEF FileList, Range
<1>2. \A i \in 1..k : files[i] \in NodesTo(files[i])
  BY <1>1, NodesAre
<1>3. \A i, j \in 1..k : files[i] \in NodesTo(files[j]) => files[i] = files[j]
  BY <1>1, NodesAre DEF FileList
<1>4. /\ DOMAIN new = DOMAIN tree \cup added
      /\ \A n \in DOMAIN tree \cup added :
           /\ new[n].isDir = (IF n \in added THEN n # path ELSE tree[n].isDir)
           /\ new[n].file = IF n = path THEN path ELSE IF n \in added THEN <<>> ELSE tree[n].file
  <2>1. {Node(p) : p \in NodesTo(path)} = NodesTo(path) /\ Node(path) = path
    BY DEF Node
  <2>2. QED
    BY <2>1 DEF Insert
<1>5. \A p : p \in DOMAIN tree <=> \E i \in 1..(k - 1) : p \in NodesTo(files[i])
  BY DEF TreeOf
<1>6. \A i \in 1..(k - 1) :
        /\ ~tree[files[i]].isDir /\ tree[files[i]].file = files[i]
        /\ \A p \in NodesTo(files[i]) \ {files[i]} : tree[p].isDir
  BY DEF TreeOf
<1> HIDE DEF new, added
<1>7. \A p : p \in DOMAIN new <=> \E i \in 1..k : p \in NodesTo(files[i])
  BY <1>1, <1>4, <1>5 DEF added
<1>8. ASSUME NEW i \in 1..k
      PROVE  /\ ~new[files[i]].isDir /\ new[files[i]].file = files[i]
             /\ \A p \in NodesTo(files[i]) \ {files[i]} : new[p].isDir
  <2>1. CASE files[i] \in DOMAIN tree
    <3>1. PICK j \in 1..(k - 1) : files[i] \in NodesTo(files[j])
      BY <2>1, <1>5
    <3>2. files[i] = files[j]
      BY <1>1, <1>3, <3>1
    <3>3. files[i] \notin added /\ ~tree[files[i]].isDir /\ tree[files[i]].file = files[i]
      BY <1>6, <2>1, <3>2 DEF added
    <3>4. ~new[files[i]].isDir /\ new[files[i]].file = files[i]
      BY <1>4, <2>1, <3>3
    <3>5. ASSUME NEW p \in NodesTo(files[i]) \ {files[i]}
          PROVE  new[p].isDir
      <4>1. p \in DOMAIN tree /\ tree[p].isDir
        BY <1>5, <1>6, <3>2, <3>5
      <4>2. QED
        BY <1>4, <4>1 DEF added
    <3>6. QED
      BY <3>4, <3>5
  <2>2. CASE files[i] \notin DOMAIN tree
    <3>1. i = k
      BY <1>1, <1>2, <1>5, <2>2
    <3>2. path \in added
      BY <1>1, <1>2, <2>2, <3>1 DEF added
    <3>3. ~new[path].isDir /\ new[path].file = path
      BY <1>4, <3>2
    <3>4. ASSUME NEW p \in NodesTo(path) \ {path}
          PROVE  new[p].isDir
      <4>1. CASE p \in added
        BY <1>4, <4>1
      <4>2. CASE p \notin added
        <5>1. p \in DOMAIN tree
          BY <4>2 DEF added
        <5>2. PICK j \in 1..(k - 1) : p \in NodesTo(files[j])
          BY <1>5, <5>1
        <5>3. p # files[j]
          BY <1>1, <1>3, <5>2
        <5>4. tree[p].isDir
          BY <1>6, <5>2, <5>3
        <5>5. QED
          BY <1>4, <4>2, <5>1, <5>4
      <4>3. QED
        BY <4>1, <4>2
    <3>5. QED
      BY <3>1, <3>3, <3>4
  <2>3. QED
    BY <2>1, <2>2
<1>9. QED
  BY <1>7, <1>8 DEF TreeOf, new

\* Every file of a list can be selected, unless its path has a name that
\* objects inherit: its node is a leaf, and those above it are folders.
LEMMA ListedIs ==
  ASSUME NEW files, FileList(files), NEW path \in Range(files), Range(path) \cap Inherited = {}
  PROVE  path \in Listed(files)
<1> DEFINE n == Len(files)
<1>1. DOMAIN files = 1..n /\ n \in Nat
  BY DEF FileList
<1>2. PICK trees : /\ trees[0] = NoTree
                   /\ \A k \in 1..n : trees[k] = Insert(trees[k - 1], files[k])
                   /\ BuildTree(files) = trees[n]
  <2>1. PICK trees : /\ trees[0] = Base("tree")
                     /\ \A k \in 1..n : trees[k] = Step("tree", trees[k - 1], files[k])
                     /\ Folded("tree", files) = trees[n]
    BY <1>1, FoldSteps
  <2>2. QED
    BY <2>1 DEF Base, Step, Folded
<1> DEFINE S == {k \in 0..n : TreeOf(trees[k], files, k)}
<1>3. 0 \in S
  BY <1>1, <1>2 DEF TreeOf, NoTree
<1>4. ASSUME NEW k \in 1..n, k - 1 \in S
      PROVE  k \in S
  <2>1. TreeOf(trees[k - 1], files, k - 1) /\ trees[k] = Insert(trees[k - 1], files[k])
    BY <1>2, <1>4
  <2>2. TreeOf(trees[k], files, k)
    BY <1>1, <2>1, InsertTree
  <2>3. QED
    BY <1>1, <2>2
<1> HIDE DEF S
<1>5. S = 0..n
  <2>1. S \in SUBSET (0..n)
    BY DEF S
  <2>2. QED
    BY <1>1, <1>3, <1>4, <2>1, UpTo
<1>6. TreeOf(BuildTree(files), files, n)
  BY <1>1, <1>2, <1>5 DEF S
<1>7. PICK i \in 1..n : path = files[i]
  BY <1>1 DEF Range
<1>8. path \in NodesTo(path)
  BY <1>1, <1>7, NodesAre DEF FileList
<1> DEFINE tree == BuildTree(files)
<1>9. /\ path \in DOMAIN tree /\ ~tree[path].isDir /\ tree[path].file = path
      /\ \A p \in NodesTo(path) \ {path} : tree[p].isDir
  BY <1>6, <1>7, <1>8 DEF TreeOf
<1>10. QED
  BY <1>9 DEF Listed

\* What ingest keeps of the files of a selection are files of it.
LEMMA KeptAre ==
  ASSUME NEW files, FileList(files)
  PROVE  FileList(Kept(files))
<1> DEFINE n == Len(files)
           sources == FoldLeft(TakeSource, <<>>, files)
<1> HIDE DEF sources
<1>1. DOMAIN files = 1..n /\ n \in Nat /\ \A i \in 1..n : files[i] \in Range(files)
  BY DEF FileList, Range
<1>2. PICK made : /\ made[0] = <<>>
                  /\ \A k \in 1..n : made[k] = TakeSource(made[k - 1], files[k])
                  /\ sources = made[n]
  <2>1. PICK made : /\ made[0] = Base("sources")
                    /\ \A k \in 1..n : made[k] = Step("sources", made[k - 1], files[k])
                    /\ Folded("sources", files) = made[n]
    BY <1>1, FoldSteps
  <2>2. QED
    BY <2>1 DEF Base, Step, Folded, sources
<1> DEFINE S == {k \in 0..n : made[k] \in Seq(Range(files))}
<1>3. 0 \in S
  <2>1. <<>> \in Seq(Range(files))
    OBVIOUS
  <2>2. 0 \in 0..n
    BY <1>1
  <2>3. QED
    BY <1>2, <2>1, <2>2
<1>4. ASSUME NEW k \in 1..n, k - 1 \in S
      PROVE  k \in S
  <2>1. made[k - 1] \in Seq(Range(files)) /\ files[k] \in Range(files)
    BY <1>1, <1>4
  <2>2. made[k] \in Seq(Range(files))
    <3>1. Append(made[k - 1], files[k]) \in Seq(Range(files))
      BY <2>1
    <3>2. QED
      BY <1>2, <2>1, <3>1 DEF TakeSource
  <2>3. QED
    BY <1>1, <2>2
<1> HIDE DEF S
<1>5. S = 0..n
  <2>1. S \in SUBSET (0..n)
    BY DEF S
  <2>2. QED
    BY <1>1, <1>3, <1>4, <2>1, UpTo
<1>6. sources \in Seq(Range(files))
  BY <1>1, <1>2, <1>5 DEF S
<1>7. Range(sources) \subseteq Range(files) /\ Range(files) \subseteq Seq(DOMAIN Kind) \ {<<>>}
  BY <1>6 DEF FileList, Range
<1>8. FileList(sources)
  <2>1. sources \in Seq(Seq(DOMAIN Kind) \ {<<>>})
    BY <1>6, <1>7
  <2>2. QED
    BY <1>7, <2>1 DEF FileList
<1>9. QED
  BY <1>8 DEF Kept, sources

\* The files uploaded, read and converted are files of one file system.
FilesInv ==
  /\ FileList(uploads) /\ FileList(targets)
  /\ \A i \in ingests : FileList(i.files)

LEMMA NoFiles == FileList(<<>>)
<1>1. <<>> \in Seq(Seq(DOMAIN Kind) \ {<<>>}) /\ DOMAIN <<>> = {}
  OBVIOUS
<1>2. QED
  BY <1>1 DEF FileList, Range

LEMMA InitFiles == PaneInit => FilesInv
  BY NoFiles DEF PaneInit, FilesInv

LEMMA NextFiles == FilesInv /\ [PaneNext]_paneVars => FilesInv'
<1> SUFFICES ASSUME FilesInv, [PaneNext]_paneVars PROVE FilesInv'
  OBVIOUS
<1>1. ASSUME UNCHANGED <<uploads, targets, ingests>>
      PROVE  FilesInv'
  BY <1>1 DEF FilesInv
<1>2. ASSUME NEW f \in PaneFormats, ChangeFormat(f)
      PROVE  FilesInv'
  BY <1>2, NoFiles DEF FilesInv, ChangeFormat, ClearUploads, ResetPane
<1>3. ASSUME NEW files \in Selections, Ingest(files)
      PROVE  FilesInv'
  <2>1. FileList(Kept(files))
    BY KeptAre, PaneAssumption
  <2>2. /\ UNCHANGED <<uploads, targets>>
        /\ ingests' = ingests \cup {[files |-> Kept(files), under |-> sourceFormat]}
    BY <1>3 DEF Ingest, uploadVars, resultVars
  <2>3. QED
    BY <2>1, <2>2 DEF FilesInv
<1>4. ASSUME NEW i \in ingests, FilesAreRead(i)
      PROVE  FilesInv'
  BY <1>4, NoFiles DEF FilesInv, FilesAreRead, Show, ResetPane
<1>5. CASE ClickClear
  BY <1>5, NoFiles DEF FilesInv, ClickClear, ClearUploads, resultVars
<1>6. ASSUME NEW e \in PaneExamples, SelectExample(e) \/ ExampleArrives(e) \/ ExampleIsLost(e)
      PROVE  FilesInv'
  BY <1>6, NoFiles DEF FilesInv, SelectExample, ExampleArrives, ShowExample, ClearUploads,
     ResetPane, ExampleIsLost, uploadVars, resultVars
<1>7. ASSUME NEW path, SelectFile(path) \/ SelectTargetFile(path)
      PROVE  FilesInv'
  BY <1>1, <1>7 DEF SelectFile, SelectTargetFile, uploadVars, resultVars
<1>8. CASE Transform \/ Format
  BY <1>8, NoFiles DEF FilesInv, Transform, Format, Begin, ResetPane, uploadVars
<1>9. ASSUME NEW files \in Results, Answer(files)
      PROVE  FilesInv'
  BY <1>9, PaneAssumption DEF FilesInv, Answer, uploadVars
<1>10. ASSUME NEW blank \in BOOLEAN, EditSource(blank)
       PROVE  FilesInv'
  BY <1>1, <1>10 DEF EditSource, uploadVars, resultVars
<1>11. CASE DeselectExample \/ NoAnswer \/ CloseAlert \/ UNCHANGED paneVars
  BY <1>1, <1>11 DEF DeselectExample, NoAnswer, CloseAlert, paneVars, uploadVars, resultVars
<1>12. QED
  BY <1>2, <1>3, <1>4, <1>5, <1>6, <1>7, <1>8, <1>9, <1>10, <1>11 DEF PaneNext

\* Every file uploaded or converted can be selected in the tree of the files,
\* unless a name on its path is one that objects inherit, however many files
\* there are and in whichever order (buildTree, FileTree, ingest).
THEOREM EveryFileShown == PaneSpec => []EveryFileListed
<1>1. PaneSpec => []FilesInv
  BY InitFiles, NextFiles, PTL DEF PaneSpec
<1>2. FilesInv => EveryFileListed
  BY ListedIs DEF FilesInv, EveryFileListed
<1>3. QED
  BY <1>1, <1>2, PTL
=============================================================================
