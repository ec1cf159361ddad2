------------------------------ MODULE Playground ------------------------------
(***************************************************************************)
(* The page of the web service, App in frontend/src/App.tsx with the client*)
(* in api.ts, beside the streams of the server.  A handler of the page is  *)
(* one action up to where it awaits, and one action for the rest, since the*)
(* browser runs other handlers between the two.                            *)
(*                                                                         *)
(* The source itself, in the editor or uploaded, is abstracted, with what is*)
(* only about it: that there is none to convert, which file is selected. A *)
(* result is what was asked for.                                           *)
(***************************************************************************)
EXTENDS TransformStream

CONSTANTS
  Sources,   \* source formats
  Examples,  \* the examples
  FormatOf   \* the source format of each

Nobody == "nobody"

ASSUME PlaygroundAssumption ==
  /\ "cloudformation" \in Sources
  /\ Nobody \notin Requests
  /\ FormatOf \in [Examples -> Sources]

\* availableTargets; "yaml" stands for "json", too.
AllTargets == {"auto", "yaml", "tf"}

Targets(f) == {t \in AllTargets : IF f = "ros" THEN t # "yaml" ELSE t # "tf"}

NoResult == [of |-> "nothing"]

\* The formats of a conversion, and what is shown of one or of `format`.
Asked == [source : Sources, target : AllTargets]
Shown == {NoResult, [of |-> "format"]} \cup [of : {"conversion"}, asked : Asked]

\* What runTransform keeps is the same whenever it does not run.
NoFormats == [source |-> "cloudformation", target |-> "auto"]

VARIABLES
  source, target,  \* sourceFormat, targetFormat
  fetching,        \* the examples that loadExample awaits
  phase,           \* where runTransform or runFormat is; running unless "idle"
  current, asked,  \* the request runTransform awaits, and its formats
  ok,              \* ok of runTransform
  logs, result,    \* what is shown
  status,          \* the kind of status
  changed          \* history: the formats have changed while it ran

formVars == <<source, target, fetching>>
runVars == <<phase, current, asked, ok>>
shownVars == <<logs, result, status>>

pageVars == <<formVars, runVars, shownVars, changed>>

\* A page as it is loaded.
BlankPage ==
  /\ source = "cloudformation" /\ target = "auto"
  /\ fetching = {}
  /\ phase = "idle" /\ current = Nobody /\ ok = FALSE
  /\ asked = NoFormats
  /\ logs = <<>> /\ result = NoResult /\ status = "none"
  /\ changed = FALSE

PlaygroundInit == StreamInit /\ BlankPage

\* Slip: the console is not cleared.
ResetResult == logs' = logs /\ result' = NoResult /\ status' = "none"

ResetIO == logs' = <<>> /\ result' = NoResult /\ status' = "none"

running == phase # "idle"

----------------------------------------------------------------------------
\* Editing.
ChangeSource(f) ==
  /\ source' = f
  /\ target' = "auto"
  /\ ResetIO
  /\ changed' = running
  /\ UNCHANGED <<fetching, runVars>>

\* Slip: a change of the target keeps what is shown.
ChangeTargetOnly(t) ==
  /\ t \in Targets(source)
  /\ target' = t
  /\ changed' = running
  /\ UNCHANGED <<source, fetching, runVars, shownVars>>

\* The list offers what availableTargets has.
ChangeTarget(t) ==
  /\ t \in Targets(source)
  /\ target' = t
  /\ ResetIO
  /\ changed' = running
  /\ UNCHANGED <<source, fetching, runVars>>

PickExample(e) ==
  /\ fetching' = fetching \cup {e}
  /\ UNCHANGED <<source, target, runVars, shownVars, changed>>

\* Slip: the target stays as it is.
ExampleKeepsTarget(e) ==
  /\ fetching' = fetching \ {e}
  /\ source' = FormatOf[e]
  /\ ResetIO
  /\ changed' = running
  /\ UNCHANGED <<target, runVars>>

ExampleLoaded(e) ==
  /\ fetching' = fetching \ {e}
  /\ source' = FormatOf[e]
  /\ target' = "auto"
  /\ ResetIO
  /\ changed' = running
  /\ UNCHANGED runVars

ExampleFails(e) ==
  /\ fetching' = fetching \ {e}
  /\ UNCHANGED <<source, target, runVars, shownVars, changed>>

\* The rest of ingest when the files picked are read.
FilesRead ==
  /\ ResetIO
  /\ UNCHANGED <<formVars, runVars, changed>>

ClearLogs ==
  /\ logs' = <<>>
  /\ UNCHANGED <<formVars, runVars, result, status, changed>>

UserEdits ==
  \/ \E f \in Sources : ChangeSource(f)
  \/ \E t \in Targets(source) : ChangeTarget(t)
  \/ \E e \in Examples : PickExample(e)
  \/ FilesRead
  \/ ClearLogs

----------------------------------------------------------------------------
\* Button loading={running} and disabled={running}.
Enabled == ~running

ClickTransform(s) ==
  /\ Enabled
  /\ phase' = "fetch"
  /\ current' = s
  /\ asked' = [source |-> source, target |-> target]
  /\ ok' = FALSE
  /\ ResetIO
  /\ changed' = FALSE
  /\ Ask(s)
  /\ UNCHANGED formVars

\* fetch resolves with a response.
ResponseArrives ==
  /\ phase = "fetch"
  /\ link[current] \in {"open", "eof"}
  /\ phase' = "read"
  /\ UNCHANGED <<formVars, current, asked, ok, shownVars, changed, streamVars>>

\* setRunning(false), setStatus(...): the end of runTransform.
Finish ==
  /\ phase' = "idle"
  /\ current' = Nobody
  /\ asked' = NoFormats
  /\ ok' = FALSE
  /\ status' = IF ok THEN "ok" ELSE "err"
  /\ UNCHANGED <<formVars, logs, result, changed>>

\* fetch rejects, or the response is not ok: onError.
RequestFails ==
  /\ phase = "fetch"
  /\ link[current] \in {"rejected", "broken"}
  /\ Finish
  /\ Leave(current)

\* dispatch of what reader.read() resolves with.
Dispatch ==
  /\ phase = "read"
  /\ Receive(current)
  /\ LET event == Head(wire[current])
     IN  /\ logs' = IF event.kind = "log" THEN Append(logs, <<current, event.line>>) ELSE logs
         /\ result' = IF event.kind = "result"
                        THEN [of |-> "conversion", asked |-> asked] ELSE result
         /\ ok' = (ok \/ event.kind = "result")
  /\ UNCHANGED <<formVars, phase, current, asked, status, changed>>

\* reader.read() resolves with done.
StreamEnds ==
  /\ phase = "read"
  /\ link[current] = "eof"
  /\ wire[current] = <<>>
  /\ Finish
  /\ Leave(current)

\* reader.read() rejects, and nothing catches that: runTransform ends here.
StreamBreaks ==
  /\ phase = "read"
  /\ link[current] = "broken"
  /\ phase' = "stuck"
  /\ Leave(current)
  /\ UNCHANGED <<formVars, current, asked, ok, shownVars, changed>>

\* runFormat: it awaits formatTemplate, and ends in `finally`.
ClickFormat ==
  /\ Enabled
  /\ source \in {"ros", "rosTerraform"}
  /\ phase' = "format"
  /\ ResetIO
  /\ changed' = FALSE
  /\ UNCHANGED <<formVars, current, asked, ok>>

FormatAnswered(formatted) ==
  /\ phase = "format"
  /\ phase' = "idle"
  /\ result' = IF formatted THEN [of |-> "format"] ELSE result
  /\ status' = IF formatted THEN "ok" ELSE "err"
  /\ UNCHANGED <<formVars, current, asked, ok, logs, changed>>

\* The user reloads the page: its connection is closed.
Reload ==
  /\ running
  /\ source' = "cloudformation" /\ target' = "auto"
  /\ fetching' = {}
  /\ phase' = "idle" /\ current' = Nobody /\ ok' = FALSE
  /\ asked' = NoFormats
  /\ ResetIO
  /\ changed' = FALSE
  /\ IF current = Nobody THEN UNCHANGED streamVars ELSE Leave(current)

----------------------------------------------------------------------------
PageStep ==
  \/ UserEdits
  \/ \E e \in fetching : ExampleLoaded(e) \/ ExampleFails(e)
  \/ ClickFormat
  \/ FormatAnswered(TRUE) \/ FormatAnswered(FALSE)

Conversing ==
  \/ \E s \in Requests : ClickTransform(s)
  \/ ResponseArrives
  \/ RequestFails
  \/ Dispatch
  \/ StreamEnds
  \/ StreamBreaks
  \/ Reload

ServerStep ==
  \/ \E s \in Requests : Serve(s) \/ OnLog(s) \/ Cancel(s)
  \/ Exit
  \/ Start

PlaygroundNext ==
  \/ PageStep /\ UNCHANGED streamVars
  \/ Conversing
  \/ ServerStep /\ UNCHANGED pageVars

pgVars == <<streamVars, pageVars>>

PlaygroundSpec == PlaygroundInit /\ [][PlaygroundNext]_pgVars

\* The event loop and the browser go on, a conversion and a request end.
Fairness ==
  /\ \A s \in Requests : WF_pgVars(Serve(s) /\ UNCHANGED pageVars)
  /\ WF_pgVars(ResponseArrives \/ RequestFails \/ Dispatch \/ StreamEnds \/ StreamBreaks)
  /\ WF_pgVars((FormatAnswered(TRUE) \/ FormatAnswered(FALSE)) /\ UNCHANGED streamVars)

FairPlayground == PlaygroundSpec /\ Fairness

----------------------------------------------------------------------------
\* The variables hold values of their types, and a page that awaits a request
\* has one.
PlaygroundTypeOK ==
  /\ StreamTypeOK
  /\ source \in Sources /\ target \in AllTargets
  /\ ok \in BOOLEAN /\ changed \in BOOLEAN
  /\ fetching \subseteq Examples
  /\ phase \in {"idle", "fetch", "read", "stuck", "format"}
  /\ current \in Requests \cup {Nobody}
  /\ phase \in {"fetch", "read", "stuck"} <=> current # Nobody
  /\ asked \in Asked
  /\ logs \in Seq(Requests \X (1..MaxLines))
  /\ result \in Shown
  /\ status \in {"none", "ok", "err"}

\* "Constrain targets so invalid combinations can't be selected": neither what
\* is selected nor what is asked for is a combination that does not exist, even
\* when an example arrives late (availableTargets, loadExample).
ValidCombination ==
  target \in Targets(source) /\ asked.target \in Targets(asked.source)

\* The log shown is of one conversion, a part of its log without gaps: two runs
\* never share the console (runTransform, onLog).
LogIsOfOneRun ==
  \A i \in 2..Len(logs) : logs[i] = <<logs[1][1], logs[1][2] + i - 1>>

\* A result of a conversion is one of the formats selected, and its status is
\* that of what is shown, unless the formats were changed while it ran.
ShownAgrees ==
  /\ result.of = "conversion" /\ ~changed =>
       result.asked = [source |-> source, target |-> target]
  /\ status = "err" => result = NoResult

\* A conversion ends, and the page can be used again, unless the connection
\* breaks (runTransform, event_gen).
ConversionEnds == current # Nobody ~> current = Nobody \/ link[current] = "broken"
=============================================================================
