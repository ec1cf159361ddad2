------------------------------ MODULE SourcePane ------------------------------
(***************************************************************************)
(* What the page of the web service converts and what it shows of a result:*)
(* the source in the editor, the files uploaded, the examples, and the pane*)
(* of the result; frontend/src/App.tsx with util.ts, FileTree and          *)
(* ResultPane.  Playground has its formats, its log and its conversions;   *)
(* here, a conversion is answered or it is not.                            *)
(*                                                                         *)
(* The text of the editor is abstracted to the example it began as and     *)
(* whether it is blank; a file is its path, a sequence of names.           *)
(***************************************************************************)
EXTENDS SequencesExt, FiniteSets, Naturals

CONSTANTS
  PaneFormats,  \* the source formats
  PaneExamples, \* the examples
  ExampleOf,    \* the source format of each
  Selections,   \* what may be selected in a file or folder dialog
  Results,      \* the file names of what conversions answer
  Kind,         \* the ending of each name: "tf", "xlsx" or another
  Inherited,    \* the names of the properties of Object.prototype
  MaxAwaited    \* bound: how many selections, and how often one example, are awaited

\* Files of one file system: none of them is also a folder of another.
FileList(files) ==
  /\ files \in Seq(Seq(DOMAIN Kind) \ {<<>>})
  /\ \A path, other \in Range(files) : IsPrefix(path, other) => path = other

ASSUME PaneAssumption ==
  /\ PaneFormats \subseteq {"cloudformation", "terraform", "excel", "ros", "rosTerraform"}
  /\ "cloudformation" \in PaneFormats
  /\ ExampleOf \in [PaneExamples -> PaneFormats]
  /\ "nothing" \notin PaneExamples
  /\ <<>> \notin Selections \cup Results
  /\ \A files \in Selections \cup Results : FileList(files)
  /\ MaxAwaited \in Nat

VARIABLES
  sourceFormat,    \* sourceFormat
  selectedExample, \* selectedExample, or "nothing"
  content,         \* content: the example it is from, and whether it is blank
  uploads,         \* the paths of uploads
  selectedPath,    \* selectedPath, or <<>>
  awaited,         \* how often getExample is awaited for each example
  ingests,         \* the files that ingest reads, and sourceFormat as it began
  converting,      \* running
  error,           \* whether an error is shown
  targets,         \* the paths of result.targets
  selected,        \* selected of ResultPane
  lost,            \* history: the example selected was not loaded
  choice,          \* history: the last source that was chosen
  overlapped       \* history: another was awaited as it was chosen

choiceVars == <<choice, overlapped>>
uploadVars == <<uploads, selectedPath>>
resultVars == <<error, targets, selected>>

paneVars == <<sourceFormat, selectedExample, content, uploadVars, awaited, ingests,
              converting, resultVars, lost, choiceVars>>

UploadOnly(f) == f = "excel"
Multiple(f) == f = "terraform"

PaneInit ==
  /\ sourceFormat = "cloudformation" /\ selectedExample = "nothing"
  /\ content = [from |-> "nothing", blank |-> TRUE]
  /\ uploads = <<>> /\ selectedPath = <<>>
  /\ awaited = [e \in PaneExamples |-> 0]
  /\ ingests = {}
  /\ converting = FALSE /\ error = FALSE
  /\ targets = <<>> /\ selected = <<>>
  /\ lost = FALSE /\ choice = [of |-> "nothing"] /\ overlapped = FALSE

----------------------------------------------------------------------------
\* buildTree: where each file is, by the names that lead there.  A bucket is an
\* object, so a name it inherits is taken for a node of it, and what is below
\* that node is nowhere in the tree.
NodesTo(path) == Prefixes(path) \ {<<>>}

\* Slip: a node is looked up by its name alone.
NodeNamed(path) == <<Last(path)>>

Node(path) == path

\* `ensure`: whether a node is a directory is decided by the file that makes it.
Insert(tree, path) ==
  LET added == {Node(p) : p \in NodesTo(path)} \ DOMAIN tree IN
  [n \in DOMAIN tree \cup added |->
     [isDir |-> IF n \in added THEN n # Node(path) ELSE tree[n].isDir,
      file |-> IF n = Node(path) THEN path ELSE IF n \in added THEN <<>> ELSE tree[n].file]]

BuildTree(files) == FoldLeft(Insert, [n \in {} |-> <<>>], files)

\* What FileTree offers to select.
Listed(files) ==
  LET tree == BuildTree(files) IN
  {tree[n].file : n \in {m \in DOMAIN tree :
                           /\ ~tree[m].isDir /\ Range(m) \cap Inherited = {}
                           /\ \A p \in NodesTo(m) \ {m} : tree[p].isDir}}

\* showTree
ShowTree == Len(uploads) > 1 \/ \E i \in DOMAIN uploads : Len(uploads[i]) > 1

IsTerraformSource(path) == ".terraform" \notin Range(path) /\ Kind[Last(path)] = "tf"

TakeSource(sources, path) ==
  IF IsTerraformSource(path) THEN Append(sources, path) ELSE sources

Kept(files) ==
  LET sources == FoldLeft(TakeSource, <<>>, files) IN
  IF sourceFormat = "terraform" /\ sources # <<>> THEN sources ELSE files

IsText(path) == Kind[Last(path)] # "xlsx"

\* The file shown when files are read: the first that is text, or else the first.
FirstShown(files) ==
  LET texts == SelectSeq(files, IsText) IN IF texts # <<>> THEN texts[1] ELSE files[1]

SelectedFile == IF Contains(uploads, selectedPath) THEN selectedPath ELSE uploads[1]

----------------------------------------------------------------------------
ResetPane == error' = FALSE /\ targets' = <<>> /\ selected' = <<>>

ClearUploads == uploads' = <<>> /\ selectedPath' = <<>>

Awaiting == ingests # {} \/ \E e \in PaneExamples : awaited[e] > 0

\* The history: a choice is made, and one that was made arrives.
Chosen(c) == choice' = c /\ overlapped' = Awaiting

ChangeFormat(f) ==
  /\ sourceFormat' = f
  /\ selectedExample' = "nothing"
  /\ content' = IF UploadOnly(f) THEN [from |-> "nothing", blank |-> TRUE] ELSE content
  /\ ClearUploads
  /\ ResetPane
  /\ Chosen([of |-> "format", format |-> f])
  /\ lost' = FALSE
  /\ UNCHANGED <<awaited, ingests, converting>>

\* The editor is read-only otherwise.
EditSource(blank) ==
  /\ uploads = <<>> /\ ~UploadOnly(sourceFormat)
  /\ content' = [content EXCEPT !.blank = blank]
  /\ UNCHANGED <<sourceFormat, selectedExample, uploadVars, awaited, ingests, converting,
                 resultVars, lost, choiceVars>>

\* ingest, up to where it awaits the files; a selection that is still read is
\* not made again.
Ingest(files) ==
  /\ Cardinality(ingests) < MaxAwaited
  /\ [files |-> Kept(files), under |-> sourceFormat] \notin ingests
  /\ Len(files) = 1 \/ Multiple(sourceFormat)
  /\ ingests' = ingests \cup {[files |-> Kept(files), under |-> sourceFormat]}
  /\ Chosen([of |-> "files", files |-> Kept(files), under |-> sourceFormat])
  /\ UNCHANGED <<sourceFormat, selectedExample, content, uploadVars, awaited, converting,
                 resultVars, lost>>

\* Slip: the example stays selected.
IngestKeepsExample(i) ==
  /\ uploads' = i.files
  /\ selectedPath' = FirstShown(i.files)
  /\ ResetPane
  /\ UNCHANGED selectedExample

Show(i) ==
  /\ selectedExample' = "nothing"
  /\ uploads' = i.files
  /\ selectedPath' = FirstShown(i.files)
  /\ ResetPane

FilesAreRead(i) ==
  /\ Show(i)
  /\ ingests' = ingests \ {i}
  /\ lost' = FALSE
  /\ UNCHANGED <<sourceFormat, content, awaited, converting, choiceVars>>

ClickClear ==
  /\ uploads # <<>>
  /\ ClearUploads
  /\ Chosen([of |-> "nothing"])
  /\ UNCHANGED <<sourceFormat, selectedExample, content, awaited, ingests, converting,
                 resultVars, lost>>

SelectFile(path) ==
  /\ ShowTree
  /\ path \in Listed(uploads)
  /\ selectedPath' = path
  /\ UNCHANGED <<sourceFormat, selectedExample, content, uploads, awaited, ingests,
                 converting, resultVars, lost, choiceVars>>

\* onChange of the list of examples, which selects before it loads.
SelectExample(e) ==
  /\ awaited[e] < MaxAwaited
  /\ selectedExample # e
  /\ selectedExample' = e
  /\ awaited' = [awaited EXCEPT ![e] = @ + 1]
  /\ Chosen([of |-> "example", example |-> e])
  /\ lost' = FALSE
  /\ UNCHANGED <<sourceFormat, content, uploadVars, ingests, converting, resultVars>>

DeselectExample ==
  /\ selectedExample # "nothing"
  /\ selectedExample' = "nothing"
  /\ lost' = FALSE
  /\ UNCHANGED <<sourceFormat, content, uploadVars, awaited, ingests, converting,
                 resultVars, choiceVars>>

\* Slip: the files uploaded stay.
ExampleOverFiles(e) ==
  /\ selectedExample' = e
  /\ sourceFormat' = ExampleOf[e]
  /\ content' = [from |-> e, blank |-> FALSE]
  /\ ResetPane
  /\ UNCHANGED uploadVars

ShowExample(e) ==
  /\ selectedExample' = e
  /\ sourceFormat' = ExampleOf[e]
  /\ ClearUploads
  /\ content' = [from |-> e, blank |-> FALSE]
  /\ ResetPane

ExampleArrives(e) ==
  /\ awaited[e] > 0
  /\ ShowExample(e)
  /\ awaited' = [awaited EXCEPT ![e] = @ - 1]
  /\ lost' = FALSE
  /\ UNCHANGED <<ingests, converting, choiceVars>>

\* getExample rejects, which is ignored.
ExampleIsLost(e) ==
  /\ awaited[e] > 0
  /\ awaited' = [awaited EXCEPT ![e] = @ - 1]
  /\ lost' = (lost \/ e = selectedExample)
  /\ choice' = [of |-> "lost"]
  /\ UNCHANGED <<sourceFormat, selectedExample, content, uploadVars, ingests, converting,
                 resultVars, overlapped>>

----------------------------------------------------------------------------
\* buildFiles has files to send; or else there is an error.
HasFiles == uploads # <<>> \/ (~UploadOnly(sourceFormat) /\ ~content.blank)

\* editorValue; files that are text are not blank.
EditorIsBlank == IF uploads # <<>> THEN ~IsText(SelectedFile) ELSE content.blank

Begin(sendable) ==
  /\ ~converting
  /\ converting' = sendable
  /\ IF sendable THEN ResetPane ELSE error' = TRUE /\ UNCHANGED <<targets, selected>>
  /\ UNCHANGED <<sourceFormat, selectedExample, content, uploadVars, awaited, ingests,
                 lost, choiceVars>>

Transform == Begin(HasFiles)

Format == sourceFormat \in {"ros", "rosTerraform"} /\ Begin(~EditorIsBlank)

IsMain(path) == Last(path) = "main.tf"

\* The effect of ResultPane on a new result.
Preferred(files) ==
  LET mains == SelectSeq(files, IsMain) IN IF mains # <<>> THEN mains[1] ELSE files[1]

Answer(files) ==
  /\ converting
  /\ converting' = FALSE
  /\ targets' = files /\ selected' = Preferred(files)
  /\ UNCHANGED <<sourceFormat, selectedExample, content, uploadVars, awaited, ingests,
                 error, lost, choiceVars>>

NoAnswer ==
  /\ converting
  /\ converting' = FALSE
  /\ error' = TRUE
  /\ UNCHANGED <<sourceFormat, selectedExample, content, uploadVars, awaited, ingests,
                 targets, selected, lost, choiceVars>>

CloseAlert ==
  /\ error
  /\ error' = FALSE
  /\ UNCHANGED <<sourceFormat, selectedExample, content, uploadVars, awaited, ingests,
                 converting, targets, selected, lost, choiceVars>>

TargetTree == Listed(targets)

SelectTargetFile(path) ==
  /\ Len(targets) > 1
  /\ path \in TargetTree
  /\ selected' = path
  /\ UNCHANGED <<sourceFormat, selectedExample, content, uploadVars, awaited, ingests,
                 converting, error, targets, lost, choiceVars>>

PaneNext ==
  \/ \E f \in PaneFormats : ChangeFormat(f)
  \/ \E blank \in BOOLEAN : EditSource(blank)
  \/ \E files \in Selections : Ingest(files)
  \/ \E i \in ingests : FilesAreRead(i)
  \/ ClickClear
  \/ \E path \in Range(uploads) : SelectFile(path)
  \/ \E e \in PaneExamples : SelectExample(e) \/ ExampleArrives(e) \/ ExampleIsLost(e)
  \/ DeselectExample
  \/ Transform \/ Format
  \/ \E files \in Results : Answer(files)
  \/ NoAnswer
  \/ CloseAlert
  \/ \E path \in Range(targets) : SelectTargetFile(path)

PaneSpec == PaneInit /\ [][PaneNext]_paneVars

----------------------------------------------------------------------------
\* What the page converts is the source chosen last: files are there under the
\* format they were filtered for, an example without files.  Not so if another
\* choice was awaited when it was made: nothing keeps what is awaited from
\* replacing it, late (ingest, loadExample, onSourceFormatChange).
LastChoiceShown ==
  ~Awaiting /\ ~overlapped =>
    CASE choice.of = "files" -> uploads = choice.files /\ sourceFormat = choice.under
      [] choice.of = "example" ->
           /\ uploads = <<>>
           /\ content.from = choice.example /\ sourceFormat = ExampleOf[choice.example]
      [] choice.of = "format" -> uploads = <<>> /\ sourceFormat = choice.format
      [] OTHER -> TRUE

\* The example the list shows as selected is the one in the editor, under its
\* format, whatever has arrived in which order, unless it is still awaited or
\* was not loaded (setSelectedExample).
ExampleNamed ==
  selectedExample # "nothing" /\ awaited[selectedExample] = 0 /\ ~lost =>
    /\ uploads = <<>>
    /\ content.from = selectedExample
    /\ sourceFormat = ExampleOf[selectedExample]

\* Every file uploaded or converted can be selected in the tree, unless a name on
\* its path is one that objects inherit (buildTree, FileTree).
EveryFileListed ==
  \A files \in {uploads, targets} : \A path \in Range(files) :
    Range(path) \cap Inherited = {} => path \in Listed(files)
=============================================================================
