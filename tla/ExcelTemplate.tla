---------------------------- MODULE ExcelTemplate ----------------------------
(***************************************************************************)
(* The conversion of a worksheet to ROS templates: ExcelTemplate in        *)
(* rostran/providers/excel/template.py, with Properties.resolve in         *)
(* rostran/core/properties.py.  Each column after the first is a template; *)
(* the first says what the row is: a section, a resource of some type, a   *)
(* property of the resource above it, or a parameter.  A property's name   *)
(* may lead into lists and maps: Disks[0].Size.                            *)
(*                                                                         *)
(* Names and cells are tokens.  A part of a name has one index at most.    *)
(* The order of the resources is that of ResourceOrder and left out here.  *)
(***************************************************************************)
EXTENDS Naturals, FiniteSets, SequencesExt

CONSTANTS
  Widths,     \* the number of columns a sheet may have
  SheetRows,  \* the rows it may have
  MaxRows,    \* a bound for TLC: the number of rows
  Numbers,    \* the cells that are not text
  Refs,       \* those that are "!Ref" and a name
  BadNames,   \* the parts of names that NORMAL_PATTERN and LIST_PATTERN refuse
  NoValue     \* an empty cell

MaxTemplates == 5

ASSUME ExcelAssumption ==
  /\ MaxRows \in Nat
  /\ Widths \subseteq Nat
  /\ NoValue \notin Numbers \cup Refs

\* A row is what its first cell is, the name in it, and the other cells.
Contents == {"number", "type", "badType", "name"}

RowKinds == {"comment", "parameters", "resources", "unknown", "blank"} \cup Contents

\* The parts of the names of properties.
Parts == UNION {Range(q.path) : q \in {p \in SheetRows : p.is = "name"}}

ASSUME RowAssumption ==
  \A q \in SheetRows :
    /\ q.is \in RowKinds /\ Len(q.cells) <= MaxTemplates
    /\ q.is = "name" => q.path \in Seq(Parts) \ {<<>>}

VARIABLES
  excel,      \* "load", "scan", "done" or "failed"
  width,      \* max_column
  read,       \* history: the rows read so far
  section,    \* cur_section
  current,    \* cur_resources: the resource of each template, nothing at first
  params,     \* the parameters of each template
  rows,       \* the properties of each resource of each template, by row
  resolved    \* those properties, resolved

excelVars == <<excel, width, read, section, current, params, rows, resolved>>

ExcelInit ==
  /\ excel = "load"
  /\ width = 0
  /\ read = <<>>
  /\ section = "none"
  /\ current = <<>>
  /\ params = <<>> /\ rows = <<>> /\ resolved = <<>>

Sheets == 1..(width - 1)

\* load_workbook, and the check of the columns.
LoadSheet(w) ==
  /\ excel = "load"
  /\ excel' = IF w > MaxTemplates + 1 \/ w < 2 THEN "failed" ELSE "scan"
  /\ width' = w
  /\ params' = [i \in 1..(w - 1) |-> <<>>]
  /\ rows' = [i \in 1..(w - 1) |-> <<>>]
  /\ UNCHANGED <<read, section, current, resolved>>

----------------------------------------------------------------------------
\* A dict with one more key, which keeps its place if it was there.
Added(f, key, value) ==
  [k \in DOMAIN f \cup {key} |-> IF k = key THEN value ELSE f[k]]

AddedInOrder(props, path, value) ==
  IF \E n \in 1..Len(props) : props[n].path = path
    THEN [n \in 1..Len(props) |->
            IF props[n].path = path THEN [path |-> path, value |-> value] ELSE props[n]]
    ELSE Append(props, [path |-> path, value |-> value])

Scanning(q) ==
  /\ excel = "scan" /\ Len(read) < MaxRows
  /\ read' = Append(read, q)

RefuseSheet ==
  /\ excel' = "failed"
  /\ UNCHANGED <<width, section, current, params, rows, resolved>>

Keep == UNCHANGED <<excel, width, params, rows, resolved>>

\* A comment, and what is in no section.  A blank row ends a section.
SkipRow(q) ==
  /\ Scanning(q)
  /\ \/ q.is \in {"comment", "blank"}
     \/ section = "none" /\ q.is \in Contents
  /\ section' = IF q.is = "blank" THEN "none" ELSE section
  /\ UNCHANGED current /\ Keep

BeginSection(q) ==
  /\ Scanning(q)
  /\ q.is \in {"parameters", "resources"}
  /\ section' = q.is
  /\ UNCHANGED current /\ Keep

UnknownSection(q) ==
  /\ Scanning(q) /\ q.is = "unknown"
  /\ RefuseSheet

InSection(q, s) ==
  /\ Scanning(q) /\ section = s
  /\ q.is \in Contents

\* Parameter.initialize_from_excel
AddParameter(q) ==
  /\ InSection(q, "parameters")
  /\ IF q.is = "number"
       THEN RefuseSheet
       ELSE /\ params' = [i \in Sheets |-> Added(params[i], q.path, q.cells[i])]
            /\ UNCHANGED <<excel, width, section, current, rows, resolved>>

\* Slip: a column without the resource goes on with the one before.
CurrentKept(q) ==
  [i \in Sheets |-> IF q.cells[i] = NoValue /\ current # <<>> THEN current[i] ELSE q.cells[i]]

\* The resource that each template has in this row, if it has one.
CurrentOf(q) == [i \in Sheets |-> q.cells[i]]

Named(q) == {i \in Sheets : q.cells[i] # NoValue}

\* Resource.initialize_from_excel
AddResource(q) ==
  /\ InSection(q, "resources")
  /\ q.is \in {"type", "badType"}
  /\ IF \E i \in Named(q) : q.is = "badType" \/ q.cells[i] \in Numbers
       THEN RefuseSheet
       ELSE /\ rows' = [i \in Sheets |->
                          IF i \in Named(q)
                            THEN Added(rows[i], q.cells[i], [type |-> q.path, props |-> <<>>])
                            ELSE rows[i]]
            /\ current' = CurrentOf(q)
            /\ UNCHANGED <<excel, width, section, params, resolved>>

\* Property.initialize_from_excel
AddProperty(q) ==
  LET here == {i \in Sheets : current # <<>> /\ current[i] # NoValue} IN
  /\ InSection(q, "resources")
  /\ q.is \in {"number", "name"}
  /\ IF q.is = "number" /\ here # {}
       THEN RefuseSheet
       ELSE /\ rows' = [i \in Sheets |->
                          IF i \in here
                            THEN [rows[i] EXCEPT ![current[i]].props =
                                    AddedInOrder(@, q.path, q.cells[i])]
                            ELSE rows[i]]
            /\ UNCHANGED <<excel, width, section, current, params, resolved>>

----------------------------------------------------------------------------
(***************************************************************************)
(* Properties.resolve.  A value is a tree: what is at each path into it,   *)
(* "dict", "list" or a cell.  A step of a path is a key, or an index.      *)
(***************************************************************************)
Part(name, index) == [name |-> name, index |-> index]

IsItem(step) == step.name = ""

\* A name without a dot is a key as it is, brackets included.
StepsOf(path) ==
  IF Len(path) = 1 THEN path
  ELSE FlattenSeq([n \in 1..Len(path) |->
         IF path[n].index = {} THEN <<path[n]>>
         ELSE <<Part(path[n].name, {}), Part("", path[n].index)>>])

First(steps, n) == SubSeq(steps, 1, n)

Container(step) == IF IsItem(step) THEN "list" ELSE "dict"

\* "!Ref" and a name is a dict with one key.
KindOf(value) == IF value \in Refs THEN "dict" ELSE value

ItemsAt(tree, at) ==
  {p \in DOMAIN tree : Len(p) = Len(at) + 1 /\ IsPrefix(at, p) /\ IsItem(p[Len(p)])}

\* ConflictDataTypeInExpression, DiscontinuousIndexInExpression and
\* InvalidExpression.
CannotPut(tree, path) ==
  LET steps == StepsOf(path) IN
  /\ Len(path) > 1
  /\ \/ \E n \in 1..Len(path) : path[n].name \in BadNames
     \/ \E n \in 2..Len(steps) :
          /\ First(steps, n - 1) \in DOMAIN tree
          /\ KindOf(tree[First(steps, n - 1)]) # Container(steps[n])
     \/ \E n \in 2..Len(steps) :
          /\ IsItem(steps[n])
          /\ \E k \in steps[n].index : k > Cardinality(ItemsAt(tree, First(steps, n - 1)))

\* A key is set anew, with what is below it; an item that is there stays.
PutAt(tree, path, value) ==
  LET steps == StepsOf(path)
      last == Len(steps)
      stays == IsItem(steps[last]) /\ steps \in DOMAIN tree
      kept == {p \in DOMAIN tree : stays \/ ~IsPrefix(steps, p)} IN
  [p \in kept \cup {First(steps, n) : n \in 1..last} |->
     IF p \in kept THEN tree[p]
     ELSE IF p # steps THEN Container(steps[Len(p) + 1])
     ELSE IF IsItem(steps[last]) /\ value = NoValue THEN "dict" ELSE value]

\* One turn of the loop, until one raises.
ResolveOne(done, prop) ==
  IF ~done.ok \/ CannotPut(done.tree, prop.path)
    THEN [done EXCEPT !.ok = FALSE]
    ELSE [done EXCEPT !.tree = PutAt(@, prop.path, prop.value)]

Resolved(props) == FoldLeft(ResolveOne, [ok |-> TRUE, tree |-> <<>>], props)

Resolve ==
  LET values == [i \in Sheets |-> [id \in DOMAIN rows[i] |-> Resolved(rows[i][id].props)]] IN
  /\ excel = "scan"
  /\ IF \A i \in Sheets : \A id \in DOMAIN rows[i] : values[i][id].ok
       THEN /\ excel' = "done"
            /\ resolved' = [i \in Sheets |->
                          [id \in DOMAIN rows[i] |->
                             [type |-> rows[i][id].type, tree |-> values[i][id].tree]]]
       ELSE excel' = "failed" /\ UNCHANGED resolved
  /\ UNCHANGED <<width, read, section, current, params, rows>>

ExcelNext ==
  \/ \E w \in Widths : LoadSheet(w)
  \/ \E q \in SheetRows :
       \/ SkipRow(q) \/ BeginSection(q) \/ UnknownSection(q)
       \/ AddParameter(q) \/ AddResource(q) \/ AddProperty(q)
  \/ Resolve

ExcelSpec == ExcelInit /\ [][ExcelNext]_excelVars

----------------------------------------------------------------------------
\* As the columns are read one by one: the section that row n is in, whether row d
\* ends what was declared above it, by a type that need not exist if no template
\* has a resource there, and the rows of the resource of row d.
SectionOf(n) ==
  LET above == {k \in 1..(n - 1) : read[k].is \in {"parameters", "resources", "blank"}} IN
  IF above = {} THEN "none" ELSE read[CHOOSE k \in above : \A j \in above : j <= k].is

Declares(d) == read[d].is \in {"type", "badType"} /\ SectionOf(d) = "resources"

Below(d) ==
  {n \in (d + 1)..Len(read) :
     /\ read[n].is = "name" /\ SectionOf(n) = "resources"
     /\ ~\E k \in (d + 1)..n : Declares(k)}

\* The place of one row is inside that of the other, or the same.
Overlap(m, n) ==
  LET p == StepsOf(read[m].path)
      q == StepsOf(read[n].path) IN
  IsPrefix(p, q) \/ IsPrefix(q, p)

\* Each column by itself is a template, however its resources alternate with those
\* of the others: it has the resources named in it, each as declared last, with
\* the cells below in the places that their rows name and with no others.  Where a
\* place is given twice, the later cell has it; where one is inside another, or an
\* item of a list is empty, no claim is made (cur_resources, Properties.resolve).
\* Only rows of a section count, and a section ends at a blank row, as the code
\* has it: what is below one is in no template, against BlocksAsDocumented.
EveryCellInItsPlace ==
  excel = "done" =>
    \A i \in Sheets :
      LET named(id) == {d \in 1..Len(read) : Declares(d) /\ read[d].cells[i] = id} IN
      /\ DOMAIN resolved[i] = {read[d].cells[i] : d \in {k \in 1..Len(read) : Declares(k)}} \ {NoValue}
      /\ \A id \in DOMAIN resolved[i] :
           LET last == CHOOSE k \in named(id) : \A j \in named(id) : j <= k
               tree == resolved[i][id].tree IN
           /\ resolved[i][id].type = read[last].path
           /\ \A n \in Below(last) :
                /\ read[n].cells[i] # NoValue
                /\ \A m \in Below(last) : Overlap(m, n) => read[m].path = read[n].path /\ m <= n
                => tree[StepsOf(read[n].path)] = read[n].cells[i]
           /\ \A p \in DOMAIN tree :
                tree[p] \notin {"dict", "list", NoValue} =>
                  \E n \in Below(last) : StepsOf(read[n].path) = p /\ read[n].cells[i] = tree[p]

\* The block that row n is in by website/docs/examples/excel-to-ros.md: it lasts
\* until the next block declaration, blank rows or not.
DocumentedBlockOf(n) ==
  LET above == {k \in 1..(n - 1) : read[k].is \in {"parameters", "resources"}} IN
  IF above = {} THEN "none" ELSE read[CHOOSE k \in above : \A j \in above : j <= k].is

\* What is declared in a block is in the templates, if all of the sheet is converted:
\* a parameter in all of them, a resource in those that name it.  The code drops
\* what is below a blank row without a word (cur_section).
BlocksAsDocumented ==
  excel = "done" =>
    \A n \in 1..Len(read) : \A i \in Sheets :
      /\ DocumentedBlockOf(n) = "parameters" /\ read[n].is = "name"
           => read[n].path \in DOMAIN params[i]
      /\ DocumentedBlockOf(n) = "resources" /\ read[n].is = "type" /\ read[n].cells[i] # NoValue
           => read[n].cells[i] \in DOMAIN resolved[i]
=============================================================================
