# rostran in TLA+

`rostran` converts Terraform, CloudFormation and Excel templates to ROS
templates, and ROS templates to Terraform, from a command line, a web service
with a UI, and WebAssembly in the documentation website. This directory models
the parts of it whose correctness depends on order (threads, files, locks, locks
that are missing, interrupted commands, retries, answers that arrive late,
processes that come and go) and the core of the conversions: which resources,
references and values the template has that is written, and in which order. Paths
below are relative to `src/`.

## The system

| component | state it keeps | operations | what makes it correct |
|---|---|---|---|
| Terraform project cache, `rostran/web/service.py` | per key: `in/`, `out/`, `result.json`, `metadata.json` on disk; `_transform_lock` | `load_result`, `prepare_project`, conversion, `_collect_outputs`, `save_result`, `evict` | an answer comes from all of the sources; a saved result is reused and evicted last; a request does not fail for want of its own files; the lock is released on every way out |
| process shims, `rostran/web/service.py` | `sys.stdout`, cwd, `os.environ`, one class attribute; `_transform_lock`, `_rules_lock` | `_temporary_env`, `_temporary_cwd`, `redirect_stdout`, `_skip_ros_validation`, `detect_credentials`, `get_rules` | a conversion runs in its own context; outputs do not mix; the process is restored |
| rules updater, `rostran/core/rules_updater.py` | `~/.rostran/rules`, `rules_meta.json` | `rules update`, `rules reset`, `rules --version`; loading by `RuleManager` | the version named is the version loaded, in full |
| HTTP application, `rostran/web/server.py` | per stream: a queue and a worker task | `/transform`, `/transform/stream`, `/format`, `/rules`, `run` | events in order, the stream ends, nothing after the result |
| web UI, `frontend/src` | editor, example, uploads, formats, result, log, `running` | select, load an example, `ingest` files, `runTransform`, `runFormat`, `buildTree`, `ResultPane` | only combinations of formats that exist; one log, one result, of what was asked for; what is converted is what was chosen last; every file can be seen |
| command line, `rostran/cli/__main__.py` | `~/.rostran/server.json`, processes | `transform`, `format`, `rules`, `server start/stop/status` | one server, and it can be found; stop stops that server; every command ends |
| template core, `rostran/core` | the ROS template; `Graph` | resolve values, order resources, save | every resource is written once, after what it depends on; the recursion ends |
| Terraform to ROS, `rostran/providers/terraform/template.py`, `rostran/handlers` | configuration, plan, rules | `initialize`, `_parse_resources`, `_transform_resources`, `_parse_outputs`, `_transform_outputs` | one resource per planned instance; what is referred to is written |
| CloudFormation to ROS, `rostran/providers/cloudformation/template.py`, `rostran/handlers/resource.py` | source template, rules, resources with a handler | `_transform_resources`, `split_nat_gateway`, `merge_vpc_gateway_attachment_to_gateway` | nothing lost or invented; what is merged reaches its gateway |
| ROS to Terraform, `rostran/providers/ros` | source template, rules, the names given so far, resources with a count, resources found in properties | `_transform_conditions`, `_transform_resources`, `_transform_resource_in_properties`, `_transform_outputs`, `save`; `ref`, `get_att`, `if_` and the other functions | every resource and output once; what a reference names is declared, and indexed if it is counted |
| Excel to ROS, `rostran/providers/excel`, `rostran/core/properties.py` | section and resource of each column | `transform`, `initialize_from_excel`, `Properties.resolve` | every cell in its resource, at the place its row names |
| playground, `website/src/components/Playground/index.tsx`, `rostran/wasm.py` | formats, editor, result; Pyodide and its globals | `run`, `loadRuntime`, `runPython`, `resetIO`; the page left and entered again | an answer is of its own payload; Pyodide is loaded once; `busy` ends |
| language of the website, `website/src/clientModules/localeRedirect.mjs` | one key of `sessionStorage` | `runBrowserLocaleRedirect` as each document is loaded | one redirect, to the right language, and never against a choice |
| rules data, generators, formatter, compatible mode | none | | not modelled |

How they interact. The HTTP application runs each request of the service in a
thread (`asyncio.to_thread`), which calls the command line's `transform`
function in the server's own process. The threads share the disk cache without
a lock, and the process state under two locks. The UI calls the HTTP
application. The rules updater is another process; it changes the directory
from which each conversion loads its rules. `server start` spawns the server
and finds it again by a pid file. The website's playground has no server: it
calls the conversions through `rostran/wasm.py`, in the page. Every conversion to ROS, and `format`, ends in
`Template.save`, which asks for the resources in dependency order.

The hard behaviours: identical requests in flight at once, eviction of a
project in use, `os._exit` while threads write files, two locks over one
`sys.stdout`, state read before a lock and used under it, an update interrupted
between three file operations, a repository that changes between two requests;
a pid file that is read, acted upon and written in different steps, and pids that
are given away again; examples, files and answers that arrive after something else
was chosen; one name among Python's globals for the payload of every call;
cycles and dangling names among resources, and two descriptions of the same
resources, configuration and plan, that need not agree.

## Modules

| module | models |
|---|---|
| `TransformService` | `transform` for Terraform sources with `TerraformProjectCache`: threads, disk, lock, kills |
| `RecentUse` | `TransformService` with the history of which projects were used before which, whatever the disk says of it |
| `ConversionService` | what a client may rely on: the abstract specification `TransformService` implements |
| `TransformServiceProofs` | type correctness and the exact lock, for any requests; right answers, no failures, reuse and the refinement, for distinct requests with room for all; a bounded cache and whole inputs for a request that runs alone, whatever was left on disk; what eviction keeps |
| `ProcessShims`, `ProcessShimsProofs` | the process-wide shims and locks; types, that a conversion runs in its own context, and, without the overlaps that break them, whole logs, a restored process and keys of their source |
| `RulesUpdater` | `rules update` and `rules reset` |
| `ResourceOrder` | the order of the Resources section: `Graph` and `Resources.as_dict` |
| `TerraformTemplate` | the Terraform conversion, which extends `ResourceOrder` and ends in it |
| `CloudFormationTemplate` | the CloudFormation conversion, which does the same |
| `ToRosProofs` | about these three: that the order is a topological one without losses; that nothing is lost or dangling; that the conversion is complete and attachments reach their gateways |
| `RosTemplate`, `RosTemplateProofs` | the conversion of a ROS template to Terraform: blocks, their names, the references to them; that every reference is declared, and nothing left out |
| `ExcelTemplate`, `ExcelProofs` | the conversion of a worksheet: the scanner of rows, and the values that dotted names build; that every cell is in its resource, at its place |
| `ServerLifecycle` | `server start/stop/status`, the pid file, the processes they spawn and signal |
| `CommandLineProofs` | about both: types, that the version named is the one in the cache; that a server is on record, and stopped when `stop` says so |
| `TransformStream` | `/transform/stream`: worker, thread, event queue, generator, and a client that leaves |
| `Playground`, `PlaygroundProofs` | the page, `App` with its client, which extends `TransformStream`; that events arrive in order and that what is shown is of one run |
| `SourcePane` | the same page's source: editor, examples, uploads and their tree; the pane of the result |
| `SitePlayground` | the playground of the website: Pyodide, its globals, calls under way |
| `LocaleRedirect` | the redirect to the pages in the visitor's language |
| `PagesProofs` | about these three: one load, own answers; one redirect, to the right language; the source chosen last, every file in the tree |
| `MCTransformService`, `MCRecentUse` | symmetry sets for TLC |
| `MCPlayground` | the formats of the examples and the bounds on requests for TLC |
| `MCPages` | the pages together, which extends `MCPlayground`: a session is of one of them |
| `MCCommandLine` | the updater, the server's commands and the requests that share its process: a behaviour is of one of the three |
| `MCTemplates` | templates to format, and configurations, CloudFormation templates, ROS templates and sheets to convert, for TLC |

Operators whose comment begins with *Slip:* are mutated forms of the definition
that follows them. No specification uses them; each shows that a property
notices a plausible mistake in the code.

### TransformService

One thread of the pool serves one request at a time: `pc[t]` names the call it
makes next, and one action is one call of the file system, since threads
interleave between any two of them (the GIL is released in each). `prepare_project`
is `MakeProject`, `MakeIn`, `ClearOut`, `RemoveOut`, `MakeOut`, `TruncateIn`,
`WriteIn`, then `Touch` and the `Evict...` steps; `phase` remembers whether
`prepare_project` or `save_result` called those. `rmtree` is modelled as it
works: it lists the entries, removes each, then removes the directory, which
fails if something was put into it meanwhile (`EvictEntry`, `EvictRmdir`).

Files are abstracted to `absent`, `empty`, `partial`, `full`, and for results
`right` or `wrong`: whether they come from the whole of the sources. `key_for`
hashes the sources and the options, so a key stands for a conversion and two
requests with one key must get one answer. The conversion between
reading the sources and writing the target is one step with three outcomes:
nothing to read, a refused source, targets. `Restart` is `os._exit` or a kill:
files stay, everything else starts afresh.

`older[k]` is the projects that `_last_used_ns` puts before `k`. It is about
times on disk and not about uses, and the two may differ. `_touch` is two steps,
`OpenMeta`, which truncates `metadata.json`, and `WriteMeta`. While `meta` is not
`whole` the time of a project is the mtime of its directory (`TimedByDir`): every
entry that is made or removed there, by `prepare_project`, `save_result` or an
`rmtree` under way, makes it the latest (`DirChanges`, `EvictEntry`), and
truncating a file that is there does not, so the time of a project whose
`metadata.json` was truncated is that of any change until now: `OpenMeta` lets it
be put anywhere among the others. The clock is abstracted to the order of these
times: it is taken to go on, the time that `_touch` writes is that of the moment
it is written, and `EvictSort` reads all times at once.

`RecentUse` adds what happened: `before[k]`, the projects last used before `k`
was, and `torn`, those that a kill left without a readable `metadata.json` and
that no request has used since. A kill inside `_touch` leaves a project that was
just used with a time that may be the oldest; one inside `rmtree`, past the
removal of `metadata.json`, leaves the remains of a victim as the newest. Both
cost a recent result its place. `RecentResultsStay` states what is left of the
promise: a saved result goes only when `MaxProjects` projects were used after
it or are torn, unless it is torn itself.

`SharedKeys` says for which keys two requests may be in flight at once. With
`SharedKeys = {}` the service is correct; with any shared key it is not (run
`same_conversion`). That separates what holds always (`overlap`) from what
needs distinct requests (`conversions`).

### ProcessShims

`found`, `oldEnv`, `oldCwd` and `oldStdout` are the local variables of the
context managers; `stdout`, `cwd`, `env` and `skip` the shared state. Reading
and setting are separate steps, because `redirect_stdout` reads the stream
before it sets it and `_temporary_env` restores one key after the other.
`Conflicts` are the pairs of requests that no common lock keeps apart; a
configuration allows some of them with `Overlaps`. `sys.stderr` is left out: it
is redirected with `sys.stdout`, by conversions only.

### RulesUpdater

One command at a time, as a user runs it. `content[c]` is the version of the
classifier `c` in the cache, `torn` the classifiers some of whose files are
missing, `meta` the version in `rules_meta.json`. The remote publishes at any
time, so the archive of the main branch may be newer than the `VERSIONS.json`
read before it. `disturbed` records that a command ended while it changed the
cache and none has completed since; properties that need undisturbed changes
say so. The remote is external: a commit's archive is assumed to contain the
version under which the commit is listed, as the repository's own release
workflow makes it.

### ResourceOrder

A resource is reduced to what its place depends on: the names in its `DependsOn`
and the references in its properties, each with whether it stands inside a dict
with one key (`single`), since `Property.get_depends_on_set` does not descend
into those. `AddEdges` is one turn of the loop of `as_dict`. The recursion of
`_topo_sort` is a stack of calls: `VisitVertex` and `VisitDependency` call,
`Return` appends and returns. The code follows the order of the keys, and of the
sorted names; the model any order, so what holds of it holds however the
template is written. `Graph.visited` is two variables, its keys (`vertices`) and
those that are True (`visited`); the key `None`, which stands for no dependency
and is never visited, is left out.

### TerraformTemplate

`tf` says where the conversion is: `load`, `parse`, `transform`, `save`, then
`saved` or `failed`. `GetPlanData` chooses the plan (the instances of each
resource), the resources whose type has a rule, the declared resources, and
whether the configuration could be read or had to be rebuilt from the plan
(`fallback`). The plan and the configuration are chosen independently: a user
may give a plan that is not of this configuration. `ParseResource` chooses the
body of one resource when its turn comes; a body only matters then. An address
is a pair of name and index, `NoIndex` for a resource without `count` or
`for_each`.

Of a body there are `depends_on`, the expressions of attributes without a
planned value, and whether there is something the code cannot read. The kinds of
expressions are those `_parse_source_expr` tells apart; `FromPlan` is what is
left of them in the plan's configuration. `GetAtt` is `_transform_func_get_att`,
where `AttributeTo` is what the rules make of an attribute. `PropRules` are the
ways a rule treats a value: as it is, inside a function, dropped, or as a list
or dict of further properties, where a value of another form ends the conversion
(`Breaks`). Values known to the plan are copied and left out here.

### CloudFormationTemplate

`cf` is the loop the conversion is in: `convert` goes through the resources of
the source (`pending`), `handle` calls the handlers remembered meanwhile
(`toHandle`). A resource of the source is of a kind: without a rule, with a rule
of a plain type, with a target type a handler looks at, or with a handler of its
own. An attachment has no target type: it is not written, and
`MergeAttachment` gives its `VpcId` to the gateway it names. `vpc` remembers
whose `VpcId` a gateway has; `WriteTemplate` turns that into references, and
fails if there was none to give, since the property is then `None`.
`SplitNatGateway` adds the association, `Add` replaces what has its name. The
model takes the resources and the handlers in any order. Parameters, mappings,
conditions, outputs and metadata are copied entry by entry, and what may go
wrong there ends the conversion (`RefuseSource`).

### RosTemplate

`ros` is the section that `ROS2TerraformTemplate.transform` comes to next:
conditions, then parameters (and mappings), resources, the resources found
inside their properties, and with the outputs done, `save`. What it makes are
the `blocks` of the configuration, by address. The same name is made twice, when
the block is made and when something refers to it, by different code and at
different moments; so an address says how it was made: the section, the target
types, the name in the source, and what is added to it (`as`). A name that is a
key of Terraform's, and the data source behind a pseudo parameter, get a uuid
when they are first asked for; `minted` stands for `tf_parameters`,
`data_for_pseudo_param` and `image_data_sources`, which remember it.

A value is reduced to the function calls in it, and a call to what it is about.
`CallRef` is what the functions of `functions.py` make of one, with `how` the
reference is written: `one` with an attribute, `every` with `[*]` (the resource
has a Count or a Condition), `builtIn` by a rule's own text, or `whole`. What
cannot be resolved becomes a comment (`Unresolved`): what has no rule, and the
functions that Terraform has nothing for, `Fn::Calculate` and the like
(`Unsupported`). So does the whole value it stands in (`IsComment`), but for a
condition or a Count, of which it becomes a part (`RefsIn`); calls after it are made or not, depending on where they stand, which
`Resolves` leaves open. Of a list that a rule turns into resources one item
stands for all. `Stray` are the references for which the code makes an address
that no block can have; see the end of this page.

### ExcelTemplate

`LoadSheet` is the workbook and the check of its columns; then one action per
kind of row, as the branches of the loop over the rows have it, until `Resolve`.
A row is what its first cell is (`is`), the name in it (`path`), and the cells of
the other columns. Each of these columns is a template, with a `current` resource
of its own. A row is chosen when it is read, so every sheet of up to `MaxRows`
rows is. `read` is a history variable, from which the property derives what
each column must contain without the scanner's `section` and `current`.

A value is a tree: what there is at each path into it, `"dict"`, `"list"` or a
cell. `StepsOf` parses a name into keys and indexes, `CannotPut` is the three
exceptions of `Properties.resolve`, `PutAt` the rest of it. A key is replaced, an
item of a list is not (`resolve` appends only beyond the end). A part of a
name has one index at most; what a parameter's type is, is left out.

### TransformStream

The state of one request `s`: the coroutine `worker()`, the thread of
`asyncio.to_thread`, what that thread has handed to the event loop with
`call_soon_threadsafe` (`ready`), the `asyncio.Queue` (`queue`), the generator
`event_gen()`, and what is on its way to the client (`wire`) or has arrived
(`got`). `OnLog` is a line of the log, `Return` the end of the conversion: its
outcome goes through `ready`, too, since setting the worker's future is a
callback of the loop. `RunCallback` runs the next callback: a line goes into the
queue, an outcome wakes the worker, which puts it there. (Two turns of the loop,
taken as one: no callback of this request can come between, the thread has
returned.) `Yield` is one turn of the generator, and closes the response after
the outcome. `Cancel` is what the framework does when the client has left:
the generator is cancelled in `queue.get()` or a `yield`, the `await task` of its
`finally` passes that on to the worker, the thread goes on. `Exit` is
`server stop`. The lines are numbered, their text left out. The event loop, the
connection and the browser's end of it are external.

### Playground

An event handler of the page runs to its end or to its first `await` without
interruption: `ClickTransform` is `runTransform` up to `fetch`,
`ResponseArrives`, `Dispatch`, `StreamEnds`, `StreamBreaks` and `RequestFails`
are the rest. In between the user may change the formats, pick an example whose
content arrives later (`fetching`), load files, or clear the log: nothing but
the two buttons is disabled. `changed` is a history variable: whether the
formats have changed since the conversion began. Of a result there is what it
was asked for. The content of the editor and of uploads is abstracted,
and with it which of them `buildFiles` takes; an empty source ends the handler
before anything changes that the model has. `Reload` is external; without it
there would be no way out of `StreamBreaks`, after which `running` stays true.

### SourcePane

The other half of the same page: what `Playground` abstracts as the content.
`ingest` and `loadExample` have two actions each, up to what they await and
after it; `awaited` and `ingests` are what is on its way. A text is the example
it came from and whether it is blank, a file its path. `BuildTree` is `buildTree`
with its nodes by path and its buckets' inherited names; `Listed` is what
`FileTree` then offers. History variables say what the user chose last
(`choice`), whether something else was still awaited then (`overlapped`), and
whether the selected example failed to load (`lost`). Of a conversion there is
only that it is answered or not.

### SitePlayground

A job is one call of `run`, a component one mounting of the page: a job goes on
when its component has gone, since nothing cancels it. `job[j].at` is the
`await` it is in: `runtime` (`ensureRuntime`), `python` (`runPythonAsync`, which
evaluates later), `evaluated` (the `finally`). `runtime[m]` is how far the promise
of component `m` is, `script` the promise that all components share.
`payload[m]` is the one global `payload_json`: two jobs of a component can be
under way once a choice resets `status`, and then share it. `disturbed` is a
history variable, true from such a choice on. Python itself is `Handle`: an
answer of the payload it is given.

### LocaleRedirect

`runBrowserLocaleRedirect` runs in one go when a document is loaded, so each of
its outcomes is one action: `LoadLocalized`, `LoadAsItIs`, `BeginRedirect`. The
browser then follows the redirect or is stopped, and the visitor opens addresses
or follows links; these are external. Languages and path segments are words, with
the subtags `normalizeLanguage` leaves of them. `chain` and `settled` are history
variables: the redirects since an address was opened, and whether a localized
page was loaded or a redirect begun.

### ServerLifecycle

A command is the sequence of its system calls: read the file, probe the
process, then spawn, open and write, or signal, poll and unlink; commands in
two shells and the processes interleave between them. `process[p]` is a
server (`starting`, `serving`, `ending`), `another` program, or `none`; a server
that is told to end does so when its connections have. `muddled` is a history
variable: two commands were under way at once, or one was killed, and a server
has run ever since. Binding, crashes, other programs and the reuse of pids are the
operating system's.

## What TLC checks

| run | instance | shows |
|---|---|---|
| `conversions` | 2 threads, 2 distinct keys, room for 2 | right answers, no spurious failures, reuse, the refinement, every request ends |
| `overlap` | 2 threads, 2 keys, room for 1, everything may overlap | after any overlap or kill a request that runs alone is served from whole inputs and leaves the cache within its bound |
| `one_at_a_time` | 1 thread, 3 keys, room for 2 | only results that enough others were used after are evicted; projects that a kill left without their time are excepted, and count as used later |
| `same_conversion` | 2 threads, 1 shared key | **violated**: a client gets targets converted from less than its sources |
| `rules_meanwhile` | 2 threads, /rules beside a conversion | **violated**: the rules end in the conversion's log |
| `two_validations` | 2 threads, both validate | **violated**: a validation runs without the keys it detected |
| `command_line` | `rules`: 2 classifiers, 3 versions, 5 retries; `server`: 2 shells, 2 pids, 2 polls; requests: 3 threads, every kind | version shown is version loaded; what an update answers is installed; the server that runs is on record, and `stop` ends it; every command ends; outputs whole, process restored, own context, keys attributed to their source |
| `interrupted_update` | 2 classifiers, 2 versions | **violated**: rules said to be up-to-date are missing |
| `templates` | formatting any template of up to 3 resources; converting any configuration of 2 Terraform resources with 0, 1 or 2 instances, any template of up to 3 CloudFormation resources, ROS templates of up to 2 resources with a Count, an output and a condition, or any sheet of up to 4 rows with 2 templates | each resource is written once and after its dependencies; one resource per instance, no dangling reference; nothing lost or invented, every VpcId at its gateway; every block a reference names is declared, with a count exactly if the reference says so; every cell in its place |
| `pages` | the web UI with 2 requests of up to 2 lines, 2 source formats, 1 example, the server stopped and started; its sources with 4 formats, 2 examples, 3 selections; the website's playground with 2 mountings and 2 calls; its pages in 2 languages for 39 browsers | events in order and whole, valid formats, one log, the result shown is what was asked for, a conversion ends; the source shown is the last chosen, every file is listed; an answer is of its payload, `busy` ends; one redirect, in the right language, not against a choice |
| `documented_order` | as `templates` | **violated**: a reference inside a function does not count for the order |
| `documented_blocks` | as `templates` | **violated**: a resource below a blank row of its block is in no template |

Why the bounds are enough. Two threads show every interference of a pair; three
(in `command_line`) show a stream restored out of order by a third. Eviction needs more
projects than room: 2 over 1, and 3 over 2 to tell the oldest from the newest.
Three versions are needed for one to be published between the two downloads of
an update over an older cache; two classifiers for a copy that stopped between
them. Five retries are the code's own constant. No counter is unbounded:
`latest` stops at `MaxVersion`, `attempt` at `MaxRetries`.

Types are proved wherever a module has proofs, and the proofs' invariants imply
them, so no run spends its time on them.

In `templates` a resource of a formatted template has up to two names in its
`DependsOn`, or one reference: with three resources that has every cycle, chain,
fork and dangling name. A converted resource has one expression of any kind, a
`depends_on`, or something unreadable: expressions of one body do not act on
each other. Two instances tell `count` from a single resource and let an index
be beyond them. Three CloudFormation resources are a gateway with two
attachments, or an attachment with two gateways; `AssociationId` takes one name
to the next, so an association may have the name of a gateway or of another
gateway that is split. The names `a`, `b` and `x`, `y`, `z` are symmetric: no constant
distinguishes them.

Of the resources of a ROS template one has any property, with or without a
count and a condition, beside one with any rule: no target, one, or two with a
built-in property. A reference involves one block that refers and one that is
referred to; a third resource would only repeat one of them. The name `r` is both
a parameter and a key of Terraform's, `g` a resource and such a key, and the
condition `d` one that `camel_to_tf` changes: the cases in which a name is not
used as it is.

A sheet of four rows has a section, a resource and two properties, a
parameter section or a blank row between them, or a resource declared twice. Of
names there are the ones that conflict, as key, list or map, at the first level
or below. Its widths are 1, 3 and 7: too few, two templates, and too many.

In `command_line` two shells show every interference of a pair of commands, and
two pids a server started beside another, or a pid given away. The 50 polls of
`stop` are two: the first may find the server ended, and after the last it
is killed. The updater, the server's commands and the shims share no state, so a
behaviour is of one of them (`ServerUnused`, `ShimsUnused`). A host has a file with
keys or those of the Aliyun CLI, or neither: beside the CLI's a file is not looked at.

`pages` has four kinds of session, which share no state either, so their states
add up; `PagesNext` says so. For the web UI two requests are needed for one to leave something behind for
the other, two lines for an order among them, and two source formats, `ros` and
another, for a target that is valid for one only; `"yaml"` stands for `"json"`,
which the page treats alike. Three bounds keep it small: a page reloaded while it
converted does not convert again (`OneAbandoned`), since what is left of that
request only acts on its own state; `r1` is sent before `r2` (`InTurn`),
since nothing tells them apart; and the second request logs one line (`OneLine`),
enough to mix two logs. The proofs have none of them.

For its sources there are a format whose files are filtered, one that takes
uploads only, one that can be formatted and one that cannot. A folder has what
Terraform keeps beside its sources, two files of one name and a name that objects
inherit. `MaxAwaited` lets one example of each name and one selection be awaited,
which is enough for any two to arrive in either order; what is awaited arrives before
a conversion begins or after it ends (`ConvertsAlone`), since conversions
only read the source as they begin.

For the website's playground two calls are what it takes to share
`payload_json`, and two mountings for a call to answer a component that has gone.
One call at most may be left behind (`LeavesOne`), the first of two equal calls
or mountings is named first (`SiteInTurn`), and a text that Python refuses is
converted to one target format (`OwnTextToAuto`). Languages are the locales, each
of their spellings that `normalizeLanguage` or the primary subtag treats
differently, one the site does not have, and none; a browser names up to two.

Deadlock is checked in every run but `templates`, `documented_order` and
`documented_blocks`, where a behaviour is one command, which ends.

**Fairness.** `TransformService!Fairness` is weak fairness of each thread's
steps (an operating system thread that can run does) and strong fairness of
taking the lock: `threading.RLock` is not first-come-first-served, but a waiter
is woken whenever it is released, and misses it only while others keep arriving
at the same instant. Each conversion is assumed to end: `terraform plan` is
external. No fairness is assumed of arrivals or restarts. In `RulesUpdater`, a
command that is not interrupted goes on, since each HTTP attempt has a timeout
of 180 seconds; interruptions, disk errors and publications are not fair. In `Playground` the
event loop runs what it is handed, the browser resolves what it awaits, and a
conversion ends, as above; the framework answers each request. Nothing is assumed of the user, of the
server's being stopped or started, of lines being logged, or of when a client that left is noticed.
So a conversion ends, or its connection breaks and the page waits for ever: that is
how `ConversionEnds` is stated. `SitePlayground!SiteFairness` is one weak fairness
of everything the browser does: downloads end, well or not, and the event loop
runs what is ready. `ServerLifecycle!ServerFairness` is weak fairness of each
shell's command, and nothing of the server: `stop` must end whether the server does
or not. Nothing is assumed of the visitor, or of the scripts of `LocaleRedirect` and
`SourcePane`, which have no liveness property.

## What TLAPS proves

For all values of the constants that satisfy the modules' assumptions:

* `TransformServiceProofs!TypeCorrect`, `LockExclusive`: types, and
  `transformLock = t` exactly while `t` is between taking and releasing it.
  The lock invariant is inductive together with the types.
* `TransformServiceProofs`, under `Isolated` (no shared keys, and no more keys
  than the cache has room for): `RightAnswers`, `NoFailureOfItsOwn`,
  `SavedIsReusedAlways` and `Implementation`. `AnswersAreRight` alone is not
  inductive: nothing in it says that the inputs a thread wrote are still whole
  when it converts them. `IsolatedInv` adds, per thread, what it has made so far
  and that it is undisturbed, that no thread is inside an eviction, and that a
  result on disk is right or truncated. The proof needs that a step of one
  thread leaves the project of every other alone (`ControlIsLocal`), then goes
  through the steps one group at a time. `Implementation` maps writing
  `result.json` to `Publish`, replies to `Serve` or `Refuse`, everything else to
  a stutter.
* `TransformServiceProofs!CleanedUpAlone`, `SoloServedAlways`: for any requests,
  shared keys and kills, and a cache of any size, of a request that runs alone.
  `SoloInv` has three parts. `Ranked`: `older` orders the projects on disk,
  by their times, torn metadata included.
  `SoloFiles`: what that request has made is there, although nothing is known of
  the rest of the disk. `SoloEvicts`: in the middle of an eviction, those left and
  those still to be removed are what `Victims` tells apart; so the project being
  used, which is the newest, is not among the latter. `VictimsAre` says that
  what `evict` keeps has room in the cache and is newer than what it removes, which
  is a count of the projects newer than each (`NewerGrows`).
* `TransformServiceProofs!RecentKept`: with a single thread (`OneAtATime`, as the run
  has it), for any keys and cache size, over `RecentUse`. `Kept` relates
  the disk to the history: of two projects whose metadata is whole, the one that the
  disk puts first was used first (`Told`); a project without is torn or in hand
  (`Known`); and the one in hand was used last (`LastUsed`). What `evict` keeps is
  newer than its victim by the disk (`SoloInv`), so each of these `MaxProjects` was
  used after it or is torn.
* `ProcessShimsProofs!TypeCorrect`, `OwnContext`: even with every overlap
  allowed, a conversion runs in its own directory and environment, since all who
  write those hold `_transform_lock`. `ContextInv` says step by step what the
  holder has changed and that the process is as at the start when the lock is
  free; /rules only disturbs `stdout`, which the invariant does not mention.
* `ProcessShimsProofs!WholeReplies`, `ProcessRestored`: for any overlaps but those
  of `rules_meanwhile`, where a /rules request runs beside a conversion
  (`RulesApart`). `StreamInv` follows `sys.stdout`: its holder found the server's
  stream, it is the holder's own from redirecting to restoring, and each log has
  exactly the lines its own thread has printed (`Printed`).
* `ProcessShimsProofs!TrueSource`, `KeysForValidation`: for any overlaps but those
  of `two_validations` (`DetectionApart`). Only a validation puts keys of its own into the
  environment, and `SourceInv` says that nobody then looks for credentials; with
  `ContextInv`, what is found is the server's and is still there when the validation
  has the lock.
* `CommandLineProofs!TypeCorrect`, `ActiveRules`, `InstalledRules`: `CacheInv`
  adds what the running command has done so far (`Halfway`) and that outside the
  changing steps the cache is coherent unless disturbed. `InstalledRules` is about
  the answer: what an update says it installed, or found up-to-date, is in the cache.
* `CommandLineProofs!RecordedServer`, `StoppedServer`: for any shells and pids, unless
  two commands overlapped or one was killed (`muddled`).
  `ServerInv` says, unless `muddled`, that one command at most is under way and that
  a server is known (`KnownBy`): no command is about to spawn another or to remove the
  file, the one under way has the server's pid in hand, and unless that is about to
  be written it is in the file.

* `ToRosProofs!NothingLost`, `RecursionIsBounded`, `DependencyOrder`: for
  any set of templates. None is inductive alone. `OrderInv` adds where a vertex
  is (`PlacesInv`: visited means on the stack or in `sorted`, not both and in one
  place), that the graph holds exactly the edges read so far (`GraphInv`), and
  that a resource on the stack reaches every one above it (`PathInv`). So a dependency
  that is visited but not written when its dependent is appended is on the stack
  below it, hence reaches it: the two are on a cycle. `Reaches` is stated with closed sets, since a recursive definition could
  not be used in a proof.
* `ToRosProofs!NoDanglingReference`, `WrittenInstances`,
  `ConversionInOrder`: for any configuration, plan and rules. `ProgressInv` says
  which instances are parsed and converted as far as each loop has come.
  `RefersInv` says that a parsed expression refers to one instance of a declared
  resource, and a converted one to a planned instance of a declared resource
  with a rule; those are what is written once the loops are over. This needs that
  Terraform refuses a configuration that refers to what it does not declare
  (`WellFormed`, `Refers`). `ConversionInOrder` carries `OrderInv` over: the
  conversion only begins the order and leaves its variables alone otherwise.
* `ToRosProofs!ConversionIsComplete`, `AttachmentsReachGateways`,
  `CfInOrder`: for any set of templates. `CfInv` says of each moment what the
  properties say of the end: `MadeInv` which resources and associations there
  are so far, `AttachedInv` that a gateway has a `VpcId` as soon as the handler
  of one of its attachments was called, `LoopsInv` that no handler is called
  before every resource is converted, without which an attachment could miss
  its gateway. They need that two names never have the same association
  (`CfAssumption`), which holds of a suffix.

* `RosTemplateProofs!NoUndeclaredReference`, `AllConverted`: for any templates
  and rules. `RosInv` says what has been made so far (`LocalsMade`, `VariablesMade`,
  `ResourcesMade`, ...), and of every reference in a block that it is to something
  which is there or will be by the time the configuration is written (`Kept`), those
  in a Count and in a condition included, where a comment becomes a part of the
  value and the references beside it stay (`RefsIn`). A name
  is made twice; the two agree because a uuid, once minted, is never
  minted again (`Named`), and because `inside` only holds items whose names
  were asked for when they were found (`Settled`). Attempting the proof showed that
  the assumptions on templates were too weak: without them a condition might refer
  to a resource, or to a condition that is not in the template, which ROS refuses and
  the model gave a reference without a block. `RosAssumption` now says what a valid
  template is.

* `PlaygroundProofs!EventsInOrder`, `OnlyValidCombinations`, `OneLogAtATime`,
  `ShownIsAsked`: for any number of requests and lines, any formats and examples,
  and a server stopped at any time. `StreamIsWhole` speaks of the client's end
  only. `Flow` says of every place an event passes, `ready`, `queue`, `wire`,
  `got`, that what is there comes next after what is in the places beyond it
  (`InOrder`), and of an open connection that nothing is missing (`Underway`).
  Each action is first a lemma about sequences: an event moves from the front of
  one to the end of the next. `ConsoleInv` says that the last line shown is the
  last one received; with `EventsInOrder` the next one continues it.
  `AwaitedInv` says what a conversion under way may show.

* `PagesProofs!SiteTypeCorrect`, `OneRuntime`, `OwnAnswer`: for any
  components, calls, formats and texts. `SiteInv` says that a component has called
  `loadRuntime` as often as its runtime says (once or not at all, `LoadsCounted`),
  and that until a choice disturbs it a call keeps the page busy, is alone on its
  component, asked for what is selected, and finds its own payload at every
  step (`OneCall`). Calls of components that have gone are not on the page; they
  disturb nothing, since each component has globals of its own.

* `PagesProofs!OneRedirect`, `LocaleOfVisitor`, `ChoiceIsKept`: for any browsers,
  addresses and words. Most of it is about functions: what `matchLocale` finds is of the
  same primary subtag (`MatchIsOfPrimary`), the preferred locale is that of the
  first language the site has (`PreferredIsFirst`), and where a redirect leads is
  localized (`RedirectIsLocalized`), so it is not redirected again. `LocaleInv` then
  says what storage, `chain` and `settled` have to do with each other.
* `PagesProofs!NamedExample`, `ShownChoice`: for any examples, formats, selections
  and results. The properties say nothing while something is awaited, so they are
  not inductive; `PaneInv` adds that what was chosen last, if nothing was awaited
  then, is awaited itself and nothing else is, or it is shown (`FilesHold`,
  `ExampleHolds`).
* `PagesProofs!EveryFileShown`: for file lists of any length, in any order. `TreeOf` says
  of the tree after each file what nodes it has and that each of the files so far is a
  leaf below folders. That is an induction over the files, which the library's
  theorems cannot be used for here; `UpTo` takes its place. Natural numbers are well
  founded, so a set that 0 is in, and with each number the next, has no least number
  missing (`WFMin`, a theorem about sets). `FoldLeft` chooses a function that
  satisfies its equation; `FoldIsThere` proves by `UpTo` that there is one. The
  files are of one file system, which `PaneAssumption` states: none of them is a folder of
  another, for which the tree would be wrong, and none could be uploaded so.

* `ExcelProofs!EveryCellPlaced`: for sheets of any rows and columns. The property is
  about the end, where it compares what was made with the rows that were read.
  `ScanInv` has the same comparison for every moment of the scan: the section is the
  one that the rows above say (`SheetInv`), the current resources are the cells of the
  latest row that declares (`CurrentInv`), and the properties kept of a resource
  are the rows below its last declaration, each name once, with its latest cell
  (`ColumnInv`, `PropsOf`). A row either declares (`ResourceRow`), or belongs to the one
  resource of each column that goes on (`PropertyRow`, `WhoGoesOn`), or changes
  neither (`QuietRow`). What `Properties.resolve` makes of the properties is
  `ResolvedIs`, an induction over them by `UpTo`: `PutAt` leaves every place alone that
  is not inside its own (`PutIs`), and below it only puts containers.
  Attempting the proof showed that the property was wrong, not the code: a row of a
  resource type that does not exist, with no cell filled in, is not refused and still
  ends the resource above it. `Declares` now counts it, and the run has such a row.

Only model-checked: liveness (`EveryRequestEnds`, `EveryCommandEnds`,
`EveryServerCommandEnds`, `ConversionEnds`, `BusyEnds`), which is beyond the prover.
Every other property of a passing run is a theorem.

Two of these proofs rest on what a definition says to the prover. tlapm reads
`UNION A \cup B` as the union of both, TLC as that of `A` alone, so `TargetRefs` has
parentheses. And it does not expand `SelectSeq`, so `ingest`'s filter, which a theorem
is about, is a fold.

## What the violated runs show

1. `service.py:612`: `prepare_project` and `_collect_outputs` are outside
   `_transform_lock`, so of two identical requests one clears or truncates what
   the other converts; the wrong result is saved and served from then on.
2. `service.py:735`: `_rules_lock` and `_transform_lock` guard the same
   `sys.stdout`.
3. `service.py:523`: credentials are detected before the lock is taken, among
   keys another request has injected and will remove.
4. `rules_updater.py:317`: the up-to-date check trusts `rules_meta.json`, which
   an interrupted update leaves naming rules that are gone.
5. `properties.py:61`: a dict with one key is compared with a reference and not
   descended into, so what a function call refers to does not count for the
   order that the documentation promises.
6. `excel/template.py:77`: a section ends at a blank row, where the documentation has
   a block go on until the next is declared; what is below, resources and parameters,
   is skipped without a word. `EveryCellInItsPlace` takes the sections as the code
   does, so it holds of such sheets; `BlocksAsDocumented` is the rule of the
   documentation, and is violated.

## Not modelled, and the plan

Not modelled because there is nothing to check in them that order or state
could break, or because it is someone else's code: formatting and YAML, the
reporter, the rule files, the rule generators and coverage tools, the compatible
mode of the Terraform conversion (which wraps the files as they are), the static
pages and metadata endpoints, Docusaurus, Pyodide, `terraform` itself. Of the pages
that are modelled: copying, downloading, dragging, collapsing, the options sent
along, and which example the website's playground names as selected.

Assumptions the models make of code that is modelled: one `rules` command at a
time; sources are small enough to be one file per project (several files are
several `TruncateIn`/`WriteIn` pairs, whose partial effects `partial` covers);
one target file (several are covered in the same way).

Things the conversions' models show that no document speaks of, and so no
property states: `DependsOn` of a counted, unsupported or data resource, or of
an attachment, names what is not written; in a counted resource every indexed
reference takes the resource's own index; an attachment without a `VpcId` makes
saving fail; and an association takes the place of a resource that has its
name. The page's model shows one more: when the connection breaks in the middle
of a stream, `reader.read()` rejects, nothing catches that
(`frontend/src/App.tsx:226`), and both buttons stay disabled until the page is
reloaded.

Of the newer models:

- `ServerLifecycle`: `start` takes any live process with the recorded pid for the
  server and refuses, `stop` signals it and in the end kills it
  (`cli/__main__.py:634`); "Server started" is printed although the process may
  then fail to bind; two `start`s at once, or one killed between `Popen` and the
  write, leave a server that is not on record. `ServerIsRecorded` says so with
  `muddled`.
- `SourcePane`: whatever is awaited replaces what was chosen meanwhile
  (`LastChoiceShown` says so with `overlapped`); files read late arrive under
  another format than the one they were filtered for; the list goes on naming an
  example whose fetch failed; a blank source sets an error and leaves the old
  status; a file below a folder called like a property that objects inherit
  (`constructor`) vanishes from the tree; the error for no Terraform files in
  `ingest` cannot be reached.
- `SitePlayground`: a choice made while a call is under way ends `busy`, and a
  second call then shares `payload_json` with the first: either may get the answer
  of the other, or an error because the name is gone. A failed load stays
  in `runtimeRef`, so nothing works until the page is left; a failed script, until
  it is reloaded.
- `LocaleRedirect`: where `setItem` throws, a choice of English is overridden at each
  load; a redirect that is interrupted is not tried again.
- `ExcelTemplate`: a row of a resource type is only
  validated where a column has a cell in it, so one without any, of whatever type,
  ends the resource above and the properties below it are dropped
  (`template.py:112`); the check for a section declared twice
  (`template.py:85`) cannot fire; a name of a single part, `A[0]`, stays a key as it
  is; an empty cell is written as `null` under a dotted name, as `{}` for an item of
  a list, and left out under a plain one.

`RosTemplate` shows the most of these, under `rostran/providers/ros`.
`ReferencesDeclared` excepts the first three as `Stray`, and the fourth because
it asks nothing of `builtIn` but the block:

- a reference to a resource with several targets lists its types where one
  belongs, and leaves out the suffix that tells the blocks apart;
- `if_` names the condition as it is written, the block is named by
  `camel_to_tf` (`functions.py:130`);
- a `Ref` to a resource whose name is a key of Terraform's goes through
  `get_tf_params`, and gets the suffix of a parameter (`functions.py:59`);
- a built-in property refers to a counted resource without `[*]`
  (`template.py:615`);
- a Count or a condition that becomes a comment is written as one, `count = // ...`
  (`template.py:647`), which Terraform does not read;
- conditions are converted before the mappings have their name, so
  `Fn::FindInMap` in a condition does not become a reference
  (`template.py:395`);
- files of an earlier `--force`d conversion stay when their section is empty now
  (`template.py:265`).

Next, in order:

1. The rules and the project cache together: `key_for` has no version of the rules,
   so a saved result outlives an update (`web/service.py:141`).
2. The other sections of a CloudFormation template, if they get handlers of their
   own; names of several indexes in `ExcelTemplate`.
