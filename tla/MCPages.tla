------------------------------- MODULE MCPages -------------------------------
(***************************************************************************)
(* The pages a user sees: that of the web service, twice, once with its    *)
(* conversions and once with its sources, the playground of the website,   *)
(* and the pages that choose their language.  A session is of one of them. *)
(***************************************************************************)
EXTENDS MCPlayground, SitePlayground, LocaleRedirect, SourcePane

CONSTANTS
  m1, m2, j1, j2,   \* mountings of the website's playground, and calls of run
  e1, e2            \* examples

\* Bound: of the two calls under way, one may go on in a component that is gone.
LeavesOne == Cardinality({j \in Jobs : job'[j].in \notin {mounted', None}}) <= 1

\* Nothing tells the calls apart, or the components.
SiteInTurn ==
  /\ job[j1] = Idle => job[j2] # Idle \/ job'[j2] = Idle
  /\ mounted = None /\ UnderWay(m1) = {} => mounted' # m2

\* Bound: what the user writes is converted to "auto".
OwnTextToAuto == form'.target = "json" => form'.text # "own"

MCSubtags ==
  [w \in Words |->
     CASE w = "" -> <<>>
       [] w \in {"zh-cn", "ZH_CN"} -> <<"zh", "cn">>
       [] w = "zh-Hans-CN" -> <<"zh", "hans", "cn">>
       [] w = "en-US" -> <<"en", "us">>
       [] OTHER -> <<w>>]

\* A page of each locale, one whose address is not written as the site has it,
\* and one of another site.
MCAddresses ==
  [inBase : {TRUE},
   path : {<<>>, <<"usage">>, <<"zh-cn">>, <<"zh-cn", "usage">>, <<"ZH_CN", "usage">>}]
    \cup {[inBase |-> FALSE, path |-> <<"zh-cn">>]}

MCLanguages == {"", "zh-cn", "zh", "zh-Hans-CN", "en-US", "fr"}

MCNavigators ==
  [languages : {<<>>}, language : {"", "zh-Hans-CN", "en-US"}]
    \cup [languages : {<<v, w>> : v \in MCLanguages, w \in MCLanguages}, language : {"en"}]

MCExampleOf == (e1 :> "terraform") @@ (e2 :> "cloudformation")

MCKind ==
  [n \in {"main.tf", "vars.tf", "m", "lock", "a.xlsx", "a.json", ".terraform", "constructor"} |->
     CASE n \in {"main.tf", "vars.tf"} -> "tf" [] n = "a.xlsx" -> "xlsx" [] OTHER -> "other"]

\* A template, an Excel file, and a folder: what Terraform keeps beside its
\* sources, two files of a name, and a name that objects inherit.
MCSelections ==
  {<< <<"a.json">> >>, << <<"a.xlsx">> >>,
   << <<"m", "lock">>, <<"m", "main.tf">>, <<"main.tf">>, <<"m", ".terraform", "main.tf">>,
      <<"m", "constructor", "vars.tf">> >>}

MCResults == {<< <<"a.json">> >>, << <<"vars.tf">>, <<"m", "main.tf">> >>}

\* Bound: what is awaited arrives before a conversion begins, or after its end.
ConvertsAlone == converting' => ~Awaiting

\* LocaleInit has many states; the other sessions begin in one of them.
LocaleUnused ==
  /\ tab = "blank" /\ storage = "works"
  /\ navigator = [languages |-> <<>>, language |-> ""]

PagesNext ==
  \/ SiteInit /\ LocaleUnused /\ PaneInit /\ MCNext
       /\ UNCHANGED <<siteVars, localeVars, paneVars>>
  \/ PlaygroundInit /\ LocaleUnused /\ PaneInit /\ SiteNext
       /\ LeavesOne /\ SiteInTurn /\ OwnTextToAuto
       /\ UNCHANGED <<pgVars, localeVars, paneVars>>
  \/ PlaygroundInit /\ SiteInit /\ PaneInit /\ LocaleNext
       /\ UNCHANGED <<pgVars, siteVars, paneVars>>
  \/ PlaygroundInit /\ SiteInit /\ LocaleUnused /\ PaneNext /\ ConvertsAlone
       /\ UNCHANGED <<pgVars, siteVars, localeVars>>

PagesInit == PlaygroundInit /\ SiteInit /\ LocaleInit /\ PaneInit

PagesSpec ==
  /\ PagesInit
  /\ [][PagesNext]_<<pgVars, siteVars, localeVars, paneVars>>
  /\ Fairness /\ SiteFairness
=============================================================================
