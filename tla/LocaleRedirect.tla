---------------------------- MODULE LocaleRedirect ----------------------------
(***************************************************************************)
(* The client module of the documentation website that leads a visitor to  *)
(* the pages in his language, website/src/clientModules/localeRedirect.mjs,*)
(* in one tab of a browser.  It runs once each time a document is loaded,  *)
(* and not when Docusaurus follows a link within the pages of a locale.    *)
(*                                                                         *)
(* An address is whether it is below BASE_URL, and the segments of its path*)
(* there; its search and hash go with it.  A word, a segment or a language,*)
(* has the subtags that normalizeLanguage leaves of it.                    *)
(***************************************************************************)
EXTENDS Sequences, Integers

CONSTANTS
  Words,       \* segments of paths, and languages of browsers
  Subtags,     \* the subtags of each word; a blank one has none
  Addresses,   \* the addresses a visitor opens
  Navigators   \* navigator of the browsers: languages and language

BlankWord == ""

ASSUME LocaleAssumption ==
  /\ {BlankWord, "en", "zh-cn"} \subseteq Words
  /\ Subtags \in [Words -> Seq(STRING)]
  /\ Subtags[BlankWord] = <<>>
  /\ Subtags["en"] = <<"en">> /\ Subtags["zh-cn"] = <<"zh", "cn">>
  /\ Addresses \subseteq [inBase : BOOLEAN, path : Seq(Words)]
  /\ Navigators \subseteq [languages : Seq(Words), language : Words]

\* SUPPORTED_LOCALES; the first is DEFAULT_LOCALE.
SupportedLocales == <<"en", "zh-cn">>
DefaultLocale == SupportedLocales[1]
LocaleSubtags == [i \in DOMAIN SupportedLocales |-> Subtags[SupportedLocales[i]]]

NoAddress == [inBase |-> FALSE, path |-> <<>>]

VARIABLES
  tab,        \* the document: "blank", "loading", "shown", or "leaving" it
  address,    \* location
  goal,       \* where location.replace goes
  redirected, \* the value under REDIRECT_SESSION_KEY
  storage,    \* what sessionStorage does: "works", "full", or "none" is there
  navigator,  \* window.navigator
  chain,      \* history: the redirects since the visitor opened an address
  settled     \* history: a localized page was loaded, or a redirect begun

localeVars ==
  <<tab, address, goal, redirected, storage, navigator, chain, settled>>

LocaleInit ==
  /\ tab = "blank"
  /\ address = NoAddress /\ goal = NoAddress
  /\ redirected = FALSE
  /\ storage \in {"works", "full", "none"}
  /\ navigator \in Navigators
  /\ chain = 0 /\ settled = FALSE

----------------------------------------------------------------------------
FirstWord(u) == IF u.path = <<>> THEN BlankWord ELSE Head(u.path)

\* Slip: only the root of a locale is localized.
IsLocalizedRoot(u) == u.inBase /\ Len(u.path) = 1 /\ Subtags[FirstWord(u)] = LocaleSubtags[2]

IsLocalized(u) ==
  /\ u.inBase
  /\ \E i \in 2..Len(SupportedLocales) : Subtags[FirstWord(u)] = LocaleSubtags[i]

\* Slip: a language must be a locale letter by letter.
FirstMatchExact(tags) == {i \in DOMAIN SupportedLocales : LocaleSubtags[i] = tags}

\* The locales that match a language: the one it names, or else the ones with
\* its primary subtag.
Matches(tags) ==
  LET direct == {i \in DOMAIN SupportedLocales : LocaleSubtags[i] = tags} IN
  IF tags = <<>> THEN {}
  ELSE IF direct # {} THEN direct
  ELSE {i \in DOMAIN SupportedLocales : LocaleSubtags[i][1] = tags[1]}

First(S) == CHOOSE i \in S : \A j \in S : i <= j

PreferredLocale(languages) ==
  LET matched == {n \in DOMAIN languages : Matches(Subtags[languages[n]]) # {}} IN
  IF matched = {} THEN DefaultLocale
  ELSE SupportedLocales[First(Matches(Subtags[languages[First(matched)]]))]

BrowserLanguages ==
  IF navigator.languages # <<>> THEN navigator.languages
  ELSE IF navigator.language # BlankWord THEN <<navigator.language>> ELSE <<>>

Redirects(u) ==
  /\ u.inBase
  /\ ~IsLocalized(u)
  /\ PreferredLocale(BrowserLanguages) # DefaultLocale

RedirectUrl(u) ==
  [inBase |-> TRUE, path |-> <<PreferredLocale(BrowserLanguages)>> \o u.path]

HasRedirected == storage # "none" /\ redirected

\* What setItem throws is ignored.
RememberRedirect == redirected' = (redirected \/ storage = "works")

----------------------------------------------------------------------------
\* Slip: a localized page is not remembered.
LoadLocalizedOnly ==
  /\ tab' = "shown"
  /\ settled' = TRUE
  /\ UNCHANGED <<address, goal, redirected, storage, navigator, chain>>

\* runBrowserLocaleRedirect, by what it finds.
LoadLocalized ==
  /\ tab = "loading"
  /\ IsLocalized(address)
  /\ RememberRedirect
  /\ tab' = "shown"
  /\ settled' = TRUE
  /\ UNCHANGED <<address, goal, storage, navigator, chain>>

LoadAsItIs ==
  /\ tab = "loading"
  /\ ~IsLocalized(address)
  /\ HasRedirected \/ ~Redirects(address)
  /\ tab' = "shown"
  /\ UNCHANGED <<address, goal, redirected, storage, navigator, chain, settled>>

BeginRedirect ==
  /\ tab = "loading"
  /\ Redirects(address)
  /\ ~HasRedirected
  /\ RememberRedirect
  /\ goal' = RedirectUrl(address)
  /\ tab' = "leaving"
  /\ settled' = TRUE
  /\ UNCHANGED <<address, storage, navigator, chain>>

\* The browser loads what location.replace was given, unless it is stopped.
FollowRedirect ==
  /\ tab = "leaving"
  /\ tab' = "loading"
  /\ address' = goal
  /\ chain' = chain + 1
  /\ UNCHANGED <<goal, redirected, storage, navigator, settled>>

StopLoading ==
  /\ tab = "leaving"
  /\ tab' = "shown"
  /\ UNCHANGED <<address, goal, redirected, storage, navigator, chain, settled>>

\* An address typed, a link from elsewhere, a reload, the localeDropdown.
OpenAddress(u) ==
  /\ tab' = "loading"
  /\ address' = u
  /\ chain' = 0
  /\ UNCHANGED <<goal, redirected, storage, navigator, settled>>

\* A link of a page, to a page of its locale.
FollowLink(u) ==
  /\ tab = "shown"
  /\ address.inBase /\ u.inBase /\ IsLocalized(u) = IsLocalized(address)
  /\ address' = u
  /\ chain' = 0
  /\ UNCHANGED <<tab, goal, redirected, storage, navigator, settled>>

LocaleNext ==
  \/ LoadLocalized
  \/ LoadAsItIs
  \/ BeginRedirect
  \/ FollowRedirect
  \/ StopLoading
  \/ \E u \in Addresses : OpenAddress(u) \/ FollowLink(u)

LocaleSpec == LocaleInit /\ [][LocaleNext]_localeVars

----------------------------------------------------------------------------
\* A redirect leads to a page that is not redirected again, even where nothing
\* can be remembered (isLocalizedPath, getLocaleRedirectUrl).
NoRedirectLoop == chain <= 1

\* Where the session can remember, a visitor is redirected once, and never after
\* he has seen a localized page: he may choose English
\* (runBrowserLocaleRedirect, rememberRedirect).
ChoiceKept ==
  [][storage = "works" /\ settled => ~(tab = "loading" /\ tab' = "leaving")]_localeVars

\* A visitor is shown pages of the default locale only if the first of his
\* languages that the site has is English, or he has been redirected or seen a
\* localized page before (getPreferredLocale).
AsksForChinese ==
  LET spoken == {n \in DOMAIN BrowserLanguages :
                   /\ Subtags[BrowserLanguages[n]] # <<>>
                   /\ Subtags[BrowserLanguages[n]][1] \in {"en", "zh"}} IN
  spoken # {} /\ Subtags[BrowserLanguages[First(spoken)]][1] = "zh"

RightLocale ==
  tab = "shown" /\ address.inBase /\ ~IsLocalized(address) /\ ~settled => ~AsksForChinese
=============================================================================
