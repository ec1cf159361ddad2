SPECIFICATION PagesSpec
CONSTANTS
  ex = ex
  r1 = r1
  r2 = r2
  Requests = {r1, r2}
  MaxLines = 2
  Sources = {"cloudformation", "ros"}
  Examples = {ex}
  FormatOf <- MCFormatOf
  m1 = m1
  m2 = m2
  j1 = j1
  j2 = j2
  Components = {m1, m2}
  Jobs = {j1, j2}
  None = None
  Formats = {"cloudformation"}
  TargetKinds = {"auto", "json"}
  Texts = {"example", "own"}
  Convertible = {"example"}
  Words = {"", "usage", "zh-cn", "ZH_CN", "zh", "zh-Hans-CN", "en", "en-US", "fr"}
  Subtags <- MCSubtags
  Addresses <- MCAddresses
  Navigators <- MCNavigators
  e1 = e1
  e2 = e2
  PaneFormats = {"cloudformation", "terraform", "excel", "ros"}
  PaneExamples = {e1, e2}
  ExampleOf <- MCExampleOf
  Selections <- MCSelections
  Results <- MCResults
  Kind <- MCKind
  Inherited = {"constructor"}
  MaxAwaited = 1
INVARIANTS
  StreamIsWhole
  ValidCombination
  LogIsOfOneRun
  ShownAgrees
  AnswerIsOfItsPayload
  NoRedirectLoop
  RightLocale
  LastChoiceShown
  ExampleNamed
  EveryFileListed
PROPERTIES
  ConversionEnds
  BusyEnds
  ChoiceKept
