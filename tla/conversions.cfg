\* Distinct requests in flight and room for all of them.
CONSTANTS
  Threads = {t1, t2}
  Keys = {k1, k2}
  MaxProjects = 2
  SharedKeys = {}
  NoThread = NoThread
  NoKey = NoKey
SPECIFICATION FairSpec
INVARIANTS AnswersAreRight NoSpuriousFailure
PROPERTIES ImplementsConversionService SavedIsReused EveryRequestEnds
