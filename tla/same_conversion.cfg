\* Two clients ask for the same conversion at once.
CONSTANTS
  Threads = {t1, t2}
  Keys = {k1}
  MaxProjects = 1
  SharedKeys = {k1}
  NoThread = NoThread
  NoKey = NoKey
SPECIFICATION Spec
INVARIANT AnswersAreRight
