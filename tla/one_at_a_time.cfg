\* One request after the other, with restarts in between, over a full cache.
CONSTANTS
  Threads = {t1}
  Keys = {k1, k2, k3}
  MaxProjects = 2
  SharedKeys = {}
  NoThread = NoThread
  NoKey = NoKey
SPECIFICATION UseSpec
PROPERTY RecentResultsStay
SYMMETRY KeySymmetry
