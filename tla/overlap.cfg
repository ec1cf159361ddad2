\* Any requests in flight, evicting each other's projects.
CONSTANTS
  Threads = {t1, t2}
  Keys = {k1, k2}
  MaxProjects = 1
  SharedKeys = {k1, k2}
  NoThread = NoThread
  NoKey = NoKey
SPECIFICATION Spec
INVARIANTS CleanedUp
PROPERTY SoloRequestIsServed
SYMMETRY ThreadKeySymmetry
