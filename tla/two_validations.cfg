\* Two templates are validated at once.
CONSTANTS
  Threads = {t1, t2}
  NoThread = NoThread
  Overlaps = {{"validate"}}
SPECIFICATION ShimsSpec
INVARIANT ValidatedWithKeys
