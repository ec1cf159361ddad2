\* The rules are asked for while a conversion runs.
CONSTANTS
  Threads = {t1, t2}
  NoThread = NoThread
  Overlaps = {{"rules", "convert"}}
SPECIFICATION ShimsSpec
INVARIANT RepliesAreWhole
