\* An update after one that was interrupted.
CONSTANTS
  Classifiers = {ros, terraform}
  MaxVersion = 2
  MaxRetries = 1
SPECIFICATION Spec
INVARIANT UpToDateIsInstalled
