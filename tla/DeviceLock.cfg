\* Two requests at a time; two phones; a phone is replaced once.
SPECIFICATION Spec
CONSTANTS
  Workers = {w1, w2}
  Fingerprints = {f1, f2}
  MaxDevices = 2
PROPERTIES BindNeverSeesReleasedLock
CHECK_DEADLOCK FALSE
