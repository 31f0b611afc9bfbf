\* Two addresses, two calls at a time, one form at a time, two codes.
CONSTANTS
  e1 = e1
  e2 = e2
  k1 = k1
  k2 = k2
  f1 = f1
  NoCode = NoCode
  Emails = {e1, e2}
  Calls = {k1, k2}
  Forms = {f1}
  MaxCodes = 2
SPECIFICATION VerifyFairSpec
INVARIANTS OnlyStoredMailed ChangedWithMailedCode UnlimitedOnlyByFailure
PROPERTIES ReplacedOnlyByOverlap EveryCallAnswered
CHECK_DEADLOCK FALSE
