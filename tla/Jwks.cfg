SPECIFICATION Spec
CONSTANTS
  Caller = {c1, c2}
  Kid = {"a"}
  NoKid = ""
  Key = {"x"}
  None = None
  AlgOf <- MCAlgOf
  Token <- MCToken
  DefaultTTL = 2
  MaxTTL = 2
  MinRefresh = 2
  Timeout = 2
  MaxAge = {1, 3}
  Epoch = 2
  MaxTime = 7
INVARIANTS JwksTypeOK RetiredKeyLapses RotationPickedUp FetchesSpaced
SYMMETRY Callers
