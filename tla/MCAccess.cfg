\* Two devices, two master tokens and one envelope that is delivered again.
SPECIFICATION Spec
CONSTANTS
  Devices = {"d1", "d2"}
  Secrets = {s1, s2}
  Envelopes = {"e1"}
  Handlers = {h1, h2}
  NoSecret = none
  Down = down
  KeyOf <- MCKeyOf
  Window = 2
  Fine = 2
  MaxTime = 2
SYMMETRY MCSymmetry
INVARIANTS
  TokensAsTold
  OneMaster
  OneGuard
