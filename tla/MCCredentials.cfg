CONSTANTS
  c1 = c1
  c2 = c2
  Callers = {c1, c2}
  Kinds = {"codex", "static"}
  MaxTokens = 3
SPECIFICATION Spec
SYMMETRY MCSymmetry
INVARIANTS AuthorizationSound
PROPERTIES CredentialsSafe
