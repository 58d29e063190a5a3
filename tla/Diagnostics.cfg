\* Two documents (the record order of a run matters), versions up to 2 and
\* two updates, so that a run is superseded while an older one of another
\* kind still publishes, and a document keeps its version across runs.
\* No symmetry: a temporal property is checked.
CONSTANTS
  Specs = {s1, s2}
  MaxVer = 2
  MaxUpdates = 2
SPECIFICATION Spec
INVARIANT NoDuplicateDiagnostics
PROPERTY PublishedVersionsMonotonic Converges
\* An idle language server waits for the next didChange: not a deadlock.
CHECK_DEADLOCK FALSE
