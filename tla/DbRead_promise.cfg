\* Two threads read variables and scan a table at the same time.
SPECIFICATION Spec
CONSTANTS
  Readers = {r1, r2}
  Columns = {flag, status}
  Values = {old, new}
  Default = none
  Rows = {x, y}
INVARIANT TypeOK MapFresh
PROPERTY KeepsPromise
SYMMETRY Interchangeable
