\* Two devices and an article both of them write to.
CONSTANTS
  Articles = {a1}
  Devices = {d1, d2}
  MaxWrites <- OneEach
SPECIFICATION Spec
SYMMETRY Symmetry
INVARIANTS TypeOK BuriedStaysBuried
