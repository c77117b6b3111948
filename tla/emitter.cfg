SPECIFICATION Spec
CONSTANTS
  Events = {e1, e2}
  Callbacks = {f1, f2}
  MaxListeners = 2
  MaxOnce = 2
  MaxDepth = 2
SYMMETRY Symmetry
INVARIANTS
  TypeOK SpentIsGone OnceUnlessReentered
PROPERTIES
  EmitReachesAll
