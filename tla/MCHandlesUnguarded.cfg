\* Four handles at two addresses, finalizers deferred by two threads.
SPECIFICATION Spec
CONSTANTS
  Threads = {t1, t2}
  Handles = {h1, h2, h3, h4}
  Addresses = {a1, a2}
  Guarded = FALSE
  None = None
SYMMETRY Symmetry
INVARIANTS LiveStaysRegistered
