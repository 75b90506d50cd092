SPECIFICATION Spec
CONSTANTS
  Requests = {r1, r2, r3, r4, r5, r6}
  Threads = 2
  Capacity = 2
SYMMETRY Symmetry
INVARIANTS
  AdmissionSound
