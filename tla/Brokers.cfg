SPECIFICATION BrokersSpec
CONSTANTS
  Agents = {a1, a2}
  Receipts = {r1, r2, r3}
  Posts = {p1, p2, p3, p4}
  NoReceipt = NoReceipt
  BundleIds = {b1, b2}
  Readings = {x1, x2}
  Asks = {q1, q2}
  Signatures = {s1}
  NoBundle = NoBundle
  Simulations = {u1}
  Candidates = {101}
  MaxAnswers = 2
SYMMETRY Symmetry
CHECK_DEADLOCK FALSE
INVARIANTS
  
  AttestationStands
