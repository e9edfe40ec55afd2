SPECIFICATION Spec
CONSTANTS
  u1 = u1
  u2 = u2
  u3 = u3
  u4 = u4
  UEs = {u1, u2, u3, u4}
  Cells <- MCWideband
  Inputs <- MCInputs
  Rbgs = {1, 2, 3}
  V = 2
  Cqis = {0, 1, 6}
  TbPerRbg <- MCTbPerRbg
  FhMinRbgs = 1
INVARIANTS AdmittedOnly
