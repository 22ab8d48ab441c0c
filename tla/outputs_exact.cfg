SPECIFICATION Spec
CONSTANTS
  Devices = {d1, d2}
  Ports = {p1}
  TaskIds = {t1}
  MaxPower = 1
  MaxDown = 1
  AdapterErrors = FALSE
  None = None
INVARIANT TypeOK
PROPERTY TrustIsLostInThreeWaysAndRegained
SYMMETRY Symmetry
