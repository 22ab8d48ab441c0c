SPECIFICATION Spec
CONSTANTS
  Devices = {d1}
  Ports = {p1}
  TaskIds = {t1}
  MaxPower = 2
  MaxDown = 1
  AdapterErrors = FALSE
  None = None
PROPERTY StoppedStaysStopped
