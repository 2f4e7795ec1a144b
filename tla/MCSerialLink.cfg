SPECIFICATION Spec
CONSTANTS
  DataBits = 8
  DontCare = 1
  Typed = {0, 170, 203}
  Drift = 6
  MaxGlitch = 8
PROPERTY Received
