\* Nothing fails; the next session offers another mechanism.
SPECIFICATION AutoSpec
CONSTANTS
  AutoFaults = {}
PROPERTIES
  ShownIsInstalled
