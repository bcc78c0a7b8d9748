SPECIFICATION HTTPFairSpec
CONSTANTS
  Announced = {"waypoints"}
  MaxVersion = 2
  MaxMishaps = 0
PROPERTY LocalChangesArePushed
