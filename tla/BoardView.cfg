CONSTANTS
  Groups = {g1, g2}
  MaxFingers = 3
  Me = me
  Other = other
  None = none
  MaxMounts = 1
  MaxFaults = 1
SPECIFICATION Spec
INVARIANTS
  SceneIsSound
  GesturesAreSound
PROPERTIES
  Unfrozen
