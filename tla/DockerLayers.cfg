SPECIFICATION Spec
CONSTANT N = 7
INVARIANTS
  BuiltOnParent
  LayersSound
PROPERTIES
  TopUnmountedFirst
  LowerUntouched
