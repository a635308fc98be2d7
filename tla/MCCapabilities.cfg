SPECIFICATION Spec
INVARIANTS
  TypeOK
  DisabledStaysQuiet
  NoiseExplained
PROPERTY
  GapsExplained
