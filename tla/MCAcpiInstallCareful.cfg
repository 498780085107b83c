SPECIFICATION Spec
CONSTANTS
  Bios <- MCBios
  Patches <- MCPatches
  OsiScripts <- MCOsiScripts
  TM2019 = FALSE
  MayInterrupt = TRUE
  Careless = FALSE
INVARIANTS
  SuccessMeansActive
  
