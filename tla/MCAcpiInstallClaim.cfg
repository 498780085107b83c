SPECIFICATION Spec
CONSTANTS
  Bios <- MCBios
  Patches <- MCBios
  OsiScripts <- MCOsiScripts
  TM2019 = TRUE
  MayInterrupt = FALSE
  Careless = FALSE
INVARIANTS
  SuccessIsHonest
