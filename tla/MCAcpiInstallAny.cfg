SPECIFICATION Spec
CONSTANTS
  Bios <- MCBios
  Patches <- MCPatches
  OsiScripts <- MCOsiScripts
  TM2019 = TRUE
  MayInterrupt = TRUE
  Careless = TRUE
INVARIANTS
  TypeOK
  BootFilePresent
  UninstallCleans
