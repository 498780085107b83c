---------------------------- MODULE MCAcpiInstall ----------------------------
(* Three BIOS versions of one board for TLC: with a patch, with a patch and  *)
(* an override_acpi_osi.sh, and with neither.                                *)
EXTENDS AcpiInstall

MCBios       == {"A0A", "B0B", "C0C"}
MCPatches    == {"A0A", "B0B"}
MCOsiScripts == {"B0B"}

==============================================================================
