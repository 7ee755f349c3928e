------------------------------- MODULE PciMsi -------------------------------
(***************************************************************************)
(* What a driver programs into a device's MSI or MSI-X capability, and how *)
(* many of its vectors the device then uses (hardware/pci/intr.c,          *)
(* includes/hardware/pci.h).                                               *)
(***************************************************************************)
EXTENDS Integers, FiniteSets, FiniteSetsExt

\* bit_ffs32(n) - 1 is the place of the lowest bit that is set.
LowestBit(n) == Max({p \in {1, 2, 4, 8, 16, 32} : n % p = 0})
PowerOfTwo(n) == LowestBit(n) = n

\* hw_pci_allocMsi and hw_pci_allocMsix refuse more than the device has.
MayAlloc(vecNum, n) == n <= vecNum

\* The vectors on which the device interrupts when n are enabled: every
\* entry of the MSI-X table, or 2 to the field that setVecNum writes.
Programmed(tp, n) == IF tp = "msix" THEN n ELSE LowestBit(n)
=============================================================================
