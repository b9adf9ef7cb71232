--------------------------- MODULE MCPeripherals ---------------------------
(* An instance of Peripherals for TLC: two of everything that may meet.    *)
EXTENDS Peripherals, TLC

Symmetric == Permutations(Path) \cup Permutations(Handle)
=============================================================================
