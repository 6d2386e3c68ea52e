----------------------------- MODULE MCAtaRead ------------------------------
(* Small instances of the sector reads: four one-bit address registers,    *)
(* two words to a sector, a sector_count of two bits.                      *)
EXTENDS AtaRead

AllButSecondarySlave == {<<0, 0>>, <<0, 1>>, <<1, 0>>}
=============================================================================
