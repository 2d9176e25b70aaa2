----------------------------- MODULE MCBootloader -----------------------------
(***************************************************************************)
(* Bootloader on a region of two pages, with an image of one page and two  *)
(* of two pages, one of which crashes before it confirms.                  *)
(***************************************************************************)
EXTENDS Bootloader

CONSTANTS small, large, crashing

MCImage == {small, large, crashing}
MCCrashy == {crashing}
MCSize == [i \in MCImage |-> IF i = small THEN 1 ELSE 2]

==============================================================================
