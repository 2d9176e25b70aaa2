---------------------------- MODULE MCFrameParser ----------------------------
(***************************************************************************)
(* FrameParser with bytes of three values, the largest the sync byte, and  *)
(* two check bytes: a sum and a weighted sum.                              *)
(***************************************************************************)
EXTENDS FrameParser, SequencesExt

MCCrc(s) ==
  <<FoldLeftDomain(LAMBDA a, i : a + s[i], 0, s) % Base,
    FoldLeftDomain(LAMBDA a, i : a + i * s[i], 0, s) % Base>>

\* Frames of two commands, with the sync byte anywhere.
MCTraffic ==
  [cmd : {0, Sync}, payload : UNION {[1..n -> Byte] : n \in 0..MaxPayload}]

ASSUME MCAssumption == MaxFrame \in LengthBounds

==============================================================================
