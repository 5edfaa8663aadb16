----------------------------- MODULE MCMcbLink -----------------------------
(***************************************************************************)
(* TLC instances of McbLink.                                               *)
(***************************************************************************)
EXTENDS McbLink

(* Two recognised commands, two that are not, and UNKNOWN's neighbour.     *)
MCCmds == {81, 99, 93, 112, 254}

(* Every payload of up to two bytes out of the delimiters, zero and 255;   *)
(* and two whose fronts pass for whole frames if the length is damaged.    *)
MCPayloadBytes == {0, 2, 3, 255}
MCPayloads ==
  UNION {[1 .. n -> MCPayloadBytes] : n \in 0 .. 2}
    \cup {<<81, 3>>, <<7, 88, 3>>}

MCNoise == Byte
=============================================================================
