--------------------------- MODULE MCConnIdLogger ---------------------------
(* Three connections and as many descriptors; messages of one id, of two and *)
(* of something else and an id; a clock that shows more than two ages.       *)
EXTENDS ConnIdLogger

CONSTANTS a, b, c, Words

MCCid == {a, b, c}
MCLines == {<<>>, <<a>>, <<b>>, <<c, a>>, <<Words, b>>}
=============================================================================
