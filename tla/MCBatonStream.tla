---------------------------- MODULE MCBatonStream ----------------------------
(* Every wire with a short length field, up to three bytes of padding and    *)
(* from nothing to two bytes too many.                                       *)
EXTENDS BatonStream

MCWires == {w \in [lenBytes : {1, 2, 4}, padLen : 0 .. 3, baton : {0, 255},
                   size : 0 .. 10] : w.size <= MessageSize(w) + 2}
=============================================================================
