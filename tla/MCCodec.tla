------------------------------- MODULE MCCodec -------------------------------
(* Messages of no byte, one and four; one that with its header never fits  *)
(* the receiver's buffer; two that make the sender's buffer grow, of which *)
(* the length of the first is over the limit and that of the second does   *)
(* not fit an int32_t and turns negative.                                  *)
EXTENDS Codec

MCMessages == {<<>>, <<1>>, <<2, 0, 3, 1>>, <<0, 1, 0, 2, 3>>,
               <<3, 3, 3, 3, 3, 3, 3>>, <<1, 0, 1, 0, 1, 0, 1, 0>>}
==============================================================================
