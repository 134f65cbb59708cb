------------------------------ MODULE MC_Codecs -----------------------------
(* The conversions: X.75 frames one after the other, as X75Codec has it,   *)
(* and those of Codecs, V110 and FaxTest.  A behaviour is about one of     *)
(* them.                                                                   *)
EXTENDS X75Codec, Codecs, V110, FaxTest

VARIABLE part

v110 == <<place, rlpVars>>
allVars == <<vars, conversionVars, v110, fax, bits, part>>

AllInit ==
  /\ Init /\ ConversionInit /\ place = 0 /\ RlpInit /\ FaxInit
  /\ part \in {"x75", "alaw", "fcs", "v110", "rlp", "fax"}
  /\ part # "x75" => mode = <<FALSE, FALSE, FALSE>>

Conversion ==
  \/ part = "alaw" /\ Sample
  \/ part = "fcs"  /\ PacketOctet

Frames ==
  \/ part = "v110" /\ FrameBit /\ UNCHANGED rlpVars
  \/ part = "rlp"  /\ SubFrame /\ UNCHANGED place

AllNext ==
  /\ UNCHANGED part
  /\ \/ part = "x75" /\ Next /\ UNCHANGED <<conversionVars, v110, fax, bits>>
     \/ Conversion /\ UNCHANGED <<vars, v110, fax, bits>>
     \/ Frames /\ UNCHANGED <<vars, conversionVars, fax, bits>>
     \/ part = "fax" /\ FaxBit /\ UNCHANGED <<vars, conversionVars, v110>>

AllSpec == AllInit /\ [][AllNext]_allVars

MCPayloads == {<<>>, <<170>>}
MCsync == <<0, 0, 1>>
MCtraining == <<0, 1, 1>>
=============================================================================
