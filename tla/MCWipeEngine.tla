---------------------------- MODULE MCWipeEngine ----------------------------
(* Instances of WipeEngine for TLC.                                         *)
EXTENDS WipeEngine, TLC

ZeroFill == <<"0x00">>
ThreePass == <<"0x00", "0xff", "random">>         \* DOD_5220_22M_3PASS
RandomFirst == <<"random", "random", "0x97">>     \* AR_380_19
Navso == <<"0x01", "27ffffff", "random">>         \* NAVSO_P5239_26
Bytes == {"0x00", "0xff", "0x97", "0x01"}
Patterns == {"27ffffff"}

\* The wipers are alike.
Symmetric == Permutations(Wipers)
=============================================================================
