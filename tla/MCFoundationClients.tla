------------------------- MODULE MCFoundationClients -------------------------
(* The programs' own texts and variables; three addresses, so that a string, *)
(* its data and one more object can live at a time.                          *)
EXTENDS FoundationClients

MCPlaces  == {String, Data}
MCInputs  == {Strasse, invalidUtf8}
MCStrings == {}
MCLongMax == 100
==============================================================================
