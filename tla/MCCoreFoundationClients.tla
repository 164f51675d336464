----------------------- MODULE MCCoreFoundationClients -----------------------
(* The programs' own texts and variables; four addresses, one more than they *)
(* can use at a time.                                                        *)
EXTENDS CoreFoundationClients

MCPlaces  == {String, Data, InvalidString}
MCInputs  == {Strasse, invalidUtf8}
MCStrings == {}
MCLongMax == 100
==============================================================================
