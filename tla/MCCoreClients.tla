---------------------------- MODULE MCCoreClients ----------------------------
(* One output variable at a time, three addresses, the texts of the programs. *)
EXTENDS CoreClients

MCTexts        == {Sample, Strasse, Overlong}
MCMalformed    == {Overlong}
MCNone         == {}
MCLeftovers    == {0, 12345}
MCResultLength ==
    [arg \in Options \X MCTexts |->
        Len(arg[2]) + IF arg = << DECOMPOSE, Sample >> THEN 4 ELSE 0]
==============================================================================
