------------------------ MODULE CoreFoundationClients ------------------------
(***************************************************************************)
(* The C programs that live on the CoreFoundation bridge - the probe, the  *)
(* example and the consumer's probe - composed with it.                    *)
(***************************************************************************)
EXTENDS LeoUTF8CoreFoundation, BridgeClients

CONSTANT InvalidString  \* the probe's third variable

ASSUME VariableAssumption ==
    /\ Places = {String, Data, InvalidString}
    /\ String # Data /\ InvalidString \notin {String, Data}
ASSUME ProgramAssumption == {Strasse, invalidUtf8} \subseteq Inputs

allVars == << vars, clientVars >>

ClientsInit == Init /\ ProgramInit({"probe", "example", "consumer"})

\* The probe counts the characters of the data, the consumer its bytes.
CopiedData ==
    LET bytes == TextOf(Data)
    IN  Copied(CASE program = "probe"    -> /\ WellFormed(bytes)
                                            /\ Len(Characters(bytes)) = 6
                 [] program = "consumer" -> Len(bytes) = 7
                 [] program = "example"  -> TRUE)

\* Mutant: the variable of the first string is used again.
RejectIntoString == at = "reject" /\ AskCreate(invalidUtf8, String, "rejected")

RejectInvalid == at = "reject" /\ AskCreate(invalidUtf8, InvalidString, "rejected")

\* Mutant: the invalid string is released whether there is one or not.
ExpectInvalidReleasing ==
    /\ Looks("rejected")
    /\ Leave(IF status = INVALID THEN 0 ELSE 1, << Data, String, InvalidString >>)
    /\ UNCHANGED client

ExpectInvalid ==
    /\ Looks("rejected")
    /\ CASE status = INVALID /\ out[InvalidString] = NULL ->
              Leave(0, << Data, String >>)
         [] status = INVALID /\ out[InvalidString] # NULL ->
              Leave(1, << InvalidString, Data, String >>)
         [] status # INVALID /\ out[InvalidString] = NULL ->
              Leave(1, << Data, String >>)
         [] OTHER -> Leave(1, << Data, String, InvalidString >>)
    /\ UNCHANGED client

\* CFRelease of NULL, or of an object that is gone, is the end of the process
\* before it could exit.
Release == ReleaseNext /\ ReleaseObject(Head(toRelease))

Program == \/ CreateString \/ Created \/ CopyData \/ CopiedData
           \/ RejectInvalid \/ ExpectInvalid \/ Release \/ Exit \/ Returns

ClientsNext == \/ Program /\ UNCHANGED locals
               \/ Run /\ UNCHANGED clientVars

\* One sequential process, which goes on until it exits.
ClientsSpec == ClientsInit /\ [][ClientsNext]_allVars /\ WF_allVars(ClientsNext)

-----------------------------------------------------------------------------
(* Correctness.                                                            *)

\* The programs are clients as LeoUTF8CoreFoundation expects them: they pass
\* live strings, never a variable that holds an object, and release an object
\* once.
LawfulClient == Spec

\* Every program exits - none releases NULL or an object that is gone - and it
\* exits with code 1 exactly when the framework could not make an object.
EndsWithVerdict ==
    <>[](at = "exit" /\ (exit = 1 <=> status \in {NO_MEMORY, ERROR}))
==============================================================================
