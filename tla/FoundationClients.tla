-------------------------- MODULE FoundationClients --------------------------
(***************************************************************************)
(* The Objective-C programs that live on the Foundation bridge - the probe,*)
(* the example and the consumer's probe - composed with it.                *)
(***************************************************************************)
EXTENDS LeoUTF8Foundation, BridgeClients

allVars == << vars, clientVars >>

ClientsInit == Init /\ ProgramInit({"probe", "example", "consumer"})

\* The probe only wants to count the characters, the consumer seven bytes.
CopiedData ==
    LET bytes == TextOf(Data)
    IN  Copied(CASE program = "probe"    -> WellFormed(bytes)
                 [] program = "consumer" -> Len(bytes) = 7
                 [] program = "example"  -> TRUE)

\* The probe has one variable for strings.
RejectInvalid == at = "reject" /\ AskCreate(invalidUtf8, String, "rejected")

ExpectInvalid ==
    /\ Looks("rejected")
    /\ Leave(IF status = INVALID THEN 0 ELSE 1, << Data, String >>)
    /\ UNCHANGED client

\* A message to nil does nothing.
Release ==
    /\ ReleaseNext
    /\ LET place == Head(toRelease)
       IN  IF out[place] = NULL THEN UNCHANGED << objects, mine >>
           ELSE ReleaseObject(place)

Program == \/ CreateString \/ Created \/ CopyData \/ CopiedData
           \/ RejectInvalid \/ ExpectInvalid \/ Release \/ Exit \/ Returns

ClientsNext == \/ Program /\ UNCHANGED utf8
               \/ Run /\ UNCHANGED clientVars

\* One sequential process, which goes on until it exits.
ClientsSpec == ClientsInit /\ [][ClientsNext]_allVars /\ WF_allVars(ClientsNext)
==============================================================================
