----------------------------- MODULE ProbeProcess -----------------------------
(***************************************************************************)
(* What the probes of the fuzzer and of the research have in common: which *)
(* of them runs, the statement it has come to, and its exit code.          *)
(***************************************************************************)
VARIABLES program, pc, exit

Goto(step)  == pc' = step /\ UNCHANGED exit
Leave(code) == pc' = "exit" /\ exit' = code
==============================================================================
