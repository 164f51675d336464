---------------------------- MODULE MCLeoUTF8Core ----------------------------
(* Two output variables, three addresses - one more than can be in use, so  *)
(* that malloc may or may not reuse freed memory - and one text of each     *)
(* kind.  The empty text maps to the empty text.  Nothing tells two places   *)
(* or two addresses apart.                                                  *)
EXTENDS LeoUTF8Core, TLC

CONSTANTS Empty, Word, Stray, Huge, Endless

MCTexts     == {Empty, Word, Stray, Huge, Endless}
MCMalformed == {Stray}
MCTooLong   == {Huge}
MCOversized == {Endless}
MCLeftovers == {0, 7}
Alike == Permutations(Places) \cup Permutations(Addresses)

MCResultLength ==
    [arg \in Options \X MCTexts |->
        CASE arg[2] = Empty      -> 0
          [] arg[1] = DECOMPOSE  -> 3
          [] OTHER               -> 2]
==============================================================================
