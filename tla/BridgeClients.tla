---------------------------- MODULE BridgeClients ----------------------------
(***************************************************************************)
(* What the programs that live on a bridge have in common: they make a     *)
(* string of bytes and data of the string, look at the data, may try bytes *)
(* that are not UTF-8, and release what they were handed before they       *)
(* leave.  What they release on the way out is what it is about.           *)
(***************************************************************************)
EXTENDS LeoUTF8Bridge

CONSTANTS String, Data  \* the variables every program has

VARIABLES program,      \* which program is running
          at,           \* the statement it has come to
          toRelease,    \* on the way out: the variables yet to release
          exit          \* the exit code

clientVars == << program, at, toRelease, exit >>

\* "Strasse" with a sharp s, and the first byte of a character.
Strasse     == << 83, 116, 114, 97, 195, 159, 101 >>
invalidUtf8 == << 195 >>

ProgramInit(programs) ==
    program \in programs /\ at = "create" /\ toRelease = << >> /\ exit = 0

-----------------------------------------------------------------------------
\* A call of the bridge; the program goes on at `next` once it has returned.
Ask(fn, text, length, place, next) ==
    /\ pc = "idle" /\ pc' = fn
    /\ call' = [fn |-> fn, text |-> text, length |-> length, place |-> place]
    /\ at' = next
    /\ UNCHANGED << status, out, objects, mine, program, toRelease, exit >>

AskCreate(bytes, place, next) == Ask("create", bytes, Len(bytes), place, next)

TextOf(place) == objects[out[place]].text

\* The call has returned and the program looks at its status.
Looks(where) == pc = "idle" /\ at = where

Proceed(next) == at' = next /\ UNCHANGED << program, toRelease, exit >>
Leave(code, places) ==
    /\ at' = "leave" /\ exit' = code /\ toRelease' = places
    /\ UNCHANGED program

\* Once the last variable is released the process exits.
Exit == /\ at = "leave" /\ toRelease = << >> /\ at' = "exit"
        /\ UNCHANGED << client, program, toRelease, exit >>

Returns == ClientReturn /\ UNCHANGED clientVars

-----------------------------------------------------------------------------
CreateString == at = "create" /\ AskCreate(Strasse, String, "created")

Created ==
    /\ Looks("created")
    /\ IF status = OK THEN Proceed("copy") ELSE Leave(1, << >>)
    /\ UNCHANGED client

CopyData == at = "copy" /\ Ask("copy", TextOf(String), 0, Data, "copied")

\* Mutant: without data, the string is forgotten.
CopiedLeaking(expected) ==
    /\ Looks("copied")
    /\ CASE status # OK              -> Leave(1, << >>)
         [] status = OK /\ ~expected -> Leave(1, << Data, String >>)
         [] OTHER -> IF program = "probe" THEN Proceed("reject")
                     ELSE Leave(0, << Data, String >>)
    /\ UNCHANGED client

\* `expected` says whether the data is what the program looks for in it.
Copied(expected) ==
    /\ Looks("copied")
    /\ CASE status # OK              -> Leave(1, << String >>)
         [] status = OK /\ ~expected -> Leave(1, << Data, String >>)
         [] OTHER -> IF program = "probe" THEN Proceed("reject")
                     ELSE Leave(0, << Data, String >>)
    /\ UNCHANGED client

\* The object in a variable is released: a live one.
ReleaseObject(place) ==
    /\ out[place] \in DOMAIN objects
    /\ objects' = [a \in DOMAIN objects \ {out[place]} |-> objects[a]]
    /\ mine' = mine \ {place}

ReleaseNext == /\ at = "leave" /\ toRelease # << >>
               /\ toRelease' = Tail(toRelease)
               /\ UNCHANGED << pc, call, status, out, program, at, exit >>

-----------------------------------------------------------------------------
(* Correctness.                                                            *)

\* Whatever fails on the way, a program has released every object it was handed
\* when it exits.
NothingHeldAtExit == at = "exit" => DOMAIN objects = {}
==============================================================================
