------------------------------ MODULE Utf16Text ------------------------------
(***************************************************************************)
(* Strings as CoreFoundation and Foundation keep them, sequences of UTF-16 *)
(* code units, and the conversions LeoUTF8 asks of those frameworks.  A    *)
(* string may hold a surrogate without its other half; such a string has   *)
(* no UTF-8.                                                               *)
(***************************************************************************)
EXTENDS Utf8Text

Unit == {u \in Nat : u <= 65535}

IsLead(unit)  == Between(55296, unit, 56319)
IsTrail(unit) == Between(56320, unit, 57343)

UnitsOf(uc) ==
    IF uc < 65536 THEN << uc >>
    ELSE << 55296 + (uc - 65536) \div 1024, 56320 + ((uc - 65536) % 1024) >>
Joined(lead, trail) == 65536 + (lead - 55296) * 1024 + (trail - 56320)

\* The string made of a well-formed byte string.
ToUnits(s) ==
    LET cs == Characters(s)
    IN  FlattenSeq([i \in 1 .. Len(cs) |-> UnitsOf(cs[i])])

\* The characters of the first n units, in a set that is empty when they end
\* inside a character or hold a lone surrogate.
CharactersOf(string) ==
    LET upto[n \in 0 .. Len(string)] ==
            IF n = 0 THEN {<< >>}
            ELSE LET unit == string[n]
                 IN  CASE IsLead(unit)  -> {}
                       [] IsTrail(unit) ->
                            {Append(cs, Joined(string[n - 1], unit)) :
                               cs \in IF n > 1 /\ IsLead(string[n - 1])
                                      THEN upto[n - 2] ELSE {}}
                       [] OTHER         -> {Append(cs, unit) : cs \in upto[n - 1]}
    IN  upto

Convertible(string) == CharactersOf(string)[Len(string)] # {}

\* The conversion of as many whole characters as there are before the first
\* lone surrogate and as fit into `room` bytes: how many units, which bytes.
Conversion(string, room) ==
    LET prefixes ==
            UNION {{[units |-> n, bytes |-> Encoding(cs)] :
                       cs \in CharactersOf(string)[n]} : n \in 0 .. Len(string)}
    IN  CHOOSE c \in prefixes :
           /\ Len(c.bytes) <= room
           /\ \A d \in prefixes : Len(d.bytes) <= room => d.units <= c.units

Unbounded(string) == 4 * Len(string)

ToBytes(string) == Conversion(string, Unbounded(string)).bytes
==============================================================================
