--------------------------- MODULE StunAttributes ---------------------------
(***************************************************************************)
(* The attributes of a STUN message (crates/cloudflare-stun/src/lib.rs):   *)
(* how the encoders lay one out, and the walk by which both parsers look   *)
(* for the first of a type.  A byte is a number; lengths and types stay    *)
(* below 256 here, so the first of their two bytes is 0.                   *)
(***************************************************************************)
EXTENDS Naturals, Sequences

HeaderLen == 4
Mapped == 32    \* ATTR_XOR_MAPPED_ADDRESS
ErrorCode == 9  \* ATTR_ERROR_CODE
None == <<>>

RoundUp(n) == ((n + 3) \div 4) * 4

\* "The padding counts toward the message length but not toward the attribute's own value
\* length" (lib.rs:302-305).
Attribute(type, value) ==
  <<0, type, 0, Len(value)>> \o value \o [i \in 1..(RoundUp(Len(value)) - Len(value)) |-> 0]

-----------------------------------------------------------------------------
\* Slip: the padding is not skipped.
Step_Unpadded(valueEnd, rest) == valueEnd

\* Where the next attribute begins; the last one may lack its padding.
Step(valueEnd, rest) == IF RoundUp(valueEnd) < rest THEN RoundUp(valueEnd) ELSE rest

\* The attribute that a parser looks for, an ERROR-CODE of at least four bytes.
Wanted(type, t, value) == t = type /\ (type = ErrorCode => Len(value) >= 4)

\* The value of the first of them.
Find(attrs, type) ==
  LET find[at \in 0..Len(attrs)] ==
        LET rest == Len(attrs) - at
            valueEnd == HeaderLen + attrs[at + 4]
            value == SubSeq(attrs, at + HeaderLen + 1, at + valueEnd)
        IN  IF rest < HeaderLen \/ rest < valueEnd THEN None
            ELSE IF Wanted(type, attrs[at + 2], value) THEN value
            ELSE find[at + Step(valueEnd, rest)]
  IN  find[0]
=============================================================================
