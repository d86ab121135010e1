------------------------------ MODULE StunCodec ------------------------------
(***************************************************************************)
(* The responses of a STUN server (crates/cloudflare-stun/src/lib.rs): the *)
(* values that encode_binding_success and encode_binding_error write and   *)
(* what parse_binding_response and parse_authenticated_error, as run_probe *)
(* calls them, read in a response.  What is_stun_packet and the cookie     *)
(* sort out is other traffic and left out, and so is a declared length     *)
(* that exceeds the datagram.                                              *)
(***************************************************************************)
EXTENDS StunAttributes

CONSTANTS
  Txn, Stale,  \* the transactions of a probe's request and of an earlier one
  Sent,        \* what servers answer
  Others       \* attributes that a server may put first

Byte == 0..255
Attributes == [type : Byte, value : {v \in Seq(Byte) : Len(v) \in Byte}]

\* The class of an error is three bits wide.
Answers ==
  [type : {"success"}, is : [port : [1..2 -> Byte], ip : [1..4 -> Byte] \cup [1..16 -> Byte]]] \cup
  [type : {"error"}, is : [code : 0..799, reason : {r \in Seq(Byte) : Len(r) + 4 \in Byte}]]

ASSUME CodecAssumption ==
  /\ {Txn, Stale} \subseteq [1..12 -> Byte] /\ Txn # Stale
  /\ Sent \subseteq Answers /\ Others \subseteq Attributes

-----------------------------------------------------------------------------
Cookie == <<33, 18, 164, 66>>

Bit(n, weight) == (n \div weight) % 2
Differ(a, b, weight) == ((Bit(a, weight) + Bit(b, weight)) % 2) * weight

\* a ^ b, of bytes.
XorByte(a, b) ==
  Differ(a, b, 1) + Differ(a, b, 2) + Differ(a, b, 4) + Differ(a, b, 8)
    + Differ(a, b, 16) + Differ(a, b, 32) + Differ(a, b, 64) + Differ(a, b, 128)

\* The address is masked by the cookie and, where that is too short, the transaction.
Masked(bytes, txn) == [i \in 1..Len(bytes) |-> XorByte(bytes[i], (Cookie \o txn)[i])]

Value(addr, txn) ==
  <<0, IF Len(addr.ip) = 4 THEN 1 ELSE 2>> \o Masked(addr.port, txn) \o Masked(addr.ip, txn)

ErrorValue(error) == <<0, 0, (error.code \div 100) % 8, error.code % 100>> \o error.reason

\* The attribute with an answer.
Tag(s) == IF s.type = "success" THEN Mapped ELSE ErrorCode
ValueOf(s) == IF s.type = "success" THEN Value(s.is, Txn) ELSE ErrorValue(s.is)

-----------------------------------------------------------------------------
\* decode_xor_mapped: the addresses in a value, at most one.
Decoded(value, txn) ==
  {[port |-> Masked(SubSeq(value, 3, 4), txn), ip |-> Masked(SubSeq(value, 5, 4 + size), txn)] :
     size \in {n \in {4, 16} : Len(value) >= 4 + n /\ value[2] = (IF n = 4 THEN 1 ELSE 2)}}

Error(value) == [code |-> (value[3] % 8) * 100 + value[4], reason |-> SubSeq(value, 5, Len(value))]

\* What run_probe takes from a response: an address, a rejection, or nothing.
Read(response, txn) ==
  IF response.txn # txn THEN {}
  ELSE IF response.type = "success" THEN Decoded(Find(response.attrs, Mapped), txn)
  ELSE {Error(v) : v \in {Find(response.attrs, ErrorCode)} \ {None}}

-----------------------------------------------------------------------------
\* What may come before the attribute with an answer.
Firsts(s) ==
  {None} \cup {Attribute(o.type, o.value) : o \in {x \in Others : ~Wanted(Tag(s), x.type, x.value)}}

\* As much of the message as there is: the last padding may be missing, or more.
ReadsBack(s, before) ==
  LET attrs == before \o Attribute(Tag(s), ValueOf(s))
      whole == Len(before) + HeaderLen + Len(ValueOf(s))
  IN  \A n \in Len(before)..Len(attrs), t \in {Txn, Stale} :
        Read([type |-> s.type, txn |-> t, attrs |-> SubSeq(attrs, 1, n)], Txn)
          = IF n >= whole /\ t = Txn THEN {s.is} ELSE {}

=============================================================================
