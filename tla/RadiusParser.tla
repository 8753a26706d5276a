---------------------------- MODULE RadiusParser ----------------------------
(***************************************************************************)
(* ngx_stream_radius_parse_packet: the walk over the attributes of a       *)
(* packet, one action per way through an iteration of its two loops.       *)
(*                                                                         *)
(* Offsets count from 0, as the code's pointers do from data.  The value   *)
(* of an attribute is named by its place in the packet; how it is printed  *)
(* (ngx_radius_decode_value) is left out.                                  *)
(***************************************************************************)
EXTENDS Integers, Sequences

CONSTANTS
    HeaderLen,      \* NGX_RADIUS_HEADER_LEN: code, identifier, length, authenticator
    VendorLen,      \* bytes of a vendor id
    VendorSpecific, \* NGX_RADIUS_ATTR_VENDOR_SPECIFIC
    MaxAttrs        \* NGX_RADIUS_MAX_ATTRS

ASSUME HeaderAssumption == HeaderLen \in Nat /\ HeaderLen >= 4
ASSUME VendorAssumption == VendorLen \in Nat /\ VendorSpecific \in 0..255
ASSUME TableAssumption  == MaxAttrs \in Nat

VARIABLES
    data,  \* the packet
    loop,  \* the loop that runs, or how the call ended
    p,     \* the offset reached in the packet
    sub,   \* the offset reached in a vendor-specific attribute
    attrs  \* ctx->attrs

parserVars == <<data, loop, p, sub, attrs>>

-----------------------------------------------------------------------------

Byte == 0..255

AType(o)   == data[o + 1]
ALen(o)  == data[o + 2]
End       == Len(data)

NoVendor    == [i \in 1..VendorLen |-> 0]
Vendor(o)   == SubSeq(data, o + 3, o + 2 + VendorLen)

Attr == [type : Byte, vendor : Seq(Byte), vtype : Byte, from : Nat, len : Nat]

Standard(o) == [type |-> AType(o), vendor |-> NoVendor, vtype |-> 0,
                from |-> o + 2, len |-> ALen(o) - 2]
VSA(o, s)   == [type |-> VendorSpecific, vendor |-> Vendor(o), vtype |-> AType(s),
                from |-> s + 2, len |-> ALen(s) - 2]

\* Mutants of Fits: the end of the attribute is compared with one byte too much, and
\* a length may be less than the two bytes of the attribute's own header.
FitsLoosely(o, end)   == o + 2 <= end /\ ALen(o) >= 2 /\ o + ALen(o) <= end + 1
FitsUnderflow(o, end) == o + 2 <= end /\ ALen(o) >= 1 /\ o + ALen(o) <= end

\* An attribute at o that is complete before end.
Fits(o, end) == o + 2 <= end /\ ALen(o) >= 2 /\ o + ALen(o) <= end

Full == Len(attrs) >= MaxAttrs

Parse(bytes) ==
    /\ data' = bytes
    /\ loop' = "avp"
    /\ p' = HeaderLen
    /\ sub' = 0
    /\ attrs' = <<>>

\* A truncated attribute, one shorter than its own header, or one that exceeds the
\* packet: NGX_ERROR.
Malformed ==
    /\ loop = "avp"
    /\ p < End
    /\ ~Fits(p, End)
    /\ loop' = "error"
    /\ UNCHANGED <<data, p, sub, attrs>>

Take ==
    /\ loop = "avp"
    /\ p < End
    /\ Fits(p, End)
    /\ AType(p) # VendorSpecific
    /\ ~Full
    /\ attrs' = Append(attrs, Standard(p))
    /\ p' = p + ALen(p)
    /\ UNCHANGED <<data, loop, sub>>

\* The table is full: the rest of the packet is not looked at.
Stop ==
    /\ loop = "avp"
    /\ p < End
    /\ Fits(p, End)
    /\ AType(p) # VendorSpecific
    /\ Full
    /\ loop' = "ok"
    /\ UNCHANGED <<data, p, sub, attrs>>

Finish ==
    /\ loop = "avp"
    /\ p >= End
    /\ loop' = "ok"
    /\ UNCHANGED <<data, p, sub, attrs>>

\* Mutant of SkipVSA: the walk stays where it is.
SkipVSAInPlace ==
    /\ loop = "avp"
    /\ p < End
    /\ Fits(p, End)
    /\ AType(p) = VendorSpecific
    /\ ALen(p) - 2 < VendorLen + 2
    /\ UNCHANGED parserVars

\* ngx_radius_parse_vsa: an attribute too short to hold a vendor id and one header is
\* passed over.
SkipVSA ==
    /\ loop = "avp"
    /\ p < End
    /\ Fits(p, End)
    /\ AType(p) = VendorSpecific
    /\ ALen(p) - 2 < VendorLen + 2
    /\ p' = p + ALen(p)
    /\ UNCHANGED <<data, loop, sub, attrs>>

EnterVSA ==
    /\ loop = "avp"
    /\ p < End
    /\ Fits(p, End)
    /\ AType(p) = VendorSpecific
    /\ ALen(p) - 2 >= VendorLen + 2
    /\ loop' = "vsa"
    /\ sub' = p + 2 + VendorLen
    /\ UNCHANGED <<data, p, attrs>>

TakeVSA ==
    /\ loop = "vsa"
    /\ Fits(sub, p + ALen(p))
    /\ ~Full
    /\ attrs' = Append(attrs, VSA(p, sub))
    /\ sub' = sub + ALen(sub)
    /\ UNCHANGED <<data, loop, p>>

\* Mutant of LeaveVSA: the walk goes on where the sub-attributes end.
LeaveVSAInside ==
    /\ loop = "vsa"
    /\ ~Fits(sub, p + ALen(p)) \/ Full
    /\ loop' = "avp"
    /\ p' = sub
    /\ UNCHANGED <<data, sub, attrs>>

\* The attribute is through, a sub-attribute is malformed, or the table is full: the
\* walk goes on behind the attribute.
LeaveVSA ==
    /\ loop = "vsa"
    /\ ~Fits(sub, p + ALen(p)) \/ Full
    /\ loop' = "avp"
    /\ p' = p + ALen(p)
    /\ UNCHANGED <<data, sub, attrs>>

\* No memory for the value of an attribute, which is in the table already: NGX_ERROR
\* as well.
NoMemory ==
    /\ \/ /\ loop = "avp" /\ p < End /\ Fits(p, End) /\ AType(p) # VendorSpecific
          /\ attrs' = Append(attrs, Standard(p))
       \/ /\ loop = "vsa" /\ Fits(sub, p + ALen(p))
          /\ attrs' = Append(attrs, VSA(p, sub))
    /\ ~Full
    /\ loop' = "nomem"
    /\ UNCHANGED <<data, p, sub>>

Iterate ==
    \/ Malformed \/ Take \/ Stop \/ Finish
    \/ SkipVSA \/ EnterVSA \/ TakeVSA \/ LeaveVSA
    \/ NoMemory

Running  == loop \in {"avp", "vsa"}
Returned == loop \in {"ok", "error", "nomem"}

-----------------------------------------------------------------------------
(* Properties                                                              *)

ParserTypeOK ==
    /\ data \in Seq(Byte)
    /\ loop \in {"avp", "vsa", "ok", "error", "nomem"}
    /\ p \in Nat
    /\ sub \in Nat
    /\ attrs \in Seq(Attr)

\* The walk never leaves the packet, nor a vendor-specific attribute: what it reads
\* and what it hands out lies inside, and the table of attributes does not overflow.
InsidePacket ==
    /\ p <= End
    /\ loop = "vsa" => Fits(p, End) /\ p + 2 + VendorLen <= sub /\ sub <= p + ALen(p)
    /\ \A i \in 1..Len(attrs) : attrs[i].from + attrs[i].len <= End
    /\ Len(attrs) <= MaxAttrs

=============================================================================
