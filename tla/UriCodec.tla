------------------------------ MODULE UriCodec ------------------------------
(***************************************************************************)
(* src/uri_codec.h: UriDecode, which every query goes through before it is *)
(* split, and its counterpart UriEncode, as loops over the bytes of a      *)
(* string.  A step is one round of a loop.                                 *)
(*                                                                         *)
(* A behaviour decodes either a string as it is received, or one that      *)
(* UriEncode has made of a text.  Positions count from 1: what is puri ==  *)
(* SRC_END in the source is puri = Len(uri) + 1 here.                      *)
(***************************************************************************)
EXTENDS Integers, Sequences, FiniteSets

CONSTANTS
    Bytes,       \* the bytes that strings are made of
    MaxLength    \* bound on the length of the strings that are given

ASSUME BytesAssumption == Bytes \subseteq 0..255
ASSUME MaxLengthAssumption == MaxLength \in Nat

VARIABLES
    pc,        \* which loop is running
    encoded,   \* whether uri is the work of UriEncode
    text,      \* what UriEncode was given
    uri,       \* what UriEncode has made so far, and what UriDecode is given
    puri,      \* the next byte to be read, of text or of uri
    result,    \* what UriDecode has made so far
    starts     \* history: where in uri the code of each byte of text begins,
               \* and where the next one would

vars == <<pc, encoded, text, uri, puri, result, starts>>

Strings == UNION {[1..n -> Bytes] : n \in 0..MaxLength}

Percent == 37
Plus == 43
Space == 32

\* The tables.  RFC3986 unreserved characters: 0-9 a-z A-Z -._~
SAFE == (48..57) \cup (65..90) \cup (97..122) \cup {45, 46, 95, 126}

HEX2DEC(c) ==
    IF c \in 48..57 THEN c - 48
    ELSE IF c \in 65..70 THEN c - 55
    ELSE IF c \in 97..102 THEN c - 87
    ELSE -1

DEC2HEX(d) == IF d < 10 THEN d + 48 ELSE d + 55

Init ==
    /\ puri = 1
    /\ result = <<>>
    /\ \/ /\ pc = "encode" /\ encoded = TRUE
          /\ text \in Strings
          /\ uri = <<>>
          /\ starts = <<1>>
       \/ /\ pc = "decode" /\ encoded = FALSE
          /\ text = <<>>
          /\ uri \in Strings
          /\ starts = <<>>

(***************************************************************************)
(* UriEncode.                                                              *)
(***************************************************************************)
\* Definitions with a second part to their name are wrong versions of the one
\* that follows them: what a slip in the code would make of it.
Code_PercentKept(c) ==
    IF c \in SAFE \cup {Percent} THEN <<c>>
    ELSE <<Percent, DEC2HEX(c \div 16), DEC2HEX(c % 16)>>

Code(c) ==
    IF c \in SAFE THEN <<c>>
    ELSE <<Percent, DEC2HEX(c \div 16), DEC2HEX(c % 16)>>

UriEncode ==
    /\ pc = "encode"
    /\ puri <= Len(text)
    /\ uri' = uri \o Code(text[puri])
    /\ starts' = Append(starts, Len(uri') + 1)
    /\ puri' = puri + 1
    /\ UNCHANGED <<pc, encoded, text, result>>

EncodeDone ==
    /\ pc = "encode"
    /\ puri > Len(text)
    /\ pc' = "decode"
    /\ puri' = 1
    /\ UNCHANGED <<encoded, text, uri, result, starts>>

(***************************************************************************)
(* UriDecode.                                                              *)
(***************************************************************************)
SRC_LAST_DEC_Early == Len(uri) - 3

\* The last position where three bytes are left to be read.
SRC_LAST_DEC == Len(uri) - 2

IsEscape_FirstDigit(p) ==
    /\ uri[p] = Percent
    /\ HEX2DEC(uri[p + 1]) # -1

IsEscape(p) ==
    /\ uri[p] = Percent
    /\ HEX2DEC(uri[p + 1]) # -1
    /\ HEX2DEC(uri[p + 2]) # -1

Escaped(p) == HEX2DEC(uri[p + 1]) * 16 + HEX2DEC(uri[p + 2])

DecodeEscape ==
    /\ pc = "decode"
    /\ puri <= SRC_LAST_DEC
    /\ IsEscape(puri)
    /\ result' = Append(result, Escaped(puri))
    /\ puri' = puri + 3
    /\ UNCHANGED <<pc, encoded, text, uri, starts>>

\* application/x-www-form-urlencoded
DecodePlus ==
    /\ pc = "decode"
    /\ puri <= SRC_LAST_DEC
    /\ uri[puri] = Plus
    /\ result' = Append(result, Space)
    /\ puri' = puri + 1
    /\ UNCHANGED <<pc, encoded, text, uri, starts>>

\* A '%' that no two digits follow is copied like any other byte.
DecodeOther ==
    /\ pc = "decode"
    /\ puri <= SRC_LAST_DEC
    /\ ~IsEscape(puri)
    /\ uri[puri] # Plus
    /\ result' = Append(result, uri[puri])
    /\ puri' = puri + 1
    /\ UNCHANGED <<pc, encoded, text, uri, starts>>

\* "the last 2 characters", as they are.
DecodeLast ==
    /\ pc = "decode"
    /\ SRC_LAST_DEC < puri /\ puri <= Len(uri)
    /\ result' = Append(result, uri[puri])
    /\ puri' = puri + 1
    /\ UNCHANGED <<pc, encoded, text, uri, starts>>

DecodeDone ==
    /\ pc = "decode"
    /\ puri > Len(uri)
    /\ pc' = "done"
    /\ UNCHANGED <<encoded, text, uri, puri, result, starts>>

Next ==
    \/ UriEncode
    \/ EncodeDone
    \/ DecodeEscape
    \/ DecodePlus
    \/ DecodeOther
    \/ DecodeLast
    \/ DecodeDone

Spec == Init /\ [][Next]_vars

-----------------------------------------------------------------------------
(***************************************************************************)
(* Properties.                                                             *)
(***************************************************************************)
TypeOK ==
    /\ pc \in {"encode", "decode", "done"}
    /\ encoded \in BOOLEAN
    /\ text \in Seq(0..255)
    /\ uri \in Seq(0..255)
    /\ puri \in Nat \ {0}
    /\ result \in Seq(0..255)
    /\ starts \in Seq(Nat \ {0})

\* Decoding undoes encoding, for every byte and every length, although the
\* last two bytes of a string are not decoded and '+' is decoded to a space
\* (UriEncode, UriDecode).
RoundTrip == pc = "done" /\ encoded => result = text

(***************************************************************************)
(* What UriDecode makes of a string, said without a loop: no escape begins *)
(* inside another, since '%' is not a digit, so that the escapes can be    *)
(* told from the string alone.  The bytes that are kept are those that are *)
(* not the digits of an escape, each with a value of its own.              *)
(***************************************************************************)
HexDigits == (48..57) \cup (65..70) \cup (97..102)

Escapes == {p \in 1..(Len(uri) - 2) :
              uri[p] = Percent /\ {uri[p + 1], uri[p + 2]} \subseteq HexDigits}

Kept == {p \in 1..Len(uri) : p - 1 \notin Escapes /\ p - 2 \notin Escapes}

Pluses == {p \in 1..Len(uri) : uri[p] = Plus}

\* The byte of the result that a kept byte has given.
Read(p) == result[Cardinality({o \in Kept : o <= p})]

\* Every escape is decoded wherever it stands, also one that ends the string or
\* follows a '%' of its own, every '+' that has two bytes after it is a space,
\* and no other byte is changed or lost (uri_codec.h:71-96).  Nothing is said of a
\* '+' among the last two bytes: the code leaves it, by a bound that is meant
\* for escapes (:67), where a form's would be a space (:85).
DecodedByPosition ==
    pc = "done" =>
        /\ Len(result) = Cardinality(Kept)
        /\ \A p \in Kept :
             /\ p \in Escapes => Read(p) = Escaped(p)
             /\ p \notin Escapes \cup Pluses => Read(p) = uri[p]
             /\ p \in Pluses /\ p <= Len(uri) - 2 => Read(p) = Space
=============================================================================
