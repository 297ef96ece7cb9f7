-------------------------- MODULE UriCodecTheorems --------------------------
(***************************************************************************)
(* Theorems about UriCodec, for strings of every length and all bytes.     *)
(*                                                                         *)
(* The invariant follows both loops by the history variable starts: the    *)
(* code of text[j] stands in uri from starts[j] to before starts[j + 1],   *)
(* and after n rounds UriDecode has made the first n bytes of the text and *)
(* stands at starts[n + 1].  That it never stands inside a code is why the *)
(* two bytes it does not decode at the end never matter.                   *)
(***************************************************************************)
EXTENDS UriCodec, FiniteSetTheorems, TLAPS

\* The byte c as it stands in s, from position p to before next.
Stands(s, c, p, next) ==
    \/ /\ c \in SAFE
       /\ next = p + 1
       /\ next <= Len(s) + 1
       /\ s[p] = c
    \/ /\ c \notin SAFE
       /\ next = p + 3
       /\ next <= Len(s) + 1
       /\ s[p] = Percent
       /\ s[p + 1] = DEC2HEX(c \div 16)
       /\ s[p + 2] = DEC2HEX(c % 16)

\* The first bytes of t stand in s one after the other, as st says.
Laid(s, t, st) ==
    /\ Len(st) >= 1
    /\ Len(st) <= Len(t) + 1
    /\ st[1] = 1
    /\ st[Len(st)] = Len(s) + 1
    /\ \A j \in 1..(Len(st) - 1) : Stands(s, t[j], st[j], st[j + 1])

Matches ==
    /\ Len(starts) = Len(text) + 1
    /\ Len(result) <= Len(text)
    /\ puri = starts[Len(result) + 1]
    /\ \A j \in 1..Len(result) : result[j] = text[j]

IInv ==
    /\ TypeOK
    /\ pc = "encode" => encoded /\ result = <<>> /\ Len(starts) = puri
    /\ pc # "encode" => puri <= Len(uri) + 1
    /\ pc = "done" => puri = Len(uri) + 1
    /\ encoded => Laid(uri, text, starts)
    /\ encoded /\ pc # "encode" => Matches

-----------------------------------------------------------------------------
\* The two tables are inverse to each other on the digits.
LEMMA Digits ==
    ASSUME NEW d \in 0..15
    PROVE  /\ DEC2HEX(d) \in 0..255
           /\ HEX2DEC(DEC2HEX(d)) = d
BY DEF DEC2HEX, HEX2DEC

LEMMA Nibbles ==
    ASSUME NEW c \in 0..255
    PROVE  /\ c \div 16 \in 0..15
           /\ c % 16 \in 0..15
           /\ (c \div 16) * 16 + (c % 16) = c
OBVIOUS

LEMMA DigitValue ==
    ASSUME NEW c \in 0..255
    PROVE  HEX2DEC(c) \in -1..15
BY DEF HEX2DEC

LEMMA ByteOf ==
    ASSUME NEW S, NEW s \in Seq(S), NEW p \in 1..Len(s)
    PROVE  s[p] \in S
OBVIOUS

LEMMA Appended ==
    ASSUME NEW S, NEW s \in Seq(S), NEW e \in S
    PROVE  /\ Append(s, e) \in Seq(S)
           /\ Len(Append(s, e)) = Len(s) + 1
           /\ Append(s, e)[Len(s) + 1] = e
           /\ \A j \in 1..Len(s) : Append(s, e)[j] = s[j]
OBVIOUS

LEMMA StringsAreSequences ==
    ASSUME NEW s \in Strings
    PROVE  s \in Seq(0..255)
<1>1. PICK n \in 0..MaxLength : s \in [1..n -> Bytes]
  BY DEF Strings
<1>2. n \in Nat
  BY MaxLengthAssumption
<1>3. s \in [1..n -> 0..255]
  BY <1>1, BytesAssumption
<1> QED
  BY <1>2, <1>3

\* What Code puts at the end of a string.
LEMMA CodeAppended ==
    ASSUME NEW c \in 0..255, NEW s \in Seq(0..255)
    PROVE  /\ s \o Code(c) \in Seq(0..255)
           /\ Len(s \o Code(c)) = Len(s) + (IF c \in SAFE THEN 1 ELSE 3)
           /\ \A p \in 1..Len(s) : (s \o Code(c))[p] = s[p]
           /\ c \in SAFE => (s \o Code(c))[Len(s) + 1] = c
           /\ c \notin SAFE =>
                /\ (s \o Code(c))[Len(s) + 1] = Percent
                /\ (s \o Code(c))[Len(s) + 2] = DEC2HEX(c \div 16)
                /\ (s \o Code(c))[Len(s) + 3] = DEC2HEX(c % 16)
<1>1. CASE c \in SAFE
  <2>1. Code(c) = <<c>>
    BY <1>1 DEF Code
  <2> QED
    BY <1>1, <2>1
<1>2. CASE c \notin SAFE
  <2> DEFINE a == DEC2HEX(c \div 16)
             b == DEC2HEX(c % 16)
  <2>1. a \in 0..255 /\ b \in 0..255
    BY Nibbles, Digits
  <2>2. Code(c) = <<Percent, a, b>>
    BY <1>2 DEF Code
  <2>3. Percent \in 0..255
    BY DEF Percent
  <2> HIDE DEF a, b
  <2>4. <<Percent, a, b>> \in Seq(0..255)
    BY <2>1, <2>3
  <2>5. /\ Len(<<Percent, a, b>>) = 3
        /\ <<Percent, a, b>>[1] = Percent
        /\ <<Percent, a, b>>[2] = a
        /\ <<Percent, a, b>>[3] = b
    OBVIOUS
  <2>6. /\ s \o <<Percent, a, b>> \in Seq(0..255)
        /\ Len(s \o <<Percent, a, b>>) = Len(s) + 3
        /\ \A p \in 1..Len(s) : (s \o <<Percent, a, b>>)[p] = s[p]
        /\ (s \o <<Percent, a, b>>)[Len(s) + 1] = Percent
        /\ (s \o <<Percent, a, b>>)[Len(s) + 2] = a
        /\ (s \o <<Percent, a, b>>)[Len(s) + 3] = b
    BY <2>4, <2>5
  <2> QED
    BY <1>2, <2>2, <2>6 DEF a, b
<1> QED
  BY <1>1, <1>2

-----------------------------------------------------------------------------
LEMMA InitInvariant == Init => IInv
<1> SUFFICES ASSUME Init PROVE IInv
  OBVIOUS
<1>1. puri = 1 /\ result = <<>>
  BY DEF Init
<1>2. CASE /\ pc = "encode" /\ encoded = TRUE
           /\ text \in Strings
           /\ uri = <<>>
           /\ starts = <<1>>
  <2>1. text \in Seq(0..255)
    BY <1>2, StringsAreSequences
  <2>2. <<>> \in Seq(0..255) /\ <<1>> \in Seq(Nat \ {0})
    OBVIOUS
  <2>3. TypeOK
    BY <1>1, <1>2, <2>1, <2>2 DEF TypeOK
  <2>4. Laid(<<>>, text, <<1>>)
    BY <2>1 DEF Laid
  <2> QED
    BY <1>1, <1>2, <2>3, <2>4 DEF IInv
<1>3. CASE /\ pc = "decode" /\ encoded = FALSE
           /\ text = <<>>
           /\ uri \in Strings
           /\ starts = <<>>
  <2>1. uri \in Seq(0..255)
    BY <1>3, StringsAreSequences
  <2>2. /\ text \in Seq(0..255)
        /\ result \in Seq(0..255)
        /\ starts \in Seq(Nat \ {0})
    BY <1>1, <1>3
  <2>3. TypeOK
    <3>1. pc \in {"encode", "decode", "done"} /\ encoded \in BOOLEAN
      BY <1>3
    <3>2. puri \in Nat \ {0}
      BY <1>1
    <3> QED
      BY <2>1, <2>2, <3>1, <3>2 DEF TypeOK
  <2>4. 1 <= Len(uri) + 1
    BY <2>1
  <2> QED
    BY <1>1, <1>3, <2>3, <2>4 DEF IInv
<1> QED
  BY <1>2, <1>3 DEF Init

\* A byte that stands in a string stands in every continuation of it.
LEMMA StandsStill ==
    ASSUME NEW s \in Seq(0..255), NEW u \in Seq(0..255),
           Len(s) <= Len(u),
           \A i \in 1..Len(s) : u[i] = s[i],
           NEW c, NEW p \in Nat \ {0}, NEW next,
           Stands(s, c, p, next)
    PROVE  Stands(u, c, p, next)
<1>1. CASE c \in SAFE
  <2>1. next = p + 1 /\ next <= Len(s) + 1 /\ s[p] = c
    BY <1>1 DEF Stands
  <2>2. p \in 1..Len(s) /\ next <= Len(u) + 1
    BY <2>1
  <2> QED
    BY <1>1, <2>1, <2>2 DEF Stands
<1>2. CASE c \notin SAFE
  <2>1. /\ next = p + 3 /\ next <= Len(s) + 1
        /\ s[p] = Percent
        /\ s[p + 1] = DEC2HEX(c \div 16)
        /\ s[p + 2] = DEC2HEX(c % 16)
    BY <1>2 DEF Stands
  <2>2. /\ {p, p + 1, p + 2} \subseteq 1..Len(s)
        /\ next <= Len(u) + 1
    BY <2>1
  <2>3. u[p] = s[p] /\ u[p + 1] = s[p + 1] /\ u[p + 2] = s[p + 2]
    BY <2>2
  <2> QED
    BY <1>2, <2>1, <2>2, <2>3 DEF Stands
<1> QED
  BY <1>1, <1>2

LEMMA StandsLast ==
    ASSUME NEW s \in Seq(0..255), NEW c \in 0..255,
           NEW u, u = s \o Code(c)
    PROVE  Stands(u, c, Len(s) + 1, Len(u) + 1)
<1>1. CASE c \in SAFE
  <2>1. Len(u) = Len(s) + 1 /\ u[Len(s) + 1] = c
    BY <1>1, CodeAppended
  <2> QED
    BY <1>1, <2>1 DEF Stands
<1>2. CASE c \notin SAFE
  <2> DEFINE p == Len(s) + 1
  <2>1. p \in Nat /\ p + 1 = Len(s) + 2 /\ p + 2 = Len(s) + 3
    OBVIOUS
  <2>2. /\ Len(u) = Len(s) + 3
        /\ u[Len(s) + 1] = Percent
        /\ u[Len(s) + 2] = DEC2HEX(c \div 16)
        /\ u[Len(s) + 3] = DEC2HEX(c % 16)
    BY <1>2, CodeAppended
  <2>3. Len(u) + 1 = p + 3 /\ p + 3 <= Len(u) + 1
    BY <2>2
  <2>4. /\ u[p] = Percent
        /\ u[p + 1] = DEC2HEX(c \div 16)
        /\ u[p + 2] = DEC2HEX(c % 16)
    BY <2>1, <2>2
  <2> HIDE DEF p
  <2>5. Stands(u, c, p, Len(u) + 1)
    BY <1>2, <2>3, <2>4 DEF Stands
  <2> QED
    BY <2>5 DEF p
<1> QED
  BY <1>1, <1>2

\* A round of UriEncode lays the code of the next byte.
LEMMA LaidFurther ==
    ASSUME NEW s \in Seq(0..255), NEW t \in Seq(0..255),
           NEW st \in Seq(Nat \ {0}), Laid(s, t, st),
           NEW n, n = Len(st), n <= Len(t),
           NEW u, u = s \o Code(t[n]),
           NEW st2, st2 = Append(st, Len(u) + 1)
    PROVE  Laid(u, t, st2)
<1>1. n \in Nat \ {0} /\ t[n] \in 0..255
  <2>1. n \in Nat /\ 1 <= n
    BY DEF Laid
  <2>2. n \in 1..Len(t)
    BY <2>1
  <2>3. t[n] \in 0..255
    BY <2>2, ByteOf
  <2> QED
    BY <2>1, <2>3
<1>2. /\ u \in Seq(0..255)
      /\ Len(s) <= Len(u)
      /\ \A p \in 1..Len(s) : u[p] = s[p]
  <2>1. /\ s \o Code(t[n]) \in Seq(0..255)
        /\ Len(s \o Code(t[n])) = Len(s) + (IF t[n] \in SAFE THEN 1 ELSE 3)
        /\ \A p \in 1..Len(s) : (s \o Code(t[n]))[p] = s[p]
    <3> DEFINE c == t[n]
    <3>1. c \in 0..255
      BY <1>1
    <3> HIDE DEF c
    <3>2. /\ s \o Code(c) \in Seq(0..255)
          /\ Len(s \o Code(c)) = Len(s) + (IF c \in SAFE THEN 1 ELSE 3)
          /\ \A p \in 1..Len(s) : (s \o Code(c))[p] = s[p]
      BY <3>1, CodeAppended
    <3> QED
      BY <3>2 DEF c
  <2>2. (IF t[n] \in SAFE THEN 1 ELSE 3) >= 0
    OBVIOUS
  <2>3. Len(s) \in Nat
    OBVIOUS
  <2>4. Len(s) <= Len(u)
    BY <2>1, <2>2, <2>3
  <2> QED
    BY <2>1, <2>4
<1>3. st[n] = Len(s) + 1 /\ st[1] = 1
  BY DEF Laid
<1>4. /\ st2 \in Seq(Nat \ {0}) /\ Len(st2) = n + 1
      /\ st2[n + 1] = Len(u) + 1
      /\ \A j \in 1..n : st2[j] = st[j]
  <2>1. Len(u) + 1 \in Nat \ {0}
    BY <1>2
  <2> DEFINE e == Len(u) + 1
  <2> HIDE DEF e
  <2>2. /\ Append(st, e) \in Seq(Nat \ {0})
        /\ Len(Append(st, e)) = Len(st) + 1
        /\ Append(st, e)[Len(st) + 1] = e
        /\ \A j \in 1..Len(st) : Append(st, e)[j] = st[j]
    BY <2>1, Appended DEF e
  <2> QED
    BY <2>2 DEF e
<1>5. ASSUME NEW j \in 1..n
      PROVE  Stands(u, t[j], st2[j], st2[j + 1])
  <2>1. CASE j = n
    <3>1. Stands(u, t[n], Len(s) + 1, Len(u) + 1)
      BY <1>1, StandsLast
    <3> QED
      BY <1>3, <1>4, <2>1, <3>1
  <2>2. CASE j # n
    <3>1. j \in 1..(n - 1) /\ j + 1 \in 1..n
      BY <1>1, <2>2
    <3>2. Stands(s, t[j], st[j], st[j + 1])
      BY <3>1 DEF Laid
    <3>3. st2[j] = st[j] /\ st2[j + 1] = st[j + 1]
      BY <1>4, <3>1
    <3>4. st[j] \in Nat \ {0}
      BY <3>1
    <3>5. Stands(u, t[j], st[j], st[j + 1])
      BY <1>2, <3>2, <3>4, StandsStill
    <3> QED
      BY <3>3, <3>5
  <2> QED
    BY <2>1, <2>2
<1> QED
  BY <1>1, <1>3, <1>4, <1>5 DEF Laid

LEMMA EncodeKeeps ==
    ASSUME IInv, UriEncode
    PROVE  IInv'
<1>1. /\ pc = "encode" /\ puri <= Len(text) /\ encoded
      /\ Laid(uri, text, starts) /\ result = <<>> /\ Len(starts) = puri
      /\ text \in Seq(0..255) /\ uri \in Seq(0..255)
      /\ starts \in Seq(Nat \ {0}) /\ puri \in Nat \ {0}
  BY DEF UriEncode, IInv, TypeOK
<1>2. /\ uri' = uri \o Code(text[puri])
      /\ starts' = Append(starts, Len(uri') + 1)
      /\ puri' = puri + 1 /\ pc' = pc /\ encoded' = encoded
      /\ text' = text /\ result' = result
  BY DEF UriEncode
<1>3. Laid(uri', text, starts')
  BY <1>1, <1>2, LaidFurther
<1>4. uri' \in Seq(0..255)
  <2>1. puri \in 1..Len(text)
    BY <1>1
  <2>2. text[puri] \in 0..255
    BY <1>1, <2>1, ByteOf
  <2> QED
    BY <1>1, <1>2, <2>2, CodeAppended
<1>5. starts' \in Seq(Nat \ {0}) /\ Len(starts') = puri'
  BY <1>1, <1>2, <1>4
<1>6. TypeOK'
  BY <1>1, <1>2, <1>4, <1>5 DEF TypeOK, IInv
<1> QED
  BY <1>1, <1>2, <1>3, <1>5, <1>6 DEF IInv

LEMMA EncodeDoneKeeps ==
    ASSUME IInv, EncodeDone
    PROVE  IInv'
<1>1. /\ pc = "encode" /\ puri > Len(text) /\ encoded
      /\ Laid(uri, text, starts) /\ result = <<>> /\ Len(starts) = puri
      /\ text \in Seq(0..255) /\ uri \in Seq(0..255)
      /\ starts \in Seq(Nat \ {0}) /\ puri \in Nat \ {0}
  BY DEF EncodeDone, IInv, TypeOK
<1>2. /\ pc' = "decode" /\ puri' = 1 /\ encoded' = encoded
      /\ text' = text /\ uri' = uri /\ result' = result /\ starts' = starts
  BY DEF EncodeDone
<1>3. TypeOK'
  BY <1>1, <1>2 DEF TypeOK, IInv
<1>4. Len(result) = 0
  BY <1>1
<1>5. Len(starts) = Len(text) + 1 /\ starts[1] = 1
  BY <1>1 DEF Laid
<1>6. Matches'
  BY <1>1, <1>2, <1>4, <1>5 DEF Matches
<1>7. 1 <= Len(uri) + 1
  BY <1>1
<1> QED
  BY <1>1, <1>2, <1>3, <1>6, <1>7 DEF IInv

-----------------------------------------------------------------------------
\* What UriDecode does at a byte that stands in the string, whatever follows.
LEMMA SafeBytes ==
    ASSUME NEW c \in SAFE
    PROVE  c # Percent /\ c # Plus
BY DEF SAFE, Percent, Plus

\* The next byte of the text stands where UriDecode is.
LEMMA NextStands ==
    ASSUME NEW s, NEW t \in Seq(0..255), NEW st \in Seq(Nat \ {0}),
           Laid(s, t, st), Len(st) = Len(t) + 1,
           NEW n \in Nat, n <= Len(t),
           s \in Seq(0..255),
           st[n + 1] <= Len(s)
    PROVE  /\ n < Len(t)
           /\ Stands(s, t[n + 1], st[n + 1], st[n + 2])
           /\ t[n + 1] \in 0..255
<1>1. n # Len(t)
  BY DEF Laid
<1>2. n < Len(t)
  BY <1>1
<1>3. n + 1 \in 1..(Len(st) - 1) /\ n + 1 \in 1..Len(t) /\ (n + 1) + 1 = n + 2
  BY <1>2
<1>4. Stands(s, t[n + 1], st[n + 1], st[(n + 1) + 1])
  BY <1>3 DEF Laid
<1> QED
  BY <1>2, <1>3, <1>4, ByteOf

\* The step of UriDecode that appends e to its result and goes on at next
\* keeps the invariant if that is what stands there.
LEMMA DecodeStep ==
    ASSUME IInv, pc = "decode", NEW e \in 0..255, NEW next \in Nat \ {0},
           puri <= Len(uri), next <= Len(uri) + 1,
           encoded => \A c \in 0..255 : \A q :
                        Stands(uri, c, puri, q) => e = c /\ next = q,
           result' = Append(result, e), puri' = next,
           UNCHANGED <<pc, encoded, text, uri, starts>>
    PROVE  IInv'
<1>1. /\ text \in Seq(0..255) /\ uri \in Seq(0..255)
      /\ result \in Seq(0..255)
      /\ starts \in Seq(Nat \ {0}) /\ puri \in Nat \ {0}
      /\ encoded \in BOOLEAN
  BY DEF IInv, TypeOK
<1>2. /\ result' \in Seq(0..255)
      /\ Len(result') = Len(result) + 1
      /\ result'[Len(result) + 1] = e
      /\ \A j \in 1..Len(result) : result'[j] = result[j]
  BY <1>1, Appended
<1>3. TypeOK'
  BY <1>1, <1>2 DEF TypeOK
<1>4. ASSUME encoded
      PROVE  Matches'
  <2> DEFINE n == Len(result)
  <2>1. /\ Len(starts) = Len(text) + 1
        /\ n \in Nat /\ n <= Len(text)
        /\ puri = starts[n + 1]
        /\ \A j \in 1..n : result[j] = text[j]
        /\ Laid(uri, text, starts)
    BY <1>1, <1>4 DEF IInv, Matches
  <2>2. /\ n < Len(text)
        /\ Stands(uri, text[n + 1], puri, starts[n + 2])
        /\ text[n + 1] \in 0..255
    BY <1>1, <2>1, NextStands
  <2>3. e = text[n + 1] /\ next = starts[n + 2]
    BY <1>4, <2>2
  <2>4. /\ Len(result') <= Len(text')
        /\ puri' = starts'[Len(result') + 1]
    <3>1. Len(result') = n + 1 /\ n + 1 <= Len(text) /\ (n + 1) + 1 = n + 2
      BY <1>1, <1>2, <2>1, <2>2
    <3> QED
      BY <2>3, <3>1
  <2>5. ASSUME NEW j \in 1..Len(result')
        PROVE  result'[j] = text'[j]
    <3>1. CASE j = n + 1
      BY <1>2, <2>3, <3>1
    <3>2. CASE j # n + 1
      <4>1. j \in 1..n
        BY <1>2, <2>1, <3>2
      <4> QED
        BY <1>2, <2>1, <4>1
    <3> QED
      BY <3>1, <3>2
  <2> QED
    BY <2>1, <2>4, <2>5 DEF Matches
<1>5. /\ encoded' = encoded /\ pc' = pc /\ pc = "decode"
      /\ puri' <= Len(uri') + 1
      /\ encoded => Laid(uri', text', starts')
  BY DEF IInv
<1> QED
  BY <1>3, <1>4, <1>5 DEF IInv

LEMMA DecodeEscapeKeeps ==
    ASSUME IInv, DecodeEscape
    PROVE  IInv'
<1>1. /\ uri \in Seq(0..255) /\ puri \in Nat \ {0}
      /\ pc = "decode" /\ puri <= Len(uri) - 2
      /\ IsEscape(puri)
      /\ result' = Append(result, Escaped(puri)) /\ puri' = puri + 3
      /\ UNCHANGED <<pc, encoded, text, uri, starts>>
  BY DEF DecodeEscape, SRC_LAST_DEC, IInv, TypeOK
<1>2. {puri + 1, puri + 2} \subseteq 1..Len(uri)
  BY <1>1
<1>3. Escaped(puri) \in 0..255
  <2>1. uri[puri + 1] \in 0..255 /\ uri[puri + 2] \in 0..255
    BY <1>1, <1>2, ByteOf
  <2>2. /\ HEX2DEC(uri[puri + 1]) \in 0..15
        /\ HEX2DEC(uri[puri + 2]) \in 0..15
    <3>1. HEX2DEC(uri[puri + 1]) # -1 /\ HEX2DEC(uri[puri + 2]) # -1
      BY <1>1 DEF IsEscape
    <3>2. /\ HEX2DEC(uri[puri + 1]) \in -1..15
          /\ HEX2DEC(uri[puri + 2]) \in -1..15
      BY <2>1, DigitValue
    <3> QED
      BY <3>1, <3>2
  <2> QED
    BY <2>2 DEF Escaped
<1>4. ASSUME NEW c \in 0..255, NEW q, Stands(uri, c, puri, q)
      PROVE  Escaped(puri) = c /\ puri + 3 = q
  <2>1. c \notin SAFE
    BY <1>1, <1>4, SafeBytes DEF Stands, IsEscape
  <2>2. /\ q = puri + 3
        /\ uri[puri + 1] = DEC2HEX(c \div 16)
        /\ uri[puri + 2] = DEC2HEX(c % 16)
    BY <1>4, <2>1 DEF Stands
  <2>3. /\ HEX2DEC(uri[puri + 1]) = c \div 16
        /\ HEX2DEC(uri[puri + 2]) = c % 16
    BY <2>2, Nibbles, Digits
  <2>4. Escaped(puri) = (c \div 16) * 16 + (c % 16)
    BY <2>3 DEF Escaped
  <2> QED
    BY <2>2, <2>4, Nibbles
<1>5. puri <= Len(uri) /\ puri + 3 <= Len(uri) + 1 /\ puri + 3 \in Nat \ {0}
  BY <1>1
<1> QED
  BY <1>1, <1>3, <1>4, <1>5, DecodeStep

LEMMA DecodePlusKeeps ==
    ASSUME IInv, DecodePlus
    PROVE  IInv'
<1>1. /\ uri \in Seq(0..255) /\ puri \in Nat \ {0}
      /\ pc = "decode" /\ puri <= Len(uri) - 2
      /\ uri[puri] = Plus
      /\ result' = Append(result, Space) /\ puri' = puri + 1
      /\ UNCHANGED <<pc, encoded, text, uri, starts>>
  BY DEF DecodePlus, SRC_LAST_DEC, IInv, TypeOK
<1>2. ASSUME NEW c \in 0..255, NEW q, Stands(uri, c, puri, q)
      PROVE  FALSE
  <2>1. uri[puri] # Plus
    BY <1>2, SafeBytes DEF Stands, Percent, Plus
  <2> QED
    BY <1>1, <2>1
<1>3. /\ puri <= Len(uri) /\ puri + 1 <= Len(uri) + 1
      /\ puri + 1 \in Nat \ {0} /\ Space \in 0..255
  BY <1>1 DEF Space
<1> QED
  BY <1>1, <1>2, <1>3, DecodeStep

\* A byte that stands as itself is copied: what begins no escape is safe.
LEMMA CopyKeeps ==
    ASSUME IInv, pc = "decode", puri <= Len(uri),
           encoded => \A c \in 0..255 : \A q : Stands(uri, c, puri, q) => c \in SAFE,
           result' = Append(result, uri[puri]), puri' = puri + 1,
           UNCHANGED <<pc, encoded, text, uri, starts>>
    PROVE  IInv'
<1>1. uri \in Seq(0..255) /\ puri \in Nat \ {0}
  BY DEF IInv, TypeOK
<1>2. puri \in 1..Len(uri) /\ puri + 1 <= Len(uri) + 1 /\ puri + 1 \in Nat \ {0}
  BY <1>1
<1>3. uri[puri] \in 0..255
  BY <1>1, <1>2, ByteOf
<1>4. ASSUME encoded, NEW c \in 0..255, NEW q, Stands(uri, c, puri, q)
      PROVE  uri[puri] = c /\ puri + 1 = q
  BY <1>4 DEF Stands
<1> QED
  BY <1>2, <1>3, <1>4, DecodeStep

LEMMA DecodeOtherKeeps ==
    ASSUME IInv, DecodeOther
    PROVE  IInv'
<1>1. /\ uri \in Seq(0..255) /\ puri \in Nat \ {0}
      /\ pc = "decode" /\ puri <= Len(uri) - 2
      /\ ~IsEscape(puri)
      /\ result' = Append(result, uri[puri]) /\ puri' = puri + 1
      /\ UNCHANGED <<pc, encoded, text, uri, starts>>
  BY DEF DecodeOther, SRC_LAST_DEC, IInv, TypeOK
<1>2. ASSUME NEW c \in 0..255, NEW q, Stands(uri, c, puri, q), c \notin SAFE
      PROVE  FALSE
  <2>1. /\ uri[puri] = Percent
        /\ uri[puri + 1] = DEC2HEX(c \div 16)
        /\ uri[puri + 2] = DEC2HEX(c % 16)
    BY <1>2 DEF Stands
  <2>2. /\ HEX2DEC(uri[puri + 1]) \in 0..15
        /\ HEX2DEC(uri[puri + 2]) \in 0..15
    BY <2>1, Nibbles, Digits
  <2>3. IsEscape(puri)
    BY <2>1, <2>2 DEF IsEscape
  <2> QED
    BY <1>1, <2>3
<1>3. puri <= Len(uri)
  BY <1>1
<1> QED
  BY <1>1, <1>2, <1>3, CopyKeeps

\* No escape that UriEncode wrote begins in the last two bytes.
LEMMA DecodeLastKeeps ==
    ASSUME IInv, DecodeLast
    PROVE  IInv'
<1>1. /\ uri \in Seq(0..255) /\ puri \in Nat \ {0}
      /\ pc = "decode" /\ Len(uri) - 2 < puri /\ puri <= Len(uri)
      /\ result' = Append(result, uri[puri]) /\ puri' = puri + 1
      /\ UNCHANGED <<pc, encoded, text, uri, starts>>
  BY DEF DecodeLast, SRC_LAST_DEC, IInv, TypeOK
<1>2. ASSUME NEW c \in 0..255, NEW q, Stands(uri, c, puri, q), c \notin SAFE
      PROVE  FALSE
  <2>1. puri + 3 <= Len(uri) + 1
    BY <1>2 DEF Stands
  <2> QED
    BY <1>1, <2>1
<1> QED
  BY <1>1, <1>2, CopyKeeps

LEMMA DecodeDoneKeeps ==
    ASSUME IInv, DecodeDone
    PROVE  IInv'
<1>1. /\ pc = "decode" /\ puri = Len(uri) + 1
      /\ pc' = "done"
      /\ UNCHANGED <<encoded, text, uri, puri, result, starts>>
  <2>1. pc = "decode" /\ puri > Len(uri) /\ puri <= Len(uri) + 1
        /\ puri \in Nat \ {0} /\ uri \in Seq(0..255)
    BY DEF DecodeDone, IInv, TypeOK
  <2>2. puri = Len(uri) + 1
    BY <2>1
  <2> QED
    BY <2>1, <2>2 DEF DecodeDone
<1>2. TypeOK'
  BY <1>1 DEF IInv, TypeOK
<1>3. encoded => Laid(uri', text', starts') /\ Matches'
  BY <1>1 DEF IInv, Matches
<1> QED
  BY <1>1, <1>2, <1>3 DEF IInv

LEMMA StutterKeeps ==
    ASSUME IInv, UNCHANGED vars
    PROVE  IInv'
BY DEF IInv, TypeOK, Matches, vars

LEMMA IInvHolds == Spec => []IInv
<1>1. IInv /\ [Next]_vars => IInv'
  BY EncodeKeeps, EncodeDoneKeeps, DecodeEscapeKeeps, DecodePlusKeeps,
     DecodeOtherKeeps, DecodeLastKeeps, DecodeDoneKeeps, StutterKeeps DEF Next
<1> QED
  BY <1>1, InitInvariant, PTL DEF Spec

-----------------------------------------------------------------------------
\* Every variable keeps its type; in particular what UriDecode writes is a
\* byte, whatever it was given (uri_codec.h:71-96).
THEOREM TypeCorrect == Spec => []TypeOK
<1>1. IInv => TypeOK
  BY DEF IInv
<1> QED
  BY <1>1, IInvHolds, PTL

\* UriDecode gives back what UriEncode was given, for texts of every length
\* and of all bytes (uri_codec.h:60-121).
THEOREM DecodeUndoesEncode == Spec => []RoundTrip
<1>1. IInv => RoundTrip
  <2> SUFFICES ASSUME IInv, pc = "done", encoded PROVE result = text
    BY DEF RoundTrip
  <2>1. /\ text \in Seq(0..255) /\ result \in Seq(0..255)
        /\ uri \in Seq(0..255) /\ starts \in Seq(Nat \ {0})
        /\ Laid(uri, text, starts)
        /\ Len(starts) = Len(text) + 1 /\ Len(result) <= Len(text)
        /\ puri = starts[Len(result) + 1]
        /\ \A j \in 1..Len(result) : result[j] = text[j]
        /\ puri = Len(uri) + 1
    BY DEF IInv, TypeOK, Matches
  <2>2. Len(result) = Len(text)
    <3>1. SUFFICES ASSUME Len(result) < Len(text) PROVE FALSE
      BY <2>1
    <3> DEFINE j == Len(result) + 1
    <3>2. j \in 1..(Len(starts) - 1)
      BY <2>1, <3>1
    <3>3. Stands(uri, text[j], starts[j], starts[j + 1])
      BY <2>1, <3>2 DEF Laid
    <3>4. starts[j] = Len(uri) + 1
      BY <2>1
    <3>5. Len(uri) \in Nat
      BY <2>1
    <3> HIDE DEF j
    <3> QED
      BY <3>3, <3>4, <3>5 DEF Stands
  <2> QED
    BY <2>1, <2>2
<1> QED
  BY <1>1, IInvHolds, PTL

-----------------------------------------------------------------------------
(***************************************************************************)
(* Decoding by position.  The bytes that are kept, counted up to where     *)
(* UriDecode stands, are those of its result: the second invariant says    *)
(* which is which, and that UriDecode never stands inside an escape.       *)
(***************************************************************************)
KeptBefore(n) == {o \in Kept : o < n}

KeptUpTo(p) == {o \in Kept : o <= p}

Meaning(p) ==
    IF p \in Escapes THEN Escaped(p)
    ELSE IF p \in Pluses /\ p <= Len(uri) - 2 THEN Space
    ELSE uri[p]

ReadSoFar(r, n) ==
    /\ Len(r) = Cardinality(KeptBefore(n))
    /\ \A p \in KeptBefore(n) : r[Cardinality(KeptUpTo(p))] = Meaning(p)
    /\ n - 1 \notin Escapes /\ n - 2 \notin Escapes

DInv == pc # "encode" => ReadSoFar(result, puri)

\* Counting the elements of a set of places in their order.
LEMMA Places ==
    ASSUME NEW K, IsFiniteSet(K), K \subseteq Nat, NEW n \in Nat,
           NEW before, before = {o \in K : o < n}
    PROVE  /\ IsFiniteSet(before)
           /\ Cardinality(before) \in Nat
           /\ \A p \in before :
                LET upto == {o \in K : o <= p}
                IN  /\ Cardinality(upto) \in Nat
                    /\ 1 <= Cardinality(upto)
                    /\ Cardinality(upto) <= Cardinality(before)
<1>1. IsFiniteSet(before) /\ Cardinality(before) \in Nat
  <2>1. before \in SUBSET K
    OBVIOUS
  <2>2. IsFiniteSet(before)
    BY <2>1, FS_Subset
  <2> QED
    BY <2>2, FS_CardinalityType
<1>2. ASSUME NEW p \in before, NEW upto, upto = {o \in K : o <= p}
      PROVE  /\ Cardinality(upto) \in Nat
             /\ 1 <= Cardinality(upto)
             /\ Cardinality(upto) <= Cardinality(before)
  <2>1. upto \in SUBSET before
    <3>1. p \in Nat /\ p < n
      OBVIOUS
    <3>2. \A o \in upto : o \in K /\ o \in Nat /\ o < n
      BY <1>2, <3>1
    <3> QED
      BY <3>2
  <2>2. IsFiniteSet(upto) /\ Cardinality(upto) <= Cardinality(before)
    BY <1>1, <2>1, FS_Subset
  <2>3. Cardinality(upto) \in Nat
    BY <2>2, FS_CardinalityType
  <2>4. p \in upto
    BY <1>2
  <2>5. Cardinality(upto) # 0
    BY <2>2, <2>4, FS_EmptySet
  <2> QED
    BY <2>2, <2>3, <2>5
<1> QED
  BY <1>1, <1>2

\* One place more.
LEMMA NextPlace ==
    ASSUME NEW K, IsFiniteSet(K), K \subseteq Nat, NEW p \in K
    PROVE  Cardinality({o \in K : o <= p}) = Cardinality({o \in K : o < p}) + 1
<1> DEFINE before == {o \in K : o < p}
<1>1. {o \in K : o <= p} = before \cup {p} /\ p \notin before
  <2>1. \A o \in K : o <= p <=> o < p \/ o = p
    OBVIOUS
  <2>2. ~(p < p)
    OBVIOUS
  <2> QED
    BY <2>1, <2>2
<1>2. IsFiniteSet(before)
  <2>1. before \in SUBSET K
    OBVIOUS
  <2> QED
    BY <2>1, FS_Subset
<1> HIDE DEF before
<1>3. Cardinality(before \cup {p}) = Cardinality(before) + 1
  BY <1>1, <1>2, FS_AddElement
<1> QED
  BY <1>1, <1>3 DEF before

LEMMA KeptPlaces ==
    ASSUME uri \in Seq(0..255)
    PROVE  IsFiniteSet(Kept) /\ Kept \subseteq Nat
<1>1. Kept \in SUBSET (1..Len(uri)) /\ Len(uri) \in Nat
  BY DEF Kept
<1>2. IsFiniteSet(1..Len(uri))
  BY <1>1, FS_Interval
<1>3. IsFiniteSet(Kept)
  BY <1>1, <1>2, FS_Subset
<1> QED
  BY <1>1, <1>3

\* The table knows the digits.
LEMMA HexDigit ==
    ASSUME NEW c \in 0..255
    PROVE  HEX2DEC(c) # -1 <=> c \in HexDigits
BY DEF HEX2DEC, HexDigits

LEMMA EscapesAre ==
    ASSUME uri \in Seq(0..255), NEW p \in 1..(Len(uri) - 2)
    PROVE  p \in Escapes <=> IsEscape(p)
<1>1. Len(uri) \in Nat /\ p + 1 \in 1..Len(uri) /\ p + 2 \in 1..Len(uri)
  OBVIOUS
<1>2. uri[p + 1] \in 0..255 /\ uri[p + 2] \in 0..255
  BY <1>1, ByteOf
<1>3. /\ HEX2DEC(uri[p + 1]) # -1 <=> uri[p + 1] \in HexDigits
      /\ HEX2DEC(uri[p + 2]) # -1 <=> uri[p + 2] \in HexDigits
  BY <1>2, HexDigit
<1>4. {uri[p + 1], uri[p + 2]} \subseteq HexDigits <=>
        HEX2DEC(uri[p + 1]) # -1 /\ HEX2DEC(uri[p + 2]) # -1
  BY <1>3
<1> QED
  BY <1>4 DEF Escapes, IsEscape

\* No escape begins inside another: '%' is no digit.
LEMMA EscapesApart ==
    ASSUME uri \in Seq(0..255), NEW p \in Escapes
    PROVE  p + 1 \notin Escapes /\ p + 2 \notin Escapes
<1>1. uri[p + 1] \in HexDigits /\ uri[p + 2] \in HexDigits
  BY DEF Escapes
<1>2. Percent \notin HexDigits
  BY DEF Percent, HexDigits
<1> QED
  BY <1>1, <1>2 DEF Escapes

\* A round that gives the byte at n its meaning, and goes on to the next byte
\* that is kept.
LEMMA ReadOn ==
    ASSUME uri \in Seq(0..255), NEW r \in Seq(0..255), NEW n \in Nat \ {0},
           n <= Len(uri), ReadSoFar(r, n),
           NEW e \in 0..255, e = Meaning(n),
           NEW next \in Nat, next = IF n \in Escapes THEN n + 3 ELSE n + 1
    PROVE  ReadSoFar(Append(r, e), next)
<1> DEFINE more == Append(r, e)
<1>1. /\ IsFiniteSet(Kept) /\ Kept \subseteq Nat
      /\ Len(uri) \in Nat /\ Len(r) \in Nat
  BY KeptPlaces
<1>2. n \in Kept
  <2>1. n - 1 \notin Escapes /\ n - 2 \notin Escapes /\ n \in 1..Len(uri)
    BY <1>1 DEF ReadSoFar
  <2> QED
    BY <2>1 DEF Kept
<1>3. KeptBefore(next) = KeptUpTo(n)
  <2>1. CASE n \in Escapes
    <3>1. next = n + 3
      BY <2>1
    <3>2. n + 1 \notin Kept /\ n + 2 \notin Kept
      <4>1. (n + 1) - 1 = n /\ (n + 2) - 2 = n
        OBVIOUS
      <4> QED
        BY <2>1, <4>1 DEF Kept
    <3>3. \A o \in Nat : o < n + 3 <=> o <= n \/ o = n + 1 \/ o = n + 2
      OBVIOUS
    <3>4. \A o \in Kept : o < next <=> o <= n
      BY <1>1, <3>1, <3>2, <3>3
    <3> QED
      BY <3>4 DEF KeptBefore, KeptUpTo
  <2>2. CASE n \notin Escapes
    <3>1. next = n + 1
      BY <2>2
    <3>2. \A o \in Kept : o < next <=> o <= n
      BY <1>1, <3>1
    <3> QED
      BY <3>2 DEF KeptBefore, KeptUpTo
  <2> QED
    BY <2>1, <2>2
<1>4. KeptUpTo(n) = KeptBefore(n) \cup {n}
  <2>1. \A o \in Kept : o <= n <=> o < n \/ o = n
    BY <1>1
  <2> QED
    BY <1>2, <2>1 DEF KeptBefore, KeptUpTo
<1>5. Cardinality(KeptUpTo(n)) = Len(r) + 1
  <2>1. Cardinality({o \in Kept : o <= n}) = Cardinality({o \in Kept : o < n}) + 1
    BY <1>1, <1>2, NextPlace
  <2>2. Len(r) = Cardinality(KeptBefore(n))
    BY DEF ReadSoFar
  <2> QED
    BY <2>1, <2>2 DEF KeptUpTo, KeptBefore
<1>6. /\ Len(more) = Len(r) + 1 /\ more[Len(r) + 1] = e
      /\ \A j \in 1..Len(r) : more[j] = r[j]
  BY Appended
<1> HIDE DEF more
<1>7. ASSUME NEW p \in KeptBefore(n)
      PROVE  more[Cardinality(KeptUpTo(p))] = Meaning(p)
  <2>1. Cardinality(KeptUpTo(p)) \in 1..Len(r)
    <3>1. /\ Cardinality({o \in Kept : o <= p}) \in Nat
          /\ 1 <= Cardinality({o \in Kept : o <= p})
          /\ Cardinality({o \in Kept : o <= p}) <= Cardinality(KeptBefore(n))
      BY <1>1, Places DEF KeptBefore
    <3>2. Len(r) = Cardinality(KeptBefore(n))
      BY DEF ReadSoFar
    <3> QED
      BY <1>1, <3>1, <3>2 DEF KeptUpTo
  <2>2. r[Cardinality(KeptUpTo(p))] = Meaning(p)
    BY DEF ReadSoFar
  <2> QED
    BY <1>6, <2>1, <2>2
<1>8. \A p \in KeptBefore(next) : more[Cardinality(KeptUpTo(p))] = Meaning(p)
  BY <1>3, <1>4, <1>5, <1>6, <1>7
<1>9. next - 1 \notin Escapes /\ next - 2 \notin Escapes
  <2>1. CASE n \in Escapes
    <3>1. next - 1 = n + 2 /\ next - 2 = n + 1
      BY <2>1
    <3> QED
      BY <2>1, <3>1, EscapesApart
  <2>2. CASE n \notin Escapes
    <3>1. next - 1 = n /\ next - 2 = n - 1
      BY <2>2
    <3> QED
      BY <2>2, <3>1 DEF ReadSoFar
  <2> QED
    BY <2>1, <2>2
<1>10. Len(more) = Cardinality(KeptBefore(next))
  BY <1>3, <1>5, <1>6
<1>11. ReadSoFar(more, next)
  BY <1>8, <1>9, <1>10 DEF ReadSoFar
<1> QED
  BY <1>11 DEF more

LEMMA NothingRead ==
    ASSUME uri \in Seq(0..255)
    PROVE  ReadSoFar(<<>>, 1)
<1>1. Kept \subseteq Nat /\ 0 \notin Kept
  BY KeptPlaces DEF Kept
<1>2. KeptBefore(1) = {}
  <2>1. \A o \in Nat : o < 1 => o = 0
    OBVIOUS
  <2> QED
    BY <1>1, <2>1 DEF KeptBefore
<1>3. 1 - 1 \notin Escapes /\ 1 - 2 \notin Escapes
  BY DEF Escapes
<1>4. Len(<<>>) = Cardinality({})
  BY FS_EmptySet
<1> QED
  BY <1>2, <1>3, <1>4 DEF ReadSoFar

\* What ReadSoFar says does not depend on anything but uri.
LEMMA ReadStays ==
    ASSUME uri' = uri, NEW r, NEW n, ReadSoFar(r, n), r = result', n = puri'
    PROVE  ReadSoFar(result, puri)'
<1>1. Escapes' = Escapes /\ Pluses' = Pluses
  BY DEF Escapes, Pluses
<1>2. Kept' = Kept
  BY <1>1 DEF Kept
<1> QED
  BY <1>1, <1>2 DEF ReadSoFar, KeptBefore, KeptUpTo, Meaning, Escaped

LEMMA DInvStep ==
    ASSUME IInv, DInv, [Next]_vars
    PROVE  DInv'
<1>1. /\ uri \in Seq(0..255) /\ result \in Seq(0..255)
      /\ puri \in Nat \ {0} /\ Len(uri) \in Nat
  BY DEF IInv, TypeOK
<1>2. CASE UriEncode
  BY <1>2 DEF UriEncode, DInv
<1>3. CASE EncodeDone
  <2>1. uri' = uri /\ result' = <<>> /\ puri' = 1
    BY <1>3 DEF EncodeDone, IInv
  <2>2. ReadSoFar(<<>>, 1)
    BY <1>1, NothingRead
  <2>3. ReadSoFar(result, puri)'
    BY <2>1, <2>2, ReadStays
  <2> QED
    BY <2>3 DEF DInv
<1>4. ASSUME pc = "decode", puri <= Len(uri), uri' = uri,
             NEW e \in 0..255, e = Meaning(puri),
             result' = Append(result, e),
             puri' = IF puri \in Escapes THEN puri + 3 ELSE puri + 1
      PROVE  DInv'
  <2> DEFINE next == IF puri \in Escapes THEN puri + 3 ELSE puri + 1
  <2>1. next \in Nat
    BY <1>1
  <2>2. ReadSoFar(result, puri)
    BY <1>4 DEF DInv
  <2>3. ReadSoFar(Append(result, e), next)
    BY <1>1, <1>4, <2>1, <2>2, ReadOn
  <2> HIDE DEF next
  <2>4. ReadSoFar(result, puri)'
    BY <1>4, <2>3, ReadStays DEF next
  <2> QED
    BY <2>4 DEF DInv
<1>5. CASE DecodeEscape
  <2>1. /\ pc = "decode" /\ puri <= Len(uri) - 2 /\ IsEscape(puri)
        /\ uri' = uri /\ result' = Append(result, Escaped(puri))
        /\ puri' = puri + 3
    BY <1>5 DEF DecodeEscape, SRC_LAST_DEC
  <2>2. puri \in Escapes
    <3>1. puri \in 1..(Len(uri) - 2)
      BY <1>1, <2>1
    <3> QED
      BY <1>1, <2>1, <3>1, EscapesAre
  <2>3. Meaning(puri) = Escaped(puri)
    BY <2>2 DEF Meaning
  <2>4. Escaped(puri) \in 0..255
    <3>1. result' \in Seq(0..255)
      BY <1>5, DecodeEscapeKeeps DEF IInv, TypeOK
    <3>2. Len(result) + 1 \in 1..Len(result') /\ result'[Len(result) + 1] = Escaped(puri)
      BY <1>1, <2>1
    <3> QED
      BY <3>1, <3>2, ByteOf
  <2> QED
    <3> DEFINE e == Escaped(puri)
    <3>1. e \in 0..255 /\ e = Meaning(puri) /\ result' = Append(result, e)
      BY <2>1, <2>3, <2>4
    <3>2. puri <= Len(uri) /\ uri' = uri
      BY <1>1, <2>1
    <3>3. puri' = IF puri \in Escapes THEN puri + 3 ELSE puri + 1
      BY <2>1, <2>2
    <3> HIDE DEF e
    <3> QED
      BY <1>4, <2>1, <3>1, <3>2, <3>3
<1>6. CASE DecodePlus
  <2>1. /\ pc = "decode" /\ puri <= Len(uri) - 2 /\ uri[puri] = Plus
        /\ uri' = uri /\ result' = Append(result, Space)
        /\ puri' = puri + 1
    BY <1>6 DEF DecodePlus, SRC_LAST_DEC
  <2>2. puri \notin Escapes
    BY <2>1 DEF Escapes, Percent, Plus
  <2>3. Meaning(puri) = Space
    BY <1>1, <2>1, <2>2 DEF Meaning, Pluses
  <2> QED
    BY <1>1, <1>4, <2>1, <2>2, <2>3 DEF Space
<1>7. CASE DecodeOther \/ DecodeLast
  <2>1. /\ pc = "decode" /\ puri <= Len(uri)
        /\ uri' = uri /\ result' = Append(result, uri[puri])
        /\ puri' = puri + 1
    BY <1>1, <1>7 DEF DecodeOther, DecodeLast, SRC_LAST_DEC
  <2>2. \/ puri <= Len(uri) - 2 /\ ~IsEscape(puri) /\ uri[puri] # Plus
        \/ puri > Len(uri) - 2
    BY <1>1, <1>7 DEF DecodeOther, DecodeLast, SRC_LAST_DEC
  <2>3. puri \notin Escapes
    <3>1. CASE puri \in 1..(Len(uri) - 2)
      BY <1>1, <2>2, <3>1, EscapesAre
    <3>2. CASE puri \notin 1..(Len(uri) - 2)
      BY <3>2 DEF Escapes
    <3> QED
      BY <3>1, <3>2
  <2>4. Meaning(puri) = uri[puri]
    BY <1>1, <2>2, <2>3 DEF Meaning, Pluses
  <2>5. uri[puri] \in 0..255
    <3>1. puri \in 1..Len(uri)
      BY <1>1, <2>1
    <3> QED
      BY <1>1, <3>1, ByteOf
  <2> QED
    BY <1>4, <2>1, <2>3, <2>4, <2>5
<1>8. CASE DecodeDone \/ UNCHANGED vars
  <2>1. uri' = uri /\ result' = result /\ puri' = puri /\ (pc' # "encode" => pc # "encode")
    BY <1>8 DEF DecodeDone, vars
  <2>2. ASSUME pc' # "encode" PROVE ReadSoFar(result, puri)'
    <3>1. ReadSoFar(result, puri)
      BY <2>1, <2>2 DEF DInv
    <3> QED
      BY <2>1, <3>1, ReadStays
  <2> QED
    BY <2>2 DEF DInv
<1> QED
  BY <1>2, <1>3, <1>5, <1>6, <1>7, <1>8 DEF Next

\* UriDecode makes of any string, whatever its bytes and its length, what can
\* be read off it by position: every escape decoded wherever it stands, every
\* '+' that has two bytes after it a space, all else as it is
\* (uri_codec.h:71-96).
THEOREM DecodesByPosition == Spec => []DecodedByPosition
<1>1. Init => DInv
  <2> SUFFICES ASSUME Init, pc # "encode" PROVE ReadSoFar(result, puri)
    BY DEF DInv
  <2>1. uri \in Seq(0..255) /\ result = <<>> /\ puri = 1
    BY StringsAreSequences DEF Init
  <2> QED
    BY <2>1, NothingRead
<1>2. IInv /\ DInv /\ [Next]_vars => DInv'
  BY DInvStep
<1>3. IInv /\ DInv => DecodedByPosition
  <2> SUFFICES ASSUME IInv, DInv, pc = "done" PROVE DecodedByPosition
    BY DEF DecodedByPosition
  <2>1. /\ uri \in Seq(0..255) /\ puri = Len(uri) + 1
        /\ ReadSoFar(result, puri)
    BY DEF IInv, TypeOK, DInv
  <2>2. KeptBefore(puri) = Kept
    <3>1. \A o \in Kept : o \in 1..Len(uri)
      BY DEF Kept
    <3>2. \A o \in 1..Len(uri) : o < Len(uri) + 1
      BY <2>1
    <3> QED
      BY <2>1, <3>1, <3>2 DEF KeptBefore
  <2>3. /\ Len(result) = Cardinality(Kept)
        /\ \A p \in Kept : result[Cardinality(KeptUpTo(p))] = Meaning(p)
    BY <2>1, <2>2 DEF ReadSoFar
  <2>4. \A p \in Kept : Read(p) = Meaning(p)
    BY <2>3 DEF Read, KeptUpTo
  <2>5. \A p \in Kept : p \in Escapes => Meaning(p) = Escaped(p)
    BY DEF Meaning
  <2>6. \A p \in Kept : p \notin Escapes \cup Pluses => Meaning(p) = uri[p]
    BY DEF Meaning
  <2>7. \A p \in Kept : p \in Pluses => p \notin Escapes
    BY DEF Pluses, Escapes, Percent, Plus
  <2>8. \A p \in Kept :
           p \in Pluses /\ p <= Len(uri) - 2 => Meaning(p) = Space
    BY <2>7 DEF Meaning
  <2> QED
    BY <2>3, <2>4, <2>5, <2>6, <2>8 DEF DecodedByPosition
<1> QED
  BY <1>1, <1>2, <1>3, IInvHolds, PTL DEF Spec
=============================================================================
