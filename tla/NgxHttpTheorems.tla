--------------------------- MODULE NgxHttpTheorems --------------------------
(***************************************************************************)
(* What the operators of NgxHttp preserve: the type of the request, the    *)
(* order of the subrequests in front of the response, and the balance of   *)
(* its reference count; and what they leave alone.                         *)
(***************************************************************************)
EXTENDS NgxHttp, FiniteSets, SequenceTheorems, FiniteSetTheorems, TLAPS

(***************************************************************************)
(* The subrequests that are not finalized are those that wait in           *)
(* r->postponed and the active one; they are postponed in the order in     *)
(* which they were created, and none of them was created before the active *)
(* one.                                                                    *)
(***************************************************************************)
InOrder(q) ==
    /\ \A j, k \in 1..Len(q.postponed) :
         j < k => q.postponed[j] < q.postponed[k]
    /\ q.data # Main => \A k \in 1..Len(q.postponed) :
                          q.data <= q.postponed[k]
    /\ Outstanding(q) = {q.postponed[k] : k \in 1..Len(q.postponed)}
                          \cup ({q.data} \ {Main})

Balanced(q) ==
    /\ q.count = 1 + Cardinality(Outstanding(q))
    /\ q.budget = MaxSubrequests + 1 - Cardinality(Outstanding(q))

Sound(q) ==
    /\ NgxRequestOK(q)
    /\ InOrder(q)
    /\ q.live => Balanced(q)

-----------------------------------------------------------------------------
(* The fields of a request. *)
LEMMA Fields ==
    ASSUME NEW q, NgxRequestOK(q)
    PROVE  /\ q.count \in Int /\ q.budget \in Int /\ q.live \in BOOLEAN
           /\ q.created \in Nat /\ q.sent \in Nat /\ q.outq \in Nat
           /\ q.sub \in Seq(SubStatus) /\ Len(q.sub) = q.created
           /\ DOMAIN q.sub = 1..q.created
           /\ \A i \in 1..q.created : q.sub[i] \in SubStatus
           /\ q.data \in 0..q.created
           /\ q.noup \subseteq 1..q.created
           /\ q.posted \in Seq(0..q.created)
           /\ q.postponed \in Seq(1..q.created)
           /\ q.buffered \in BOOLEAN /\ q.weh \in WriteHandlers
  <1>1. /\ q \in NgxRequest
        /\ Len(q.sub) = q.created /\ q.data \in 0..q.created
        /\ q.noup \subseteq 1..q.created
        /\ q.posted \in Seq(0..q.created) /\ q.postponed \in Seq(1..q.created)
    BY DEF NgxRequestOK
  <1>2. /\ q.count \in Int /\ q.budget \in Int /\ q.live \in BOOLEAN
        /\ q.created \in Nat /\ q.sent \in Nat /\ q.outq \in Nat
        /\ q.sub \in Seq(SubStatus) /\ q.buffered \in BOOLEAN
        /\ q.weh \in WriteHandlers
    BY <1>1 DEF NgxRequest
  <1>3. DOMAIN q.sub = 1..q.created
    BY <1>1, <1>2, LenProperties
  <1>4. \A i \in 1..q.created : q.sub[i] \in SubStatus
    BY <1>1, <1>2, ElementOfSeq
  <1> QED BY <1>1, <1>2, <1>3, <1>4

(* The subrequests that are not finalized can be counted. *)
LEMMA Outstanding_Finite ==
    ASSUME NEW q, NgxRequestOK(q)
    PROVE  /\ IsFiniteSet(Outstanding(q))
           /\ Cardinality(Outstanding(q)) \in Nat
  <1>1. q.created \in Nat
    BY Fields
  <1>2. IsFiniteSet(1..q.created)
    BY <1>1, FS_Interval
  <1>3. Outstanding(q) \in SUBSET (1..q.created)
    BY DEF Outstanding
  <1>4. IsFiniteSet(Outstanding(q))
    BY <1>2, <1>3, FS_Subset
  <1> QED BY <1>4, FS_CardinalityType

(* The new request is sound. *)
LEMMA NewRequest_Sound == Sound(NewRequest)
  <1> DEFINE q == NewRequest
  <1>1. /\ q.count = 1 /\ q.budget = MaxSubrequests + 1 /\ q.created = 0
        /\ q.data = 0 /\ q.sub = <<>> /\ q.postponed = <<>>
        /\ q.posted = <<0>> /\ q.noup = {}
    BY DEF NewRequest, Main
  <1>2. q \in NgxRequest
    BY MaxSubrequestsAssumption DEF NgxRequest, NewRequest, Main, WriteHandlers
  <1>3. NgxRequestOK(q)
    <2>1. q.posted \in Seq(0..0)
      BY <1>1
    <2> QED BY <1>1, <1>2, <2>1 DEF NgxRequestOK
  <1>4. Outstanding(q) = {}
    BY <1>1 DEF Outstanding
  <1>5. InOrder(q)
    <2>1. Len(q.postponed) = 0
      BY <1>1
    <2> HIDE DEF q
    <2> QED BY <1>1, <1>4, <2>1 DEF InOrder, Main
  <1>6. Balanced(q)
    <2> HIDE DEF q
    <2> QED BY <1>1, <1>4, FS_EmptySet, MaxSubrequestsAssumption DEF Balanced
  <1> QED BY <1>3, <1>5, <1>6 DEF Sound

-----------------------------------------------------------------------------
(* Soundness does not depend on the fields that say what is run next and   *)
(* what has been written; nor, once the request is freed, on the counters. *)
LEMMA Sound_Frame ==
    ASSUME NEW q, NEW p, Sound(q), p \in NgxRequest,
           p.created = q.created, p.sub = q.sub, p.data = q.data,
           p.postponed = q.postponed, p.noup \subseteq 1..q.created,
           p.posted \in Seq(0..q.created),
           p.live => q.live /\ p.count = q.count /\ p.budget = q.budget
    PROVE  Sound(p)
  <1>1. NgxRequestOK(p)
    BY DEF Sound, NgxRequestOK
  <1>2. Outstanding(p) = Outstanding(q)
    BY DEF Outstanding
  <1>3. InOrder(p)
    BY <1>2 DEF Sound, InOrder
  <1>4. p.live => Balanced(p)
    BY <1>2 DEF Sound, Balanced
  <1> QED BY <1>1, <1>3, <1>4 DEF Sound

LEMMA PopPosted_Sound ==
    ASSUME NEW q, Sound(q), q.posted # <<>>
    PROVE  Sound(PopPosted(q))
  <1> DEFINE p == PopPosted(q)
  <1>1. NgxRequestOK(q)
    BY DEF Sound
  <1>2. Tail(q.posted) \in Seq(0..q.created)
    BY <1>1, HeadTailProperties, Fields
  <1>3. p \in NgxRequest
    BY <1>1, <1>2, HeadTailProperties DEF NgxRequestOK, NgxRequest, PopPosted
  <1>4. /\ p.created = q.created /\ p.sub = q.sub /\ p.data = q.data
        /\ p.postponed = q.postponed /\ p.noup = q.noup
        /\ p.posted = Tail(q.posted) /\ p.live = q.live
        /\ p.count = q.count /\ p.budget = q.budget
    BY <1>1 DEF PopPosted, NgxRequestOK, NgxRequest
  <1> HIDE DEF p
  <1>5. Sound(p)
    BY <1>1, <1>2, <1>3, <1>4, Fields, Sound_Frame
  <1> QED BY <1>5 DEF p

(* Another write event handler. *)
LEMMA SetWeh_Sound ==
    ASSUME NEW q, Sound(q), NEW h \in WriteHandlers
    PROVE  Sound([q EXCEPT !.weh = h])
  <1> DEFINE p == [q EXCEPT !.weh = h]
  <1>1. NgxRequestOK(q)
    BY DEF Sound
  <1>2. p \in NgxRequest
    BY <1>1 DEF NgxRequestOK, NgxRequest
  <1>3. /\ p.created = q.created /\ p.sub = q.sub /\ p.data = q.data
        /\ p.postponed = q.postponed /\ p.noup = q.noup
        /\ p.posted = q.posted /\ p.live = q.live
        /\ p.count = q.count /\ p.budget = q.budget
    BY <1>1 DEF NgxRequestOK, NgxRequest
  <1> HIDE DEF p
  <1>4. Sound(p)
    BY <1>1, <1>2, <1>3, Fields, Sound_Frame
  <1> QED BY <1>4 DEF p

LEMMA Terminate_Sound ==
    ASSUME NEW q, Sound(q)
    PROVE  /\ Sound(ngx_http_terminate_request(q))
           /\ Sound(ngx_http_terminate_handler(q))
  <1> DEFINE p == ngx_http_terminate_request(q)
             h == ngx_http_terminate_handler(q)
  <1>1. NgxRequestOK(q)
    BY DEF Sound
  <1>2. p \in NgxRequest /\ h \in NgxRequest
    <2>1. <<0>> \in Seq(Nat) /\ <<>> \in Seq(Nat) /\ 0 \in Int
      OBVIOUS
    <2>2. "terminate" \in WriteHandlers
      BY DEF WriteHandlers
    <2>3. p \in NgxRequest
      BY <1>1, <2>1, <2>2 DEF NgxRequestOK, NgxRequest, Main,
                              ngx_http_terminate_request
    <2>4. h \in NgxRequest
      BY <1>1, <2>1 DEF NgxRequestOK, NgxRequest, ngx_http_terminate_handler
    <2> QED BY <2>3, <2>4
  <1>3. /\ p.created = q.created /\ p.sub = q.sub /\ p.data = q.data
        /\ p.postponed = q.postponed /\ p.noup = q.noup
        /\ p.posted = <<0>> /\ p.live = q.live
        /\ p.count = q.count /\ p.budget = q.budget
        /\ h.created = q.created /\ h.sub = q.sub /\ h.data = q.data
        /\ h.postponed = q.postponed /\ h.noup = q.noup
        /\ h.posted = <<>> /\ h.live = FALSE
    BY <1>1 DEF NgxRequestOK, NgxRequest, Main,
                ngx_http_terminate_request, ngx_http_terminate_handler
  <1>4. <<0>> \in Seq(0..q.created) /\ <<>> \in Seq(0..q.created)
    BY <1>1, Fields
  <1> HIDE DEF p, h
  <1>5. Sound(p)
    BY <1>1, <1>2, <1>3, <1>4, Fields, Sound_Frame
  <1>6. Sound(h)
    BY <1>1, <1>2, <1>3, <1>4, Fields, Sound_Frame
  <1> QED BY <1>5, <1>6 DEF p, h

-----------------------------------------------------------------------------
\* t is s, whose elements are in 1..c, followed by the k next numbers.
Extends(t, s, c, k) ==
    /\ Len(s) \in Nat
    /\ Len(t) = Len(s) + k
    /\ \A j \in 1..Len(s) : t[j] = s[j] /\ s[j] \in 1..c
    /\ \A j \in (Len(s) + 1)..(Len(s) + k) : t[j] = c + (j - Len(s))

(* The ids of k new subrequests, appended to the ids of older ones. *)
LEMMA AppendIds ==
    ASSUME NEW c \in Nat, NEW k \in Nat, NEW s \in Seq(1..c),
           NEW new \in Seq(1..(c + k)), Len(new) = k,
           \A j \in 1..k : new[j] = c + j
    PROVE  Extends(s \o new, s, c, k)
  <1> DEFINE t == s \o new
  <1>1. s \in Seq(1..(c + k)) /\ Len(s) \in Nat
    BY SeqMonotonic, LenProperties
  <1>2. \A j \in 1..Len(s) : s[j] \in 1..c
    BY ElementOfSeq
  <1>3. /\ t \in Seq(1..(c + k))
        /\ Len(t) = Len(s) + k
        /\ \A j \in 1..(Len(s) + k) :
             t[j] = IF j <= Len(s) THEN s[j] ELSE new[j - Len(s)]
    <2>1. /\ s \o new \in Seq(1..(c + k))
          /\ Len(s \o new) = Len(s) + Len(new)
          /\ \A j \in 1..(Len(s) + Len(new)) :
               (s \o new)[j] = IF j <= Len(s) THEN s[j] ELSE new[j - Len(s)]
      BY <1>1, ConcatProperties
    <2> QED BY <2>1
  <1>4. \A j \in (Len(s) + 1)..(Len(s) + k) :
          j - Len(s) \in 1..k /\ ~(j <= Len(s)) /\ j \in 1..(Len(s) + k)
    BY <1>1
  <1>5. \A j \in (Len(s) + 1)..(Len(s) + k) : t[j] = c + (j - Len(s))
    BY <1>3, <1>4
  <1>6. \A j \in 1..Len(s) : j <= Len(s) /\ j \in 1..(Len(s) + k)
    BY <1>1
  <1> QED BY <1>1, <1>2, <1>3, <1>5, <1>6 DEF Extends

LEMMA AppendIds_Elements ==
    ASSUME NEW c \in Nat, NEW k \in Nat, NEW s, NEW t, Extends(t, s, c, k)
    PROVE  /\ {t[j] : j \in 1..Len(t)} =
                 {s[j] : j \in 1..Len(s)} \cup ((c + 1)..(c + k))
           /\ (\A i, j \in 1..Len(s) : i < j => s[i] < s[j]) =>
                (\A i, j \in 1..Len(t) : i < j => t[i] < t[j])
  <1>1. PICK L \in Nat :
             /\ L = Len(s) /\ Len(t) = L + k
             /\ \A j \in 1..L : t[j] = s[j] /\ s[j] \in 1..c
             /\ \A j \in (L + 1)..(L + k) : t[j] = c + (j - L)
    BY DEF Extends
  <1>2. ASSUME NEW j \in 1..(L + k)
        PROVE  \/ j \in 1..L
               \/ j \in (L + 1)..(L + k) /\ c + (j - L) \in (c + 1)..(c + k)
    OBVIOUS
  <1>3. {t[j] : j \in 1..(L + k)} =
          {s[j] : j \in 1..L} \cup ((c + 1)..(c + k))
    <2>1. ASSUME NEW j \in 1..(L + k)
          PROVE  t[j] \in {s[i] : i \in 1..L} \cup ((c + 1)..(c + k))
      BY <1>1, <1>2
    <2>2. ASSUME NEW j \in 1..L
          PROVE  s[j] \in {t[i] : i \in 1..(L + k)}
      <3>1. j \in 1..(L + k)
        OBVIOUS
      <3> QED BY <1>1, <3>1
    <2>3. ASSUME NEW m \in (c + 1)..(c + k)
          PROVE  m \in {t[i] : i \in 1..(L + k)}
      <3>1. /\ L + (m - c) \in (L + 1)..(L + k)
            /\ L + (m - c) \in 1..(L + k)
            /\ c + ((L + (m - c)) - L) = m
        OBVIOUS
      <3>2. t[L + (m - c)] = m
        BY <1>1, <3>1
      <3> QED BY <3>1, <3>2
    <2> QED BY <2>1, <2>2, <2>3
  <1>4. ASSUME \A i, j \in 1..L : i < j => s[i] < s[j],
               NEW i \in 1..(L + k), NEW j \in 1..(L + k), i < j
        PROVE  t[i] < t[j]
    <2>1. CASE i \in 1..L /\ j \in 1..L
      BY <1>1, <1>4, <2>1
    <2>2. CASE i \in 1..L /\ j \in (L + 1)..(L + k)
      BY <1>1, <2>2
    <2>3. CASE i \in (L + 1)..(L + k) /\ j \in (L + 1)..(L + k)
      BY <1>1, <1>4, <2>3
    <2>4. ~(i \in (L + 1)..(L + k) /\ j \in 1..L)
      BY <1>4
    <2> QED BY <1>2, <2>1, <2>2, <2>3, <2>4
  <1> QED BY <1>1, <1>3, <1>4

(* k more subrequests: k more references, k less of the budget. *)
LEMMA Subrequest_Sound ==
    ASSUME NEW q, Sound(q), q.live, NEW k \in Nat
    PROVE  LET p == ngx_http_subrequest(q, k)
           IN  /\ Sound(p) /\ p.live
               /\ p.created = q.created + k
               /\ p.sent = q.sent /\ p.weh = q.weh
               /\ \A i \in 1..q.created : p.sub[i] = q.sub[i]
  <1> DEFINE new == [j \in 1..k |-> q.created + j]
             sub == [i \in 1..(q.created + k) |->
                       IF i <= q.created THEN q.sub[i] ELSE "posted"]
             data == IF k > 0 /\ q.data = Main /\ q.postponed = <<>>
                     THEN q.created + 1 ELSE q.data
             p == ngx_http_subrequest(q, k)
             n == q.created + k
  <1>1. NgxRequestOK(q)
    BY DEF Sound
  <1>2. /\ q.count \in Int /\ q.budget \in Int /\ q.created \in Nat
        /\ q.data \in 0..q.created
        /\ q.posted \in Seq(0..q.created) /\ q.postponed \in Seq(1..q.created)
        /\ \A i \in 1..q.created : q.sub[i] \in SubStatus
        /\ n \in Nat
    BY <1>1, Fields
  <1>3. new \in Seq(1..n) /\ Len(new) = k /\ new \in Seq(0..n) /\ new \in Seq(Nat)
        /\ \A j \in 1..k : new[j] = q.created + j
    <2>1. new \in [1..k -> 1..n]
      BY <1>2
    <2>2. new \in Seq(1..n) /\ Len(new) = k
      BY <2>1, SeqDef
    <2> QED BY <1>2, <2>2, SeqMonotonic
  <1>4. sub \in Seq(SubStatus) /\ Len(sub) = n
    <2>1. sub \in [1..n -> SubStatus]
      BY <1>2 DEF SubStatus
    <2> HIDE DEF sub, n
    <2> QED BY <1>2, <2>1, SeqDef
  <1>5. data \in 0..n
    BY <1>2 DEF Main
  <1>6. /\ p.created = n /\ p.sub = sub /\ p.budget = q.budget - k
        /\ p.count = q.count + k /\ p.data = data
        /\ p.posted = q.posted \o new /\ p.postponed = q.postponed \o new
        /\ p.live = q.live /\ p.noup = q.noup /\ p.sent = q.sent
        /\ p.weh = q.weh
    BY <1>1 DEF ngx_http_subrequest, NgxRequestOK, NgxRequest
  <1>7. /\ q.posted \o new \in Seq(0..n) /\ q.posted \o new \in Seq(Nat)
        /\ q.postponed \o new \in Seq(1..n) /\ q.postponed \o new \in Seq(Nat)
    <2>1. q.posted \in Seq(0..n) /\ q.postponed \in Seq(1..n)
      BY <1>2, SeqMonotonic
    <2>2. q.posted \o new \in Seq(0..n) /\ q.postponed \o new \in Seq(1..n)
      BY <1>3, <2>1, ConcatProperties
    <2> QED BY <1>2, <2>2, SeqMonotonic
  <1>8. p \in NgxRequest
    <2>1. q.budget - k \in Int /\ q.count + k \in Int /\ data \in Nat
      BY <1>2, <1>5
    <2> HIDE DEF new, sub, data
    <2>2. p = [q EXCEPT !.created = q.created + k, !.sub = sub,
                        !.budget = q.budget - k, !.count = q.count + k,
                        !.data = data, !.posted = q.posted \o new,
                        !.postponed = q.postponed \o new]
      BY <1>1 DEF ngx_http_subrequest, new, sub, data, NgxRequestOK, NgxRequest
    <2> QED BY <1>1, <1>2, <1>4, <1>7, <2>1, <2>2 DEF NgxRequestOK, NgxRequest
  <1>9. p.noup \subseteq 1..n
    BY <1>1, <1>2, <1>6, Fields
  <1>10. NgxRequestOK(p)
    <2> HIDE DEF p, new, sub, data
    <2> QED BY <1>4, <1>5, <1>6, <1>7, <1>8, <1>9 DEF NgxRequestOK
  <1>11. Outstanding(p) = Outstanding(q) \cup ((q.created + 1)..n)
    <2> HIDE DEF p
    <2> QED BY <1>2, <1>6 DEF Outstanding
  <1>12. Balanced(p)
    <2>1. PICK S : S = (q.created + 1)..n
      OBVIOUS
    <2>2. IsFiniteSet(S) /\ Cardinality(S) = k
      <3>1. q.created + 1 \in Int /\ n \in Int
        BY <1>2
      <3>2. /\ IsFiniteSet((q.created + 1)..n)
            /\ Cardinality((q.created + 1)..n) =
                 IF q.created + 1 > n THEN 0 ELSE n - (q.created + 1) + 1
        BY <3>1, FS_Interval
      <3>3. ASSUME NEW c \in Nat
            PROVE  (IF c + 1 > c + k THEN 0 ELSE (c + k) - (c + 1) + 1) = k
        OBVIOUS
      <3> QED BY <1>2, <2>1, <3>2, <3>3
    <2>3. /\ IsFiniteSet(Outstanding(q))
          /\ Cardinality(Outstanding(q)) \in Nat
      BY <1>1, Outstanding_Finite
    <2>4. Outstanding(q) \cap S = {}
      BY <1>2, <2>1 DEF Outstanding
    <2>5. Outstanding(p) = Outstanding(q) \cup S
      BY <1>11, <2>1
    <2>6. Cardinality(Outstanding(p)) = Cardinality(Outstanding(q)) + k
      <3>1. Cardinality(Outstanding(q) \cup S) =
              Cardinality(Outstanding(q)) + Cardinality(S)
                - Cardinality(Outstanding(q) \cap S)
        BY <2>2, <2>3, FS_Union
      <3>2. Cardinality(Outstanding(q) \cap S) = 0
        BY <2>4, FS_EmptySet
      <3> HIDE DEF p
      <3> QED BY <2>2, <2>3, <2>5, <3>1, <3>2
    <2>7. Balanced(q)
      BY DEF Sound
    <2> HIDE DEF p
    <2> QED BY <1>6, <2>3, <2>6, <2>7, MaxSubrequestsAssumption DEF Balanced
  <1>13. InOrder(p)
    <2>1. InOrder(q)
      BY DEF Sound
    <2>2. Extends(p.postponed, q.postponed, q.created, k)
      <3>1. p.postponed = q.postponed \o new
        BY <1>6
      <3> HIDE DEF p, new
      <3> QED BY <1>2, <1>3, <3>1, AppendIds
    <2>3. PICK L \in Nat :
               /\ L = Len(q.postponed) /\ Len(p.postponed) = L + k
               /\ \A j \in 1..L : p.postponed[j] = q.postponed[j]
               /\ \A j \in (L + 1)..(L + k) :
                    p.postponed[j] = q.created + (j - L)
      <3> HIDE DEF p
      <3> QED BY <2>2 DEF Extends
    <2>4. /\ \A i, j \in 1..Len(p.postponed) :
               i < j => p.postponed[i] < p.postponed[j]
          /\ {p.postponed[j] : j \in 1..Len(p.postponed)} =
               {q.postponed[j] : j \in 1..Len(q.postponed)}
                 \cup ((q.created + 1)..n)
      <3>1. \A i, j \in 1..Len(q.postponed) :
              i < j => q.postponed[i] < q.postponed[j]
        BY <2>1 DEF InOrder
      <3> HIDE DEF p, new
      <3>2. /\ {p.postponed[j] : j \in 1..Len(p.postponed)} =
                 {q.postponed[j] : j \in 1..Len(q.postponed)}
                   \cup ((q.created + 1)..(q.created + k))
            /\ (\A i, j \in 1..Len(q.postponed) :
                  i < j => q.postponed[i] < q.postponed[j]) =>
               (\A i, j \in 1..Len(p.postponed) :
                  i < j => p.postponed[i] < p.postponed[j])
        BY <1>2, <2>2, AppendIds_Elements
      <3> QED BY <3>1, <3>2
    <2> HIDE DEF p, n
    <2>5. ASSUME p.data # Main, NEW j \in 1..(L + k)
          PROVE  p.data <= p.postponed[j]
      <3>1. j \in 1..L \/ j \in (L + 1)..(L + k)
        BY <2>3
      <3>2. CASE p.data = q.data
        <4>1. CASE j \in 1..L
          BY <2>1, <2>3, <2>5, <3>2, <4>1 DEF InOrder
        <4>2. CASE j \in (L + 1)..(L + k)
          <5>1. p.postponed[j] = q.created + (j - L)
            BY <2>3, <4>2
          <5>2. j \in Int /\ j - L >= 1
            BY <4>2
          <5>3. q.created \in Nat /\ q.data \in 0..q.created
            BY <1>2
          <5> QED BY <3>2, <5>1, <5>2, <5>3
        <4> QED BY <3>1, <4>1, <4>2
      <3>3. CASE p.data # q.data
        <4>1. q.postponed = <<>> /\ p.data = q.created + 1
          BY <1>6, <3>3
        <4>2. L = 0
          BY <2>3, <4>1
        <4> QED BY <1>2, <2>3, <3>1, <4>1, <4>2
      <3> QED BY <3>2, <3>3
    <2>6. Outstanding(p) = {p.postponed[j] : j \in 1..Len(p.postponed)}
                             \cup ({p.data} \ {Main})
      <3>1. p.data = q.data \/ (q.data = Main /\ p.data \in (q.created + 1)..n)
        <4>1. ASSUME NEW c \in Nat, k > 0
              PROVE  c + 1 \in (c + 1)..(c + k)
          BY <4>1
        <4>2. p.data = IF k > 0 /\ q.data = Main /\ q.postponed = <<>>
                       THEN q.created + 1 ELSE q.data
          BY <1>6
        <4> HIDE DEF data
        <4> QED BY <1>2, <4>1, <4>2 DEF n
      <3>2. Outstanding(q) = {q.postponed[j] : j \in 1..Len(q.postponed)}
                               \cup ({q.data} \ {Main})
        BY <2>1 DEF InOrder
      <3> QED BY <1>11, <2>4, <3>1, <3>2
    <2> QED BY <2>3, <2>4, <2>5, <2>6 DEF InOrder
  <1>14. \A i \in 1..q.created : p.sub[i] = q.sub[i]
    <2> HIDE DEF p
    <2> QED BY <1>2, <1>6
  <1> HIDE DEF p, n
  <1> QED BY <1>6, <1>10, <1>12, <1>13, <1>14 DEF Sound, p, n

-----------------------------------------------------------------------------
(* A subrequest that is finalized gives its reference back when it is the   *)
(* active one, and only then.                                              *)
LEMMA FinalizeSubrequest_Sound ==
    ASSUME NEW q, Sound(q), q.live, NEW i \in 1..q.created,
           q.sub[i] # "done"
    PROVE  LET p == ngx_http_finalize_subrequest(q, i)
           IN  /\ Sound(p) /\ p.live
               /\ p.created = q.created /\ p.sent = q.sent /\ p.weh = q.weh
               /\ p.posted = Append(q.posted, Main)
               /\ p.sub[i] \in {"final", "done"}
               /\ \A j \in 1..q.created \ {i} : p.sub[j] = q.sub[j]
  <1> DEFINE p == ngx_http_finalize_subrequest(q, i)
             posted == Append(q.posted, Main)
             s == IF q.data = i THEN "done" ELSE "final"
             postponed == IF q.data = i /\ q.postponed # <<>>
                             /\ Head(q.postponed) = i
                          THEN Tail(q.postponed) ELSE q.postponed
             one == IF q.data = i THEN 1 ELSE 0
             data == IF q.data = i THEN Main ELSE q.data
             sub == [q.sub EXCEPT ![i] = s]
  <1>1. NgxRequestOK(q) /\ InOrder(q) /\ Balanced(q)
    BY DEF Sound
  <1>2. /\ q.count \in Int /\ q.budget \in Int /\ q.created \in Nat
        /\ q.data \in 0..q.created /\ q.sub \in Seq(SubStatus)
        /\ Len(q.sub) = q.created
        /\ q.posted \in Seq(0..q.created) /\ q.postponed \in Seq(1..q.created)
        /\ q.noup \subseteq 1..q.created
    BY <1>1, Fields
  <1>3. /\ p.created = q.created /\ p.sub = sub /\ p.data = data
        /\ p.posted = posted /\ p.postponed = postponed
        /\ p.count = q.count - one /\ p.budget = q.budget + one
        /\ p.live = q.live /\ p.noup = q.noup /\ p.sent = q.sent
        /\ p.weh = q.weh /\ p.outq = q.outq /\ p.buffered = q.buffered
    <2>1. CASE q.data = i
      BY <1>1, <1>2, <2>1 DEF ngx_http_finalize_subrequest, NgxRequestOK, NgxRequest
    <2>2. CASE q.data # i
      <3>1. p = [q EXCEPT !.posted = posted, !.sub = sub]
        BY <1>1, <2>2 DEF ngx_http_finalize_subrequest
      <3>2. one = 0 /\ data = q.data /\ postponed = q.postponed
        BY <2>2
      <3> HIDE DEF p, posted, sub, one, data, postponed
      <3>3. /\ p.created = q.created /\ p.sub = sub /\ p.data = q.data
            /\ p.posted = posted /\ p.postponed = q.postponed
            /\ p.count = q.count /\ p.budget = q.budget
            /\ p.live = q.live /\ p.noup = q.noup /\ p.sent = q.sent
            /\ p.weh = q.weh /\ p.outq = q.outq /\ p.buffered = q.buffered
        BY <1>1, <3>1 DEF NgxRequestOK, NgxRequest
      <3> QED BY <1>2, <3>2, <3>3
    <2> QED BY <2>1, <2>2
  <1>4. /\ sub \in Seq(SubStatus) /\ Len(sub) = q.created
        /\ \A j \in 1..q.created : sub[j] = IF j = i THEN s ELSE q.sub[j]
    <2>1. s \in SubStatus
      BY DEF SubStatus
    <2> HIDE DEF s
    <2> QED BY <1>2, <2>1, ExceptSeq
  <1>5. posted \in Seq(0..q.created) /\ posted \in Seq(Nat)
    <2>1. Main \in 0..q.created
      BY <1>2 DEF Main
    <2>2. posted \in Seq(0..q.created)
      BY <1>2, <2>1, AppendProperties
    <2> QED BY <1>2, <2>2, SeqMonotonic
  <1>6. postponed \in Seq(1..q.created) /\ postponed \in Seq(Nat)
    <2>1. postponed \in Seq(1..q.created)
      BY <1>2, HeadTailProperties
    <2> QED BY <1>2, <2>1, SeqMonotonic
  <1>7. data \in 0..q.created /\ data \in Nat
    BY <1>2 DEF Main
  <1>8. p \in NgxRequest
    <2>1. q.count - 1 \in Int /\ q.budget + 1 \in Int
      BY <1>2
    <2>2. CASE q.data = i
      <3>1. p = [q EXCEPT !.posted = posted, !.count = q.count - 1,
                          !.budget = q.budget + 1, !.sub = sub,
                          !.data = data, !.postponed = postponed]
        BY <1>1, <2>2 DEF ngx_http_finalize_subrequest
      <3> HIDE DEF p, posted, sub, data, postponed
      <3> QED BY <1>1, <1>4, <1>5, <1>6, <1>7, <2>1, <3>1
              DEF NgxRequestOK, NgxRequest
    <2>3. CASE q.data # i
      <3>1. p = [q EXCEPT !.posted = posted, !.sub = sub]
        BY <1>1, <2>3 DEF ngx_http_finalize_subrequest
      <3> HIDE DEF p, posted, sub
      <3> QED BY <1>1, <1>4, <1>5, <3>1 DEF NgxRequestOK, NgxRequest
    <2> QED BY <2>2, <2>3
  <1>9. NgxRequestOK(p)
    <2> HIDE DEF p, posted, postponed, sub, data
    <2> QED BY <1>2, <1>3, <1>4, <1>5, <1>6, <1>7, <1>8 DEF NgxRequestOK
  <1>10. Outstanding(p) = Outstanding(q) \ (IF q.data = i THEN {i} ELSE {})
    <2> HIDE DEF p, sub
    <2> QED BY <1>3, <1>4 DEF Outstanding
  <1>11. i \in Outstanding(q)
    BY DEF Outstanding
  <1>12. Balanced(p)
    <2>1. IsFiniteSet(Outstanding(q)) /\ Cardinality(Outstanding(q)) \in Nat
      BY <1>1, Outstanding_Finite
    <2>2. Cardinality(Outstanding(p)) = Cardinality(Outstanding(q)) - one
      <3>1. CASE q.data = i
        <4>1. Cardinality(Outstanding(q) \ {i}) = Cardinality(Outstanding(q)) - 1
          BY <1>11, <2>1, FS_RemoveElement
        <4> HIDE DEF p
        <4> QED BY <1>10, <3>1, <4>1
      <3>2. CASE q.data # i
        <4>1. Outstanding(p) = Outstanding(q)
          BY <1>10, <3>2
        <4> HIDE DEF p
        <4> QED BY <2>1, <3>2, <4>1
      <3> QED BY <3>1, <3>2
    <2>3. one \in Int
      OBVIOUS
    <2>4. p.count = q.count - one /\ p.budget = q.budget + one
      BY <1>3
    <2>5. /\ q.count = 1 + Cardinality(Outstanding(q))
          /\ q.budget = MaxSubrequests + 1 - Cardinality(Outstanding(q))
      BY <1>1 DEF Balanced
    <2> HIDE DEF p, one
    <2> QED BY <2>1, <2>2, <2>3, <2>4, <2>5, MaxSubrequestsAssumption
            DEF Balanced
  <1>13. InOrder(p)
    <2>1. PICK L \in Nat : L = Len(q.postponed) /\ DOMAIN q.postponed = 1..L
      BY <1>2, LenProperties
    <2>2. /\ \A j, k \in 1..L : j < k => q.postponed[j] < q.postponed[k]
          /\ q.data # Main => \A k \in 1..L : q.data <= q.postponed[k]
          /\ Outstanding(q) = {q.postponed[k] : k \in 1..L} \cup ({q.data} \ {Main})
          /\ \A k \in 1..L : q.postponed[k] \in 1..q.created
      <3>1. \A k \in 1..Len(q.postponed) : q.postponed[k] \in 1..q.created
        BY <1>2, ElementOfSeq
      <3> QED BY <1>1, <2>1, <3>1 DEF InOrder
    <2>3. CASE q.data # i
      <3>1. Outstanding(p) = Outstanding(q) /\ p.data = q.data
              /\ p.postponed = q.postponed
        BY <1>3, <1>10, <2>3
      <3> HIDE DEF p
      <3> QED BY <1>1, <3>1 DEF InOrder
    <2>4. CASE q.data = i /\ q.postponed # <<>> /\ Head(q.postponed) = i
      <3>1. L > 0 /\ q.postponed[1] = i
        BY <1>2, <2>1, <2>4
      <3>2. p.data = Main /\ p.postponed = Tail(q.postponed)
        BY <1>3, <2>4
      <3>3. /\ Len(p.postponed) = L - 1
            /\ \A k \in 1..(L - 1) : p.postponed[k] = q.postponed[k + 1]
        BY <1>2, <2>1, <2>4, <3>2, HeadTailProperties
      <3> HIDE DEF p
      <3>4. \A j, k \in 1..(L - 1) : j < k => p.postponed[j] < p.postponed[k]
        BY <2>2, <3>3
      <3>5. {p.postponed[k] : k \in 1..(L - 1)} =
              {q.postponed[k] : k \in 1..L} \ {i}
        <4>1. ASSUME NEW k \in 1..(L - 1)
              PROVE  p.postponed[k] \in {q.postponed[m] : m \in 1..L} \ {i}
          <5>1. k + 1 \in 1..L /\ 1 \in 1..L /\ 1 < k + 1
            OBVIOUS
          <5>2. p.postponed[k] = q.postponed[k + 1]
            BY <3>3
          <5>3. q.postponed[1] < q.postponed[k + 1]
            BY <2>2, <5>1
          <5>4. q.postponed[k + 1] # i
            BY <1>2, <2>2, <3>1, <5>1, <5>3
          <5> QED BY <5>1, <5>2, <5>4
        <4>2. ASSUME NEW k \in 1..L, q.postponed[k] # i
              PROVE  q.postponed[k] \in {p.postponed[m] : m \in 1..(L - 1)}
          <5>1. k - 1 \in 1..(L - 1) /\ (k - 1) + 1 = k
            BY <3>1, <4>2
          <5>2. p.postponed[k - 1] = q.postponed[k]
            BY <3>3, <5>1
          <5> QED BY <5>1, <5>2
        <4> QED BY <4>1, <4>2
      <3>6. Outstanding(p) = {p.postponed[k] : k \in 1..(L - 1)}
        BY <1>10, <2>2, <2>4, <3>5
      <3> QED BY <3>2, <3>3, <3>4, <3>6 DEF InOrder, Main
    <2>5. CASE q.data = i /\ ~(q.postponed # <<>> /\ Head(q.postponed) = i)
      <3>1. p.data = Main /\ p.postponed = q.postponed
        BY <1>3, <2>5
      <3>2. ASSUME NEW k \in 1..L
            PROVE  q.postponed[k] # i
        <4>1. q.postponed # <<>> /\ L >= 1 /\ Head(q.postponed) = q.postponed[1]
          BY <1>2, <2>1
        <4>2. q.postponed[1] # i
          BY <2>5, <4>1
        <4>3. i # Main
          BY DEF Main
        <4>4. i <= q.postponed[1] /\ 1 \in 1..L
          BY <2>2, <2>5, <4>1, <4>3
        <4>5. k = 1 \/ q.postponed[1] < q.postponed[k]
          BY <2>2, <4>4
        <4> QED BY <1>2, <2>2, <4>2, <4>4, <4>5
      <3>3. Outstanding(p) = {q.postponed[k] : k \in 1..L}
        <4>1. Outstanding(p) = Outstanding(q) \ {i}
          BY <1>10, <2>5
        <4> HIDE DEF p
        <4> QED BY <2>2, <2>5, <3>2, <4>1
      <3> HIDE DEF p
      <3> QED BY <2>1, <2>2, <3>1, <3>3 DEF InOrder, Main
    <2> QED BY <2>3, <2>4, <2>5
  <1>14. p.sub[i] = s /\ \A j \in 1..q.created \ {i} : p.sub[j] = q.sub[j]
    <2> HIDE DEF p, sub, s
    <2> QED BY <1>3, <1>4
  <1>15. Sound(p) /\ p.live
    BY <1>3, <1>9, <1>12, <1>13 DEF Sound
  <1> HIDE DEF p
  <1> QED BY <1>3, <1>14, <1>15 DEF p

-----------------------------------------------------------------------------
(* Writing: a subrequest in front of the response becomes the active one,  *)
(* or the response goes out; the rest is as it was.                        *)
LEMMA OutputFilter_Sound ==
    ASSUME NEW q, Sound(q), NEW in \in BOOLEAN, NEW w
    PROVE  LET p == ngx_http_output_filter(q, in, w)
           IN  /\ Sound(p) /\ p.live = q.live
               /\ p.created = q.created /\ p.sub = q.sub /\ p.weh = q.weh
  <1> DEFINE p == ngx_http_output_filter(q, in, w)
             outq == IF in THEN q.outq + 1 ELSE q.outq
             new == Head(q.postponed)
             rest == Tail(q.postponed)
             posted == Append(q.posted, new)
  <1>1. NgxRequestOK(q) /\ InOrder(q)
    BY DEF Sound
  <1>2. /\ q.created \in Nat /\ q.data \in 0..q.created
        /\ q.sent \in Nat /\ q.outq \in Nat
        /\ q.posted \in Seq(0..q.created) /\ q.postponed \in Seq(1..q.created)
        /\ q.noup \subseteq 1..q.created
    BY <1>1, Fields
  <1>3. outq \in Nat
    BY <1>2
  <1>4. CASE q.data # Main
    <2>1. p = [q EXCEPT !.outq = outq]
      BY <1>4 DEF ngx_http_output_filter
    <2> HIDE DEF p, outq
    <2>2. p \in NgxRequest
      BY <1>1, <1>3, <2>1 DEF NgxRequestOK, NgxRequest
    <2>3. /\ p.created = q.created /\ p.sub = q.sub /\ p.data = q.data
          /\ p.postponed = q.postponed /\ p.noup = q.noup
          /\ p.posted = q.posted /\ p.live = q.live /\ p.weh = q.weh
          /\ p.count = q.count /\ p.budget = q.budget
      BY <1>1, <2>1 DEF NgxRequestOK, NgxRequest
    <2>4. Sound(p)
      BY <1>2, <2>2, <2>3, Sound_Frame
    <2> QED BY <2>3, <2>4 DEF p
  <1>5. CASE q.data = Main /\ q.postponed = <<>>
    <2> DEFINE sent == q.sent + outq
               buffered == (w = "AGAIN")
    <2>1. p = [q EXCEPT !.outq = 0, !.sent = sent, !.buffered = buffered]
      BY <1>1, <1>5 DEF ngx_http_output_filter, NgxRequestOK, NgxRequest
    <2>2. sent \in Nat /\ buffered \in BOOLEAN /\ 0 \in Nat
      BY <1>2, <1>3
    <2> HIDE DEF p, sent, buffered
    <2>3. p \in NgxRequest
      BY <1>1, <2>1, <2>2 DEF NgxRequestOK, NgxRequest
    <2>4. /\ p.created = q.created /\ p.sub = q.sub /\ p.data = q.data
          /\ p.postponed = q.postponed /\ p.noup = q.noup
          /\ p.posted = q.posted /\ p.live = q.live /\ p.weh = q.weh
          /\ p.count = q.count /\ p.budget = q.budget
      BY <1>1, <2>1 DEF NgxRequestOK, NgxRequest
    <2>5. Sound(p)
      BY <1>2, <2>3, <2>4, Sound_Frame
    <2> QED BY <2>4, <2>5 DEF p
  <1>6. CASE q.data = Main /\ q.postponed # <<>>
    <2>1. p = [q EXCEPT !.outq = outq, !.data = new, !.postponed = rest,
                        !.posted = posted]
      BY <1>1, <1>6 DEF ngx_http_output_filter, NgxRequestOK, NgxRequest
    <2>2. /\ new \in 1..q.created /\ new \in Nat /\ new \in 0..q.created
          /\ rest \in Seq(1..q.created) /\ rest \in Seq(Nat)
      <3>1. new \in 1..q.created /\ rest \in Seq(1..q.created)
        BY <1>2, <1>6, HeadTailProperties
      <3>2. 1..q.created \subseteq Nat
        BY <1>2
      <3> HIDE DEF new, rest
      <3>3. rest \in Seq(Nat)
        BY <3>1, <3>2, SeqMonotonic
      <3> QED BY <1>2, <3>1, <3>2, <3>3
    <2>3. posted \in Seq(0..q.created) /\ posted \in Seq(Nat)
      <3>1. posted \in Seq(0..q.created)
        BY <1>2, <2>2, AppendProperties
      <3> QED BY <1>2, <3>1, SeqMonotonic
    <2>4. PICK L \in Nat : /\ L = Len(q.postponed) /\ L > 0
                           /\ new = q.postponed[1] /\ Len(rest) = L - 1
                           /\ \A k \in 1..(L - 1) : rest[k] = q.postponed[k + 1]
      <3>1. Len(q.postponed) \in Nat /\ Len(q.postponed) > 0
              /\ new = q.postponed[1]
        BY <1>2, <1>6
      <3>2. /\ Len(rest) = Len(q.postponed) - 1
            /\ \A k \in 1..Len(rest) : rest[k] = q.postponed[k + 1]
        BY <1>2, <1>6, HeadTailProperties
      <3> HIDE DEF new, rest
      <3> QED BY <3>1, <3>2
    <2> HIDE DEF p, new, rest, posted, outq
    <2>5. p \in NgxRequest
      BY <1>1, <1>3, <2>1, <2>2, <2>3 DEF NgxRequestOK, NgxRequest
    <2>6. /\ p.created = q.created /\ p.sub = q.sub /\ p.data = new
          /\ p.postponed = rest /\ p.noup = q.noup
          /\ p.posted = posted /\ p.live = q.live /\ p.weh = q.weh
          /\ p.count = q.count /\ p.budget = q.budget
      BY <1>1, <2>1 DEF NgxRequestOK, NgxRequest
    <2>7. NgxRequestOK(p)
      BY <1>1, <2>2, <2>3, <2>5, <2>6 DEF NgxRequestOK
    <2>8. Outstanding(p) = Outstanding(q)
      BY <2>6 DEF Outstanding
    <2>9. InOrder(p)
      <3>1. /\ \A j, k \in 1..L : j < k => q.postponed[j] < q.postponed[k]
            /\ Outstanding(q) = {q.postponed[k] : k \in 1..L}
        BY <1>1, <1>6, <2>4 DEF InOrder
      <3>2. \A k \in 1..(L - 1) : k + 1 \in 1..L /\ 1 \in 1..L /\ 1 < k + 1
        BY <2>4
      <3>3. \A k \in 1..(L - 1) : new < rest[k]
        BY <2>4, <3>1, <3>2
      <3>4. \A j, k \in 1..(L - 1) : j < k => rest[j] < rest[k]
        BY <2>4, <3>1
      <3>5. {q.postponed[k] : k \in 1..L} = {rest[k] : k \in 1..(L - 1)} \cup {new}
        <4>1. ASSUME NEW k \in 1..L, k # 1
              PROVE  q.postponed[k] \in {rest[m] : m \in 1..(L - 1)}
          <5>1. k - 1 \in 1..(L - 1) /\ (k - 1) + 1 = k
            BY <4>1
          <5>2. rest[k - 1] = q.postponed[k]
            BY <2>4, <5>1
          <5> QED BY <5>1, <5>2
        <4>2. \A k \in 1..(L - 1) : rest[k] \in {q.postponed[m] : m \in 1..L}
          BY <2>4, <3>2
        <4>3. 1 \in 1..L
          BY <2>4
        <4>4. \A k \in 1..L : k = 1 => q.postponed[k] = new
          BY <2>4
        <4>5. new \in {q.postponed[k] : k \in 1..L}
          BY <2>4, <4>3
        <4> QED BY <4>1, <4>2, <4>4, <4>5
      <3>6. new # Main /\ new \in Nat /\ \A k \in 1..(L - 1) : rest[k] \in Nat
        <4>1. \A k \in 1..Len(rest) : rest[k] \in Nat
          BY <2>2, ElementOfSeq
        <4> QED BY <2>2, <2>4, <4>1 DEF Main
      <3>7. \A k \in 1..(L - 1) : new <= rest[k]
        BY <3>3, <3>6
      <3> QED BY <2>4, <2>6, <2>8, <3>1, <3>4, <3>5, <3>6, <3>7 DEF InOrder
    <2>10. p.live => Balanced(p)
      BY <2>6, <2>8 DEF Sound, Balanced
    <2> QED BY <2>6, <2>7, <2>9, <2>10 DEF Sound, p
  <1> QED BY <1>4, <1>5, <1>6

(* With no subrequest left the last reference is dropped. *)
LEMMA Close_Sound ==
    ASSUME NEW q, Sound(q), q.live, Outstanding(q) = {}
    PROVE  LET p == ngx_http_close_request(q)
           IN  /\ Sound(p) /\ p.live = FALSE
               /\ p.created = q.created /\ p.sent = q.sent
  <1> DEFINE p == ngx_http_close_request(q)
  <1>1. NgxRequestOK(q) /\ q.count = 1
    BY FS_EmptySet DEF Sound, Balanced
  <1> DEFINE none == 1 - 1
  <1>2. p = [q EXCEPT !.count = none, !.live = FALSE]
    <2>1. p = [q EXCEPT !.count = q.count - 1, !.live = (q.count # 1)]
      BY DEF ngx_http_close_request
    <2>2. (q.count # 1) = FALSE /\ q.count - 1 = none
      BY <1>1
    <2> HIDE DEF p, none
    <2> QED BY <2>1, <2>2
  <1>0. none \in Int
    OBVIOUS
  <1> HIDE DEF p, none
  <1>3. p \in NgxRequest
    BY <1>0, <1>1, <1>2 DEF NgxRequestOK, NgxRequest
  <1>4. /\ p.created = q.created /\ p.sub = q.sub /\ p.data = q.data
        /\ p.postponed = q.postponed /\ p.noup = q.noup
        /\ p.posted = q.posted /\ p.live = FALSE /\ p.sent = q.sent
    BY <1>1, <1>2 DEF NgxRequestOK, NgxRequest
  <1>5. Sound(p)
    BY <1>1, <1>3, <1>4, Fields, Sound_Frame
  <1> QED BY <1>4, <1>5 DEF p

(* One more reference, dropped again by finalizing with NGX_DONE. *)
LEMMA HoldDone_Sound ==
    ASSUME NEW q, Sound(q), q.live
    PROVE  LET p == ngx_http_finalize_request([q EXCEPT !.count = @ + 1], "DONE")
           IN  /\ Sound(p) /\ p.live
               /\ p.created = q.created /\ p.sub = q.sub
               /\ p.posted = q.posted /\ p.sent = q.sent /\ p.weh = q.weh
  <1> DEFINE p == ngx_http_finalize_request([q EXCEPT !.count = @ + 1], "DONE")
  <1>1. NgxRequestOK(q) /\ Balanced(q)
    BY DEF Sound
  <1>2. q.count \in Int /\ q.count >= 1
    BY <1>1, Outstanding_Finite DEF Balanced
  <1>3. p = [q EXCEPT !.count = q.count, !.live = TRUE]
    <2>1. p = ngx_http_close_request([q EXCEPT !.count = q.count + 1])
      BY DEF ngx_http_finalize_request
    <2>2. (q.count + 1) - 1 = q.count /\ q.count + 1 # 1
      BY <1>2
    <2> QED BY <1>1, <2>1, <2>2
            DEF ngx_http_close_request, NgxRequestOK, NgxRequest
  <1> HIDE DEF p
  <1>4. p \in NgxRequest
    BY <1>1, <1>3 DEF NgxRequestOK, NgxRequest
  <1>5. /\ p.created = q.created /\ p.sub = q.sub /\ p.data = q.data
        /\ p.postponed = q.postponed /\ p.noup = q.noup
        /\ p.posted = q.posted /\ p.live = TRUE /\ p.sent = q.sent
        /\ p.count = q.count /\ p.budget = q.budget /\ p.weh = q.weh
    BY <1>1, <1>3 DEF NgxRequestOK, NgxRequest
  <1>6. Sound(p)
    BY <1>1, <1>4, <1>5, Fields, Sound_Frame
  <1> QED BY <1>5, <1>6 DEF p

(* The main request finalizes itself: it waits for the writer, or it is     *)
(* freed with no subrequest left, or it is terminated.                     *)
LEMMA Finalize_Sound ==
    ASSUME NEW q, Sound(q), q.live, NEW rc \in Writes
    PROVE  LET p == ngx_http_finalize_request(q, rc)
           IN  Sound(p) /\ p.created = q.created
  <1> DEFINE p == ngx_http_finalize_request(q, rc)
  <1>1. NgxRequestOK(q)
    BY DEF Sound
  <1>2. CASE rc = "ERROR"
    <2>1. p = ngx_http_terminate_request(q)
      BY <1>2 DEF ngx_http_finalize_request
    <2>2. p.created = q.created
      BY <1>1, <2>1 DEF ngx_http_terminate_request, NgxRequestOK, NgxRequest
    <2> QED BY <2>1, <2>2, Terminate_Sound
  <1>3. CASE rc \in {"OK", "AGAIN"}
    <2>1. CASE q.buffered \/ Postponed(q)
      <3>1. p = [q EXCEPT !.weh = "writer"]
        BY <1>3, <2>1 DEF ngx_http_finalize_request
      <3>2. Sound(p)
        BY <3>1, SetWeh_Sound DEF WriteHandlers
      <3> QED BY <1>1, <3>1, <3>2 DEF NgxRequestOK, NgxRequest
    <2>2. CASE ~(q.buffered \/ Postponed(q)) /\ q.data # Main
      BY <1>3, <2>2 DEF ngx_http_finalize_request
    <2>3. CASE ~(q.buffered \/ Postponed(q)) /\ q.data = Main
      <3> DEFINE e == [q EXCEPT !.weh = "empty"]
      <3>1. p = ngx_http_close_request(e)
        BY <1>3, <2>3 DEF ngx_http_finalize_request
      <3>2. Outstanding(q) = {}
        <4>1. q.postponed = <<>>
          BY <2>3 DEF Postponed
        <4>2. Len(q.postponed) = 0
          BY <4>1
        <4> QED BY <2>3, <4>2 DEF Sound, InOrder
      <3>3. e.live /\ e.created = q.created /\ e.sub = q.sub
        BY <1>1 DEF NgxRequestOK, NgxRequest
      <3>4. Sound(e)
        BY SetWeh_Sound DEF WriteHandlers
      <3> HIDE DEF e
      <3>5. Outstanding(e) = {}
        BY <3>2, <3>3 DEF Outstanding
      <3> QED BY <3>1, <3>3, <3>4, <3>5, Close_Sound
    <2> QED BY <2>1, <2>2, <2>3
  <1> QED BY <1>2, <1>3 DEF Writes

LEMMA Writer_Sound ==
    ASSUME NEW q, Sound(q), q.live, NEW w \in Writes
    PROVE  LET p == ngx_http_writer(q, w)
           IN  Sound(p) /\ p.created = q.created
  <1> DEFINE f == ngx_http_output_filter(q, FALSE, w)
             e == [f EXCEPT !.weh = "empty"]
  <1>1. Sound(f) /\ f.live /\ f.created = q.created
    BY OutputFilter_Sound
  <1> HIDE DEF f
  <1>2. NgxRequestOK(f)
    BY <1>1 DEF Sound
  <1>3. e.live /\ e.created = q.created
    BY <1>1, <1>2 DEF NgxRequestOK, NgxRequest
  <1>4. Sound(e)
    BY <1>1, SetWeh_Sound DEF WriteHandlers
  <1>5. /\ Sound(ngx_http_finalize_request(e, "OK"))
        /\ ngx_http_finalize_request(e, "OK").created = q.created
    <2> HIDE DEF e
    <2> QED BY <1>3, <1>4, Finalize_Sound DEF Writes
  <1>6. /\ Sound(ngx_http_terminate_request(f))
        /\ ngx_http_terminate_request(f).created = q.created
    BY <1>1, <1>2, Terminate_Sound
    DEF ngx_http_terminate_request, NgxRequestOK, NgxRequest
  <1> QED BY <1>1, <1>5, <1>6 DEF ngx_http_writer, f

-----------------------------------------------------------------------------
(***************************************************************************)
(* What the operators of NgxHttp leave alone.                              *)
(***************************************************************************)
\* The subrequests and the response of p are those of q.
Keeps(p, q) ==
    /\ p.created = q.created /\ p.sub = q.sub
    /\ p.sent = q.sent /\ p.outq = q.outq

LEMMA PopPosted_Frame ==
    ASSUME NEW q, NgxRequestOK(q), q.posted # <<>>
    PROVE  LET p == PopPosted(q)
           IN  /\ Keeps(p, q) /\ p.live = q.live /\ p.data = q.data
               /\ p.postponed = q.postponed /\ p.buffered = q.buffered
               /\ p.weh = q.weh
               /\ \A r : Queued(q, r) /\ r # Head(q.posted) => Queued(p, r)
  <1> DEFINE p == PopPosted(q)
  <1>1. /\ Keeps(p, q) /\ p.live = q.live /\ p.data = q.data
        /\ p.postponed = q.postponed /\ p.buffered = q.buffered
        /\ p.weh = q.weh /\ p.posted = Tail(q.posted)
    BY DEF PopPosted, NgxRequestOK, NgxRequest, Keeps
  <1> HIDE DEF p
  <1>2. ASSUME NEW r, Queued(q, r), r # Head(q.posted)
        PROVE  Queued(p, r)
    <2>1. PICK k \in 1..Len(q.posted) : q.posted[k] = r
      BY <1>2 DEF Queued
    <2>2. q.posted \in Seq(0..q.created)
      BY DEF NgxRequestOK
    <2>3. k # 1
      BY <1>2, <2>1, <2>2, HeadTailProperties
    <2>4. Len(Tail(q.posted)) = Len(q.posted) - 1 /\ Len(q.posted) \in Nat
      BY <2>2, HeadTailProperties, LenProperties
    <2>5. k - 1 \in 1..Len(Tail(q.posted))
      BY <2>1, <2>3, <2>4
    <2>6. Tail(q.posted)[k - 1] = q.posted[k]
      BY <2>2, <2>4, <2>5, HeadTailProperties
    <2> QED BY <1>1, <2>1, <2>5, <2>6 DEF Queued
  <1> QED BY <1>1, <1>2 DEF p

LEMMA SetWeh_Frame ==
    ASSUME NEW q, NgxRequestOK(q), NEW h
    PROVE  LET p == [q EXCEPT !.weh = h]
           IN  /\ Keeps(p, q) /\ p.live = q.live /\ p.data = q.data
               /\ p.postponed = q.postponed /\ p.buffered = q.buffered
               /\ p.weh = h /\ p.posted = q.posted
  BY DEF NgxRequestOK, NgxRequest, Keeps

\* What is appended to a queue leaves in it what was there.
LEMMA Append_Queued ==
    ASSUME NEW q, NgxRequestOK(q), NEW p, NEW x \in Nat,
           p.posted = Append(q.posted, x)
    PROVE  /\ Queued(p, x)
           /\ \A r : Queued(q, r) => Queued(p, r)
  <1>1. q.posted \in Seq(Nat)
    BY DEF NgxRequestOK, NgxRequest
  <1>2. /\ Len(p.posted) = Len(q.posted) + 1 /\ Len(q.posted) \in Nat
        /\ p.posted[Len(q.posted) + 1] = x
        /\ \A k \in 1..Len(q.posted) : p.posted[k] = q.posted[k]
    BY <1>1, AppendProperties, LenProperties
  <1> QED BY <1>2 DEF Queued

\* The new subrequests are posted, and nothing that was there is touched.
LEMMA Subrequest_Frame ==
    ASSUME NEW q, NgxRequestOK(q), NEW k \in Nat
    PROVE  LET p == ngx_http_subrequest(q, k)
           IN  /\ p.created = q.created + k
               /\ p.sent = q.sent /\ p.outq = q.outq /\ p.weh = q.weh
               /\ p.live = q.live
               /\ \A i \in 1..p.created :
                    p.sub[i] = IF i <= q.created THEN q.sub[i] ELSE "posted"
               /\ p.data = q.data \/ (k > 0 /\ p.data = q.created + 1)
               /\ \A r : Queued(q, r) => Queued(p, r)
               /\ \A r \in (q.created + 1)..(q.created + k) : Queued(p, r)
  <1> DEFINE new == [j \in 1..k |-> q.created + j]
             p == ngx_http_subrequest(q, k)
  <1>1. /\ q.created \in Nat /\ q.posted \in Seq(Nat)
        /\ Len(q.posted) \in Nat
    BY LenProperties DEF NgxRequestOK, NgxRequest
  <1>2. /\ p.created = q.created + k
        /\ p.sent = q.sent /\ p.outq = q.outq /\ p.weh = q.weh
        /\ p.live = q.live
        /\ p.sub = [i \in 1..(q.created + k) |->
                      IF i <= q.created THEN q.sub[i] ELSE "posted"]
        /\ p.data = q.data \/ (k > 0 /\ p.data = q.created + 1)
        /\ p.posted = q.posted \o new
    BY DEF ngx_http_subrequest, NgxRequestOK, NgxRequest
  <1>3. new \in Seq(Nat) /\ Len(new) = k
    <2>1. \A j \in 1..k : q.created + j \in Nat
      BY <1>1
    <2>2. new \in Seq(Nat)
      BY <2>1, IsASeq
    <2>3. DOMAIN new = 1..k
      OBVIOUS
    <2> HIDE DEF new
    <2> QED BY <2>2, <2>3, LenProperties
  <1>4. \A j \in 1..k : new[j] = q.created + j
    OBVIOUS
  <1> HIDE DEF p, new
  <1>5. /\ Len(p.posted) = Len(q.posted) + k
        /\ \A j \in 1..(Len(q.posted) + k) :
             p.posted[j] = IF j <= Len(q.posted) THEN q.posted[j]
                           ELSE new[j - Len(q.posted)]
    <2>1. \A s \in Seq(Nat) :
            /\ Len(s \o new) = Len(s) + Len(new)
            /\ \A j \in 1..(Len(s) + Len(new)) :
                 (s \o new)[j] = IF j <= Len(s) THEN s[j]
                                 ELSE new[j - Len(s)]
      BY <1>3, ConcatProperties
    <2> QED BY <1>1, <1>2, <1>3, <2>1
  <1>6. \A r : Queued(q, r) => Queued(p, r)
    BY <1>1, <1>5 DEF Queued
  <1>7. ASSUME NEW r \in (q.created + 1)..(q.created + k)
        PROVE  Queued(p, r)
    <2> DEFINE j == r - q.created
    <2>1. j \in 1..k /\ q.created + j = r
      BY <1>1
    <2>2. new[j] = r
      BY <1>4, <2>1
    <2> HIDE DEF j
    <2>3. Len(q.posted) + j \in 1..Len(p.posted)
      BY <1>1, <1>5, <2>1
    <2>4. p.posted[Len(q.posted) + j] = new[j]
      <3>1. ~(Len(q.posted) + j <= Len(q.posted))
            /\ (Len(q.posted) + j) - Len(q.posted) = j
            /\ Len(q.posted) + j \in 1..(Len(q.posted) + k)
        BY <1>1, <2>1
      <3> QED BY <1>5, <3>1
    <2> QED BY <2>2, <2>3, <2>4 DEF Queued
  <1> QED BY <1>2, <1>6, <1>7 DEF p

LEMMA FinalizeSubrequest_Frame ==
    ASSUME NEW q, NgxRequestOK(q), NEW i \in 1..q.created
    PROVE  LET p == ngx_http_finalize_subrequest(q, i)
           IN  /\ p.outq = q.outq /\ p.sent = q.sent
               /\ p.buffered = q.buffered /\ p.live = q.live
               /\ p.data = IF q.data = i THEN Main ELSE q.data
  BY DEF ngx_http_finalize_subrequest, NgxRequestOK, NgxRequest

\* The response goes on its way once; a subrequest in front of it is posted.
LEMMA OutputFilter_Frame ==
    ASSUME NEW q, NgxRequestOK(q), NEW in \in BOOLEAN, NEW w
    PROVE  LET p == ngx_http_output_filter(q, in, w)
           IN  /\ p.created = q.created /\ p.sub = q.sub
               /\ p.live = q.live /\ p.weh = q.weh
               /\ p.sent + p.outq = q.sent + q.outq + IF in THEN 1 ELSE 0
               /\ p.sent >= q.sent
               /\ \A r : Queued(q, r) => Queued(p, r)
               /\ p.data # Main => p.data = q.data \/ Queued(p, p.data)
               /\ q.data # Main => p.data = q.data
               /\ p.data = Main => /\ p.postponed = <<>> /\ p.outq = 0
                                   /\ p.buffered = (w = "AGAIN")
  <1> DEFINE p == ngx_http_output_filter(q, in, w)
             n == IF in THEN q.outq + 1 ELSE q.outq
             new == Head(q.postponed)
  <1>1. /\ q.sent \in Nat /\ q.outq \in Nat /\ q.posted \in Seq(Nat)
        /\ q.postponed \in Seq(1..q.created) /\ q.created \in Nat
    BY DEF NgxRequestOK, NgxRequest
  <1>2. n \in Nat /\ n = q.outq + IF in THEN 1 ELSE 0
    BY <1>1
  <1>3. CASE q.data # Main
    <2>1. p = [q EXCEPT !.outq = n]
      BY <1>3 DEF ngx_http_output_filter
    <2> HIDE DEF n
    <2>2. /\ p.created = q.created /\ p.sub = q.sub
          /\ p.live = q.live /\ p.weh = q.weh /\ p.posted = q.posted
          /\ p.sent = q.sent /\ p.outq = n /\ p.data = q.data
      BY <2>1 DEF NgxRequestOK, NgxRequest
    <2> HIDE DEF p
    <2>3. \A r : Queued(q, r) => Queued(p, r)
      BY <2>2 DEF Queued
    <2> QED BY <1>1, <1>2, <1>3, <2>2, <2>3 DEF p
  <1>4. CASE q.data = Main /\ q.postponed # <<>>
    <2>1. p = [[q EXCEPT !.outq = n] EXCEPT !.data = new,
                                            !.postponed = Tail(@),
                                            !.posted = Append(@, new)]
      BY <1>4 DEF ngx_http_output_filter
    <2>2. new \in 1..q.created
      BY <1>1, <1>4, HeadTailProperties
    <2> HIDE DEF n, new
    <2>3. /\ p.created = q.created /\ p.sub = q.sub
          /\ p.live = q.live /\ p.weh = q.weh
          /\ p.posted = Append(q.posted, new)
          /\ p.sent = q.sent /\ p.outq = n /\ p.data = new
      BY <2>1 DEF NgxRequestOK, NgxRequest
    <2>4. new \in Nat /\ new # Main
      BY <1>1, <2>2 DEF Main
    <2> HIDE DEF p
    <2>5. Queued(p, new) /\ \A r : Queued(q, r) => Queued(p, r)
      BY <2>3, <2>4, Append_Queued
    <2> QED BY <1>1, <1>2, <1>4, <2>3, <2>4, <2>5 DEF p
  <1>5. CASE q.data = Main /\ q.postponed = <<>>
    <2> DEFINE s == q.sent + n
    <2>1. p = [[q EXCEPT !.outq = n] EXCEPT !.sent = q.sent + n,
                                            !.outq = 0,
                                            !.buffered = (w = "AGAIN")]
      BY <1>5 DEF ngx_http_output_filter, NgxRequestOK, NgxRequest
    <2> HIDE DEF n
    <2>2. /\ p.created = q.created /\ p.sub = q.sub
          /\ p.live = q.live /\ p.weh = q.weh /\ p.posted = q.posted
          /\ p.sent = q.sent + n /\ p.outq = 0 /\ p.data = q.data
          /\ p.postponed = q.postponed /\ p.buffered = (w = "AGAIN")
      BY <2>1 DEF NgxRequestOK, NgxRequest
    <2> HIDE DEF p
    <2>3. \A r : Queued(q, r) => Queued(p, r)
      BY <2>2 DEF Queued
    <2>4. p.sent + p.outq = q.sent + q.outq + (IF in THEN 1 ELSE 0)
          /\ p.sent >= q.sent
      BY <1>1, <1>2, <2>2
    <2> QED BY <1>5, <2>2, <2>3, <2>4 DEF p
  <1> QED BY <1>3, <1>4, <1>5

LEMMA Terminate_Frame ==
    ASSUME NEW q, NgxRequestOK(q)
    PROVE  LET p == ngx_http_terminate_request(q)
           IN  /\ Keeps(p, q) /\ p.live = q.live
               /\ p.weh = "terminate" /\ p.posted = <<Main>>
  BY DEF ngx_http_terminate_request, NgxRequestOK, NgxRequest, Keeps

\* ngx_http_finalize_request(r, NGX_DONE) after r->count++.
LEMMA HoldDone_Frame ==
    ASSUME NEW q, Sound(q), q.live
    PROVE  ngx_http_finalize_request([q EXCEPT !.count = @ + 1], "DONE") = q
  <1> DEFINE p == ngx_http_finalize_request([q EXCEPT !.count = @ + 1], "DONE")
  <1>1. NgxRequestOK(q) /\ Balanced(q)
    BY DEF Sound
  <1>2. q.count \in Int /\ q.count >= 1
    BY <1>1, Outstanding_Finite DEF Balanced
  <1>3. p = ngx_http_close_request([q EXCEPT !.count = q.count + 1])
    BY DEF ngx_http_finalize_request
  <1>4. (q.count + 1) - 1 = q.count /\ q.count + 1 # 1
    BY <1>2
  <1>5. p = [q EXCEPT !.count = q.count, !.live = TRUE]
    BY <1>1, <1>3, <1>4 DEF ngx_http_close_request, NgxRequestOK, NgxRequest
  <1> HIDE DEF p
  <1>6. p = q
    BY <1>1, <1>5 DEF NgxRequestOK, NgxRequest
  <1> QED BY <1>6 DEF p

\* Nothing is left when the last reference is dropped.
LEMMA Close_Frame ==
    ASSUME NEW q, Sound(q), q.live, Outstanding(q) = {}
    PROVE  LET p == ngx_http_close_request(q)
           IN  /\ Keeps(p, q) /\ ~p.live /\ p.buffered = q.buffered
               /\ p.weh = q.weh
  <1>1. NgxRequestOK(q) /\ q.count = 1
    BY FS_EmptySet DEF Sound, Balanced
  <1> QED BY <1>1 DEF ngx_http_close_request, NgxRequestOK, NgxRequest, Keeps

\* A request that is not waiting for its turn or for its client is complete.
Complete(p) == ~p.live /\ p.outq = 0 /\ ~p.buffered /\ Outstanding(p) = {}

LEMMA FinalizeOK_Frame ==
    ASSUME NEW q, Sound(q), q.live, NEW rc \in {"OK", "AGAIN"},
           q.weh = "empty", q.data = Main => q.postponed = <<>> /\ q.outq = 0
    PROVE  LET p == ngx_http_finalize_request(q, rc)
           IN  /\ Keeps(p, q) /\ p.weh # "terminate"
               /\ \/ /\ p.live /\ p.posted = q.posted /\ p.data = q.data
                     /\ p.postponed = q.postponed /\ p.buffered = q.buffered
                     /\ \/ p.weh = "empty" /\ q.data # Main
                        \/ p.weh = "writer" /\ (q.data = Main => q.buffered)
                  \/ Complete(p)
  <1> DEFINE p == ngx_http_finalize_request(q, rc)
  <1>1. NgxRequestOK(q)
    BY DEF Sound
  <1>2. CASE q.buffered \/ Postponed(q)
    <2>1. p = [q EXCEPT !.weh = "writer"]
      BY <1>2 DEF ngx_http_finalize_request
    <2>2. /\ Keeps(p, q) /\ p.live = q.live /\ p.data = q.data
          /\ p.postponed = q.postponed /\ p.buffered = q.buffered
          /\ p.weh = "writer" /\ p.posted = q.posted
      <3> HIDE DEF p
      <3> QED BY <1>1, <2>1, SetWeh_Frame
    <2>3. q.data = Main => q.buffered
      BY <1>2 DEF Postponed
    <2> QED BY <2>2, <2>3
  <1>3. CASE ~(q.buffered \/ Postponed(q)) /\ q.data # Main
    <2>1. p = q
      BY <1>3 DEF ngx_http_finalize_request
    <2> QED BY <1>3, <2>1 DEF Keeps
  <1>4. CASE ~(q.buffered \/ Postponed(q)) /\ q.data = Main
    <2> DEFINE e == [q EXCEPT !.weh = "empty"]
    <2>1. p = ngx_http_close_request(e)
      BY <1>4 DEF ngx_http_finalize_request
    <2>2. e = q
      BY <1>1 DEF NgxRequestOK, NgxRequest
    <2>3. Outstanding(q) = {}
      <3>1. Len(q.postponed) = 0
        BY <1>4
      <3> QED BY <1>4, <3>1 DEF Sound, InOrder
    <2>4. /\ Keeps(p, q) /\ ~p.live /\ p.buffered = q.buffered
          /\ p.weh = q.weh
      BY <2>1, <2>2, <2>3, Close_Frame
    <2> HIDE DEF p
    <2>5. Outstanding(p) = {}
      BY <2>3, <2>4 DEF Outstanding, Keeps
    <2> QED BY <1>4, <2>4, <2>5 DEF Complete, Keeps, p
  <1> QED BY <1>2, <1>3, <1>4

=============================================================================
