-------------------------- MODULE AdserverTheorems ---------------------------
(***************************************************************************)
(* What a plugin is given of a server's response, for every size of the    *)
(* buffer, every number of servers and every length.                       *)
(***************************************************************************)
EXTENDS AdserverUpstream, TLAPS

-----------------------------------------------------------------------------
(***************************************************************************)
(* The filter.  k bytes of a body of a bytes have been kept.  They are     *)
(* Counted when none of the m bytes received has been dropped, and the     *)
(* length is what is missing.                                              *)
(***************************************************************************)
Good(v, a, k) ==
    /\ v.kept = Body(k)
    /\ v.last = ADSERVER_HEADER_LENGTH + k
    /\ v.keepalive <=> (k > 0 /\ k = a)

Counted(v, a, m, k) == m = ADSERVER_HEADER_LENGTH + k /\ k + v.length = a

\* What the filter makes of v, w, with a piece that comes after the first bytes:
\* a piece that is not too long is not dropped.
Filtered(w, v, a, k, first, bytes) ==
    /\ w \in Upstream /\ w.status = v.status
    /\ \E j \in 0..a :
         /\ Good(w, a, j)
         /\ w.length > 0 => Counted(w, a, first + bytes, j)
         /\ bytes <= v.length /\ Counted(v, a, first, k)
              => Counted(w, a, first + bytes, j)

LEMMA UpdatedType ==
    ASSUME NEW v \in Upstream, NEW kept \in SUBSET (Nat \ {0}), NEW last \in Nat,
           NEW length \in Nat, NEW keepalive \in BOOLEAN, NEW w,
           w = [v EXCEPT !.kept = kept, !.last = last, !.length = length,
                         !.keepalive = keepalive]
    PROVE  w \in Upstream
BY DEF Upstream

\* What has been kept stays the beginning of the body, and while the length is
\* not 0 nothing has been dropped.
LEMMA Filter_Good ==
    ASSUME NEW a \in Nat, NEW k \in 0..a, NEW first \in Nat,
           NEW bytes \in Nat \ {0}, NEW v \in Upstream,
           Good(v, a, k), v.length > 0 => Counted(v, a, first, k)
    PROVE  Filtered(ngx_http_adserver_filter(v, first, bytes), v, a, k, first, bytes)
<1> SUFFICES ASSUME NEW w, w = ngx_http_adserver_filter(v, first, bytes)
             PROVE  Filtered(w, v, a, k, first, bytes)
  OBVIOUS
<1>1. CASE bytes > v.length
  <2>1. w = [v EXCEPT !.length = 0]
    BY <1>1 DEF ngx_http_adserver_filter
  <2>2. w \in Upstream /\ w.status = v.status /\ w.length = 0 /\ Good(w, a, k)
    BY <2>1 DEF Upstream, Good
  <2>3. ~(w.length > 0) /\ ~(bytes <= v.length)
    BY <1>1, <2>2 DEF Upstream
  <2>4. QED  BY <2>2, <2>3 DEF Filtered
<1>2. CASE ~(bytes > v.length)
  <2>1. v.length \in Nat /\ v.length > 0 /\ bytes <= v.length
    BY <1>2 DEF Upstream
  <2>2. first = ADSERVER_HEADER_LENGTH + k /\ k + v.length = a
    BY <2>1 DEF Counted
  <2> DEFINE kept == v.kept \cup (first + 1)..(first + bytes)
             keepalive == v.keepalive \/ bytes = v.length
  <2>3. w = [v EXCEPT !.kept = kept, !.last = v.last + bytes,
                      !.length = v.length - bytes, !.keepalive = keepalive]
    BY <1>2 DEF ngx_http_adserver_filter, Appended
  <2>4. /\ v.length - bytes \in Nat /\ v.last + bytes \in Nat
        /\ kept \in SUBSET (Nat \ {0})
    BY <2>1 DEF Upstream
  <2>5. keepalive \in BOOLEAN
    OBVIOUS
  <2>6. kept = Body(k + bytes)
    BY <2>2 DEF Good, Body, ADSERVER_HEADER_LENGTH
  <2>7. keepalive <=> (k + bytes > 0 /\ k + bytes = a)
    BY <2>1, <2>2 DEF Good
  <2> HIDE DEF kept, keepalive
  <2>8. w \in Upstream
    <3>1. SUFFICES ASSUME NEW ke \in SUBSET (Nat \ {0}), NEW la \in Nat,
                          NEW le \in Nat, NEW al \in BOOLEAN,
                          w = [v EXCEPT !.kept = ke, !.last = la, !.length = le,
                                        !.keepalive = al]
                   PROVE  w \in Upstream
      BY <2>3, <2>4, <2>5
    <3>2. QED  BY <3>1, UpdatedType
  <2>9. /\ w.status = v.status /\ w.kept = kept
        /\ w.last = v.last + bytes /\ w.length = v.length - bytes
    BY <2>3, <2>4, <2>5 DEF Upstream
  <2>10. w.keepalive = keepalive
    BY <2>3, <2>4, <2>5 DEF Upstream
  <2>11. k + bytes \in 0..a
    BY <2>1, <2>2
  <2>12. w.last = ADSERVER_HEADER_LENGTH + (k + bytes)
    BY <2>9 DEF Good, ADSERVER_HEADER_LENGTH
  <2>13. Counted(w, a, first + bytes, k + bytes)
    BY <2>1, <2>2, <2>9 DEF Counted, ADSERVER_HEADER_LENGTH
  <2>14. Good(w, a, k + bytes)
    BY <2>6, <2>7, <2>9, <2>10, <2>12, Zenon DEF Good
  <2>15. QED  BY <2>8, <2>9, <2>11, <2>13, <2>14 DEF Filtered
<1>3. QED  BY <1>1, <1>2

-----------------------------------------------------------------------------
(***************************************************************************)
(* The inductive invariant.                                                *)
(***************************************************************************)
HeaderInv ==
    /\ u.status # 200 /\ u.kept = {} /\ ~u.keepalive /\ u.length = 0
    /\ pc \in {"start", "create"} =>
         got = 0 /\ u.last = 0 /\ asked = 0 /\ stream = NoStream
    /\ pc = "header" => got = u.last /\ got < ADSERVER_HEADER_LENGTH
    /\ pc = "done" => fault \/ ~Honest

Kept(k) ==
    /\ Good(u, stream.announced, k)
    /\ ~fault /\ (u.length > 0 \/ Honest) => Counted(u, stream.announced, got, k)
    /\ pc = "done" /\ Honest /\ ~fault => k = stream.announced

BodyInv ==
    /\ u.status = 200
    /\ pc = "waiting" => u.length > 0
    /\ \E k \in 0..stream.announced : Kept(k)

ConfInv ==
    /\ conf.next_upstream = ngx_http_adserver_merge_loc_conf(given)
    /\ "off" \in given => asked <= 1

IInv ==
    /\ TypeOK
    /\ ConfInv
    /\ got <= stream.bytes
    /\ pc # "done" => ~fault
    /\ pc \in {"start", "create", "header"} => HeaderInv
    /\ pc \in {"reading", "waiting"} => BodyInv
    /\ pc = "done" => HeaderInv \/ BodyInv

\* Only the failures that are looked up.
LEMMA OffIsOff ==
    ASSUME ConfInv, NEW failure \in {"error", "timeout", "invalid_response"},
           failure \in conf.next_upstream
    PROVE  "off" \notin given
BY DEF ConfInv, ngx_http_adserver_merge_loc_conf

LEMMA InitIInv == Init => IInv
<1> SUFFICES ASSUME Init PROVE IInv
  OBVIOUS
<1> USE DEF Init
<1>1. u \in Upstream
  BY DEF NewUpstream, Upstream
<1>2. ngx_http_adserver_merge_loc_conf(given) \in SUBSET Words
  BY WordSetsAssumption DEF ngx_http_adserver_merge_loc_conf, Words
<1>3. conf \in [buffer_size : BufferSizes, next_upstream : SUBSET Words]
  BY <1>2
<1>4. conf.next_upstream = ngx_http_adserver_merge_loc_conf(given)
  OBVIOUS
<1>5. stream.bytes \in Nat
  BY DEF NoStream
<1>6. TypeOK
  <2>1. asked \in 0..Servers
    BY ServersAssumption
  <2>2. got \in Nat /\ pc \in Phases /\ fault \in BOOLEAN
    BY DEF Phases
  <2>3. given \in SUBSET Words /\ stream \in Stream
    BY WordSetsAssumption, MaxBodyAssumption, MaxSentAssumption
       DEF NoStream, Stream, ADSERVER_HEADER_LENGTH
  <2>4. idle \in 0..MaxIdle /\ cached \in BOOLEAN
    OBVIOUS
  <2> HIDE DEF Init
  <2>5. QED  BY <1>1, <1>3, <2>1, <2>2, <2>3, <2>4 DEF TypeOK
<1>7. HeaderInv
  BY DEF HeaderInv, NewUpstream
<1>8. QED  BY <1>4, <1>5, <1>6, <1>7 DEF IInv, ConfInv

\* A request that is sent to a server, the first, the next or the same one over
\* another connection.
LEMMA Connect_IInv ==
    ASSUME IInv, Connect, asked' \in 0..Servers,
           "off" \in given => asked' <= 1, fault' = FALSE
    PROVE  IInv'
<1>1. /\ pc' = "header" /\ stream' \in Stream /\ got' = 0 /\ u' = NewUpstream
      /\ given' = given /\ conf' = conf
      /\ \/ cached' = FALSE /\ idle' = idle
         \/ idle > 0 /\ cached' = TRUE /\ idle' = idle - 1
  BY DEF Connect, config
<1>2. u' \in Upstream
  BY <1>1 DEF NewUpstream, Upstream
<1>3. idle' \in 0..MaxIdle /\ cached' \in BOOLEAN
  <2>1. idle \in 0..MaxIdle
    BY DEF IInv, TypeOK
  <2>2. idle > 0 => idle - 1 \in 0..MaxIdle
    BY <2>1, MaxIdleAssumption
  <2>3. cached' \in BOOLEAN
    BY <1>1
  <2>4. idle' \in 0..MaxIdle
    BY <1>1, <2>1, <2>2
  <2>5. QED  BY <2>3, <2>4
<1>4. fault' \in BOOLEAN
  OBVIOUS
<1>5. TypeOK'
  BY <1>1, <1>2, <1>3, <1>4 DEF IInv, TypeOK, Phases
<1>6. ConfInv'
  BY <1>1 DEF IInv, ConfInv
<1>7. HeaderInv'
  BY <1>1 DEF HeaderInv, NewUpstream, ADSERVER_HEADER_LENGTH
<1>8. (got <= stream.bytes)'
  BY <1>1, MaxBodyAssumption, MaxSentAssumption DEF Stream, ADSERVER_HEADER_LENGTH
<1>9. QED  BY <1>1, <1>5, <1>6, <1>7, <1>8 DEF IInv

\* The next server, or the end with a status of its own.
LEMMA NextServer_IInv ==
    ASSUME IInv, pc = "header",
           NEW failure \in {"error", "timeout", "invalid_response"},
           NextServer(failure),
           fault' \in BOOLEAN,
           IF pc' = "done" THEN fault' \/ ~Honest ELSE ~fault'
    PROVE  IInv'
<1>1. CASE Connect /\ asked' = asked
  <2>1. asked' \in 0..Servers
    BY <1>1 DEF IInv, TypeOK
  <2>2. "off" \in given => asked' <= 1
    BY <1>1 DEF IInv, ConfInv
  <2>3. fault' = FALSE
    BY <1>1 DEF Connect
  <2>4. QED  BY <1>1, <2>1, <2>2, <2>3, Connect_IInv
<1>2. CASE MayTryNext(failure) /\ Connect /\ asked' = asked + 1
  <2>1. asked < Servers /\ failure \in conf.next_upstream
    BY <1>2 DEF MayTryNext
  <2>2. "off" \notin given
    BY <2>1, OffIsOff DEF IInv
  <2>3. asked' \in 0..Servers
    BY <1>2, <2>1, ServersAssumption DEF IInv, TypeOK
  <2>4. fault' = FALSE
    BY <1>2 DEF Connect
  <2>5. QED  BY <1>2, <2>2, <2>3, <2>4, Connect_IInv
<1>3. CASE /\ u' = [u EXCEPT !.status = IF failure = "timeout" THEN 504 ELSE 502]
           /\ UNCHANGED got
           /\ Finalize
  <2>1. /\ u' = [u EXCEPT !.status = IF failure = "timeout" THEN 504 ELSE 502]
        /\ got' = got /\ pc' = "done" /\ given' = given /\ conf' = conf
        /\ stream' = stream /\ UNCHANGED <<asked, idle, cached>>
    BY <1>3 DEF Finalize, config, peer
  <2>2. u' \in Upstream
    BY <2>1 DEF IInv, TypeOK, Upstream
  <2>3. TypeOK'
    BY <2>1, <2>2 DEF IInv, TypeOK, Phases
  <2>4. ConfInv'
    BY <2>1 DEF IInv, ConfInv
  <2>5. HeaderInv'
    BY <2>1 DEF IInv, HeaderInv, TypeOK, Upstream, Honest
  <2>6. QED  BY <2>1, <2>3, <2>4, <2>5 DEF IInv
<1>4. QED  BY <1>1, <1>2, <1>3 DEF NextServer

\* An accepted header; what comes with it is the first piece of the body.
LEMMA HeaderArrives_IInv ==
    ASSUME IInv, NEW n \in Received, HeaderArrives(n)
    PROVE  IInv'
<1> DEFINE m == got + n
<1>1. /\ pc = "header" /\ HeaderInv /\ TypeOK /\ ConfInv
      /\ got \in Nat /\ n \in Nat \ {0} /\ m \in Nat /\ m <= stream.bytes
      /\ stream.announced \in Nat
  <2>1. pc = "header" /\ HeaderInv /\ TypeOK /\ ConfInv
    BY DEF IInv, HeaderArrives
  <2>2. got \in Nat /\ stream \in Stream
    BY <2>1 DEF TypeOK
  <2>3. stream.announced \in Nat /\ stream.bytes \in Nat
    BY <2>2, MaxBodyAssumption, MaxSentAssumption DEF Stream, ADSERVER_HEADER_LENGTH
  <2>4. n \in Nat \ {0} /\ got + n <= stream.bytes
    BY <2>2, <2>3 DEF Received
  <2>5. QED  BY <2>1, <2>2, <2>3, <2>4
<1>2. m <= conf.buffer_size
  <2>1. conf.buffer_size \in Nat
    BY <1>1, BufferSizesAssumption DEF TypeOK
  <2>2. got = u.last
    BY <1>1 DEF HeaderInv
  <2>3. n <= conf.buffer_size - u.last
    BY DEF Received, Room
  <2>4. QED  BY <1>1, <2>1, <2>2, <2>3
<1>3. CASE /\ ngx_http_adserver_process_header(m) = "NGX_AGAIN"
           /\ m < conf.buffer_size /\ got' = m /\ u' = [u EXCEPT !.last = m]
           /\ UNCHANGED <<config, pc, stream, peer, fault>>
  <2>1. m < ADSERVER_HEADER_LENGTH
    BY <1>3 DEF ngx_http_adserver_process_header
  <2>2. u' \in Upstream /\ HeaderInv'
    BY <1>1, <1>3, <2>1 DEF HeaderInv, TypeOK, Upstream
  <2>3. TypeOK' /\ ConfInv'
    BY <1>1, <1>3, <2>2 DEF TypeOK, ConfInv, config, peer
  <2>4. QED  BY <1>1, <1>3, <2>2, <2>3 DEF IInv
<1>4. CASE /\ \/ ngx_http_adserver_process_header(m) = "INVALID_HEADER"
              \/ /\ ngx_http_adserver_process_header(m) = "NGX_AGAIN"
                 /\ m = conf.buffer_size
           /\ NextServer("invalid_response")
           /\ UNCHANGED fault
  <2>1. ~Honest
    BY <1>1, <1>4 DEF Honest, ngx_http_adserver_process_header,
                      ADSERVER_HEADER_LENGTH
  <2>2. ~fault' /\ fault' \in BOOLEAN
    BY <1>1, <1>4 DEF IInv, TypeOK
  <2>3. QED  BY <1>1, <1>4, <2>1, <2>2, NextServer_IInv
<1>5. CASE /\ ngx_http_adserver_process_header(m) = "NGX_OK"
           /\ got' = m
           /\ UNCHANGED <<config, stream, peer>>
           /\ \/ /\ u' = IF m = ADSERVER_HEADER_LENGTH THEN Accepted
                         ELSE ngx_http_adserver_filter(Accepted,
                                ADSERVER_HEADER_LENGTH,
                                m - ADSERVER_HEADER_LENGTH)
                 /\ pc' = IF u'.length = 0 THEN "done" ELSE "reading"
                 /\ UNCHANGED fault
              \/ /\ m > ADSERVER_HEADER_LENGTH
                 /\ u' = Accepted
                 /\ fault' = TRUE /\ pc' = "done"
  <2>1. ~(m < ADSERVER_HEADER_LENGTH)
    BY <1>5 DEF ngx_http_adserver_process_header
  <2> DEFINE a == stream.announced
  <2>2. /\ Accepted \in Upstream /\ Accepted.status = 200
        /\ Accepted.length = a /\ Good(Accepted, a, 0)
        /\ Counted(Accepted, a, ADSERVER_HEADER_LENGTH, 0)
    <3>1. u \in Upstream /\ u.kept = {} /\ ~u.keepalive
      BY <1>1 DEF HeaderInv, TypeOK
    <3>2. /\ Accepted \in Upstream /\ Accepted.status = 200
          /\ Accepted.length = a /\ Accepted.last = ADSERVER_HEADER_LENGTH
          /\ Accepted.kept = {} /\ ~Accepted.keepalive
      <4>1. /\ Accepted.status = 200 /\ Accepted.length = stream.announced
            /\ Accepted.last = ADSERVER_HEADER_LENGTH
            /\ Accepted.kept = u.kept /\ Accepted.keepalive = u.keepalive
        BY <3>1, Zenon DEF Accepted, Upstream
      <4>2. Accepted \in Upstream
        BY <1>1, <3>1 DEF Accepted, Upstream, ADSERVER_HEADER_LENGTH
      <4>3. ~Accepted.keepalive
        BY <3>1, <4>1, Zenon
      <4>4. QED  BY <3>1, <4>1, <4>2, <4>3
    <3>3. Body(0) = {}
      BY DEF Body, ADSERVER_HEADER_LENGTH
    <3> HIDE DEF a
    <3>4. QED
      BY <1>1, <3>2, <3>3 DEF a, Good, Counted, ADSERVER_HEADER_LENGTH
  <2>3. ConfInv'
    BY <1>1, <1>5 DEF ConfInv, config, peer
  <2>4. ASSUME u' \in Upstream, pc' \in {"reading", "done"}, fault' \in BOOLEAN
        PROVE  TypeOK'
    BY <1>1, <1>5, <2>4 DEF TypeOK, Phases, config, peer
  <2>5. CASE fault' = TRUE /\ u' = Accepted /\ pc' = "done"
    <3>1. Kept(0)'
      BY <1>5, <2>2, <2>5 DEF Kept
    <3>2. BodyInv'
      BY <1>1, <1>5, <2>2, <2>5, <3>1 DEF BodyInv
    <3>3. TypeOK'
      BY <2>2, <2>4, <2>5
    <3>4. QED  BY <1>1, <1>5, <2>3, <2>5, <3>2, <3>3 DEF IInv
  <2>6. CASE /\ pc' = IF u'.length = 0 THEN "done" ELSE "reading"
             /\ u' = IF m = ADSERVER_HEADER_LENGTH THEN Accepted
                     ELSE ngx_http_adserver_filter(Accepted,
                            ADSERVER_HEADER_LENGTH, m - ADSERVER_HEADER_LENGTH)
             /\ UNCHANGED fault
    <3>1. /\ u' \in Upstream /\ u'.status = 200
          /\ \E j \in 0..a :
               /\ Good(u', a, j)
               /\ u'.length > 0 => Counted(u', a, m, j)
               /\ m - ADSERVER_HEADER_LENGTH <= a => Counted(u', a, m, j)
      <4>1. CASE m = ADSERVER_HEADER_LENGTH
        BY <1>1, <2>2, <2>6, <4>1
      <4>2. CASE m # ADSERVER_HEADER_LENGTH
        <5>1. /\ m - ADSERVER_HEADER_LENGTH \in Nat \ {0}
              /\ ADSERVER_HEADER_LENGTH \in Nat
              /\ ADSERVER_HEADER_LENGTH + (m - ADSERVER_HEADER_LENGTH) = m
          BY <1>1, <2>1, <4>2 DEF ADSERVER_HEADER_LENGTH
        <5>2. a \in Nat /\ 0 \in 0..a
          BY <1>1
        <5>3. Filtered(u', Accepted, a, 0, ADSERVER_HEADER_LENGTH,
                       m - ADSERVER_HEADER_LENGTH)
          BY <2>2, <2>6, <4>2, <5>1, <5>2, Filter_Good
        <5> HIDE DEF m
        <5>4. QED  BY <2>2, <5>1, <5>3 DEF Filtered
      <4>3. QED  BY <4>1, <4>2
    <3>2. PICK j \in 0..a :
             /\ Good(u', a, j)
             /\ u'.length > 0 => Counted(u', a, m, j)
             /\ m - ADSERVER_HEADER_LENGTH <= a => Counted(u', a, m, j)
      BY <3>1
    <3>3. Honest => m - ADSERVER_HEADER_LENGTH <= a
      BY <1>1 DEF Honest, ADSERVER_HEADER_LENGTH
    <3>4. Honest' <=> Honest
      BY <1>5 DEF Honest, config
    <3>5. u'.length \in Nat /\ stream' = stream /\ got' = m
      BY <1>5, <3>1 DEF Upstream
    <3>6. Kept(j)'
      BY <1>1, <2>6, <3>2, <3>3, <3>4, <3>5 DEF Kept, Counted
    <3>7. BodyInv'
      BY <1>5, <2>6, <3>1, <3>2, <3>6 DEF BodyInv
    <3>8. TypeOK'
      BY <1>1, <2>4, <2>6, <3>1 DEF TypeOK
    <3>9. QED  BY <1>1, <1>5, <2>3, <2>6, <3>7, <3>8 DEF IInv
  <2>7. QED  BY <1>5, <2>5, <2>6
<1>6. QED  BY <1>3, <1>4, <1>5 DEF HeaderArrives, Finalize

\* Another piece of the body.
LEMMA BodyArrives_IInv ==
    ASSUME IInv, NEW n \in Received, BodyArrives(n)
    PROVE  IInv'
<1> DEFINE a == stream.announced
<1>1. /\ pc \in {"reading", "waiting"} /\ BodyInv /\ TypeOK /\ ConfInv /\ ~fault
      /\ got \in Nat /\ n \in Nat \ {0} /\ got + n <= stream.bytes
      /\ a \in Nat /\ u \in Upstream /\ got' = got + n
      /\ u' = ngx_http_adserver_filter(u, got, n)
      /\ UNCHANGED <<config, stream, peer, fault>>
  <2>1. /\ pc \in {"reading", "waiting"} /\ got' = got + n
        /\ u' = ngx_http_adserver_filter(u, got, n)
        /\ UNCHANGED <<config, stream, peer, fault>>
    BY DEF BodyArrives
  <2>2. BodyInv /\ TypeOK /\ ConfInv /\ ~fault
    BY <2>1 DEF IInv
  <2>3. got \in Nat /\ stream \in Stream /\ u \in Upstream
    BY <2>2 DEF TypeOK
  <2>4. a \in Nat /\ stream.bytes \in Nat
    BY <2>3, MaxBodyAssumption, MaxSentAssumption DEF Stream, ADSERVER_HEADER_LENGTH
  <2>5. n \in Nat \ {0} /\ got + n <= stream.bytes
    BY <2>3, <2>4 DEF Received
  <2>6. QED  BY <2>1, <2>2, <2>3, <2>4, <2>5
<1>2. PICK k \in 0..a : Kept(k)
  BY <1>1 DEF BodyInv
<1>3. Good(u, a, k) /\ (u.length > 0 => Counted(u, a, got, k))
  BY <1>1, <1>2 DEF Kept
<1>4. Filtered(u', u, a, k, got, n)
  <2>1. k \in 0..a
    OBVIOUS
  <2> HIDE DEF a
  <2>2. Filtered(ngx_http_adserver_filter(u, got, n), u, a, k, got, n)
    BY <1>1, <1>3, <2>1, Filter_Good
  <2>3. QED  BY <1>1, <2>2
<1>5. PICK j \in 0..a :
        /\ Good(u', a, j)
        /\ u'.length > 0 => Counted(u', a, got + n, j)
        /\ n <= u.length /\ Counted(u, a, got, k) => Counted(u', a, got + n, j)
  BY <1>4 DEF Filtered
<1>6. Honest => n <= u.length /\ Counted(u, a, got, k)
  BY <1>1, <1>2 DEF Kept, Counted, Honest, Upstream, ADSERVER_HEADER_LENGTH
<1>7. Honest' <=> Honest
  BY <1>1 DEF Honest, config
<1>8. pc' = "reading" \/ pc' = IF u'.length = 0 THEN "done" ELSE "waiting"
  BY DEF BodyArrives, Again
<1>9. u' \in Upstream /\ u'.length \in Nat /\ u'.status = u.status
  BY <1>4 DEF Filtered, Upstream
<1>10. Kept(j)'
  BY <1>1, <1>5, <1>6, <1>7, <1>8, <1>9 DEF Kept, Counted
<1>11. BodyInv'
  BY <1>1, <1>8, <1>9, <1>10 DEF BodyInv
<1>12. TypeOK' /\ ConfInv'
  BY <1>1, <1>8, <1>9 DEF TypeOK, ConfInv, Phases, config, peer
<1>13. QED  BY <1>1, <1>8, <1>11, <1>12 DEF IInv

\* The end of the body, or of the loop, with nothing received.
LEMMA BodyStops_IInv ==
    ASSUME IInv, BodyAgain \/ BodyEnds \/ BodyFails
    PROVE  IInv'
<1>1. /\ pc \in {"reading", "waiting"} /\ BodyInv /\ TypeOK /\ ConfInv
      /\ got \in Nat /\ got <= stream.bytes /\ ~fault
      /\ UNCHANGED <<config, stream, peer, got, u>>
      /\ stream.announced \in Nat /\ stream.bytes \in Nat
      /\ u.length \in Nat /\ fault' \in BOOLEAN
  <2>1. pc \in {"reading", "waiting"} /\ UNCHANGED <<config, stream, peer, got, u>>
    BY DEF BodyAgain, BodyEnds, BodyFails, Finalize
  <2>2. BodyInv /\ TypeOK /\ ConfInv /\ got <= stream.bytes /\ ~fault
    BY <2>1 DEF IInv
  <2>3. got \in Nat /\ u.length \in Nat /\ stream \in Stream /\ fault \in BOOLEAN
    BY <2>2 DEF TypeOK, Upstream
  <2>4. stream.announced \in Nat /\ stream.bytes \in Nat
    BY <2>3, MaxBodyAssumption, MaxSentAssumption DEF Stream, ADSERVER_HEADER_LENGTH
  <2>5. fault' \in BOOLEAN
    BY <2>3 DEF BodyAgain, BodyEnds, BodyFails
  <2>6. QED  BY <2>1, <2>2, <2>3, <2>4, <2>5
<1>2. PICK k \in 0..stream.announced : Kept(k)
  BY <1>1 DEF BodyInv
<1>3. Honest' <=> Honest
  BY <1>1 DEF Honest, config
<1>4. /\ pc' \in {"done", "waiting"}
      /\ pc' = "waiting" => u.length > 0 /\ ~fault'
  BY <1>1 DEF BodyAgain, BodyEnds, BodyFails, Again, Finalize
<1>5. pc' = "done" /\ Honest /\ ~fault' => k = stream.announced
  <2> SUFFICES ASSUME pc' = "done", Honest, ~fault' PROVE k = stream.announced
    OBVIOUS
  <2>1. Counted(u, stream.announced, got, k)
    BY <1>1, <1>2 DEF Kept
  <2>2. CASE BodyAgain
    BY <1>1, <2>1, <2>2 DEF BodyAgain, Again, Counted
  <2>3. CASE BodyEnds
    <3>1. u.last = got
      BY <1>2, <2>1 DEF Kept, Good, Counted
    <3>2. got = stream.bytes
      <4>1. conf.buffer_size \in Nat /\ stream.bytes <= conf.buffer_size
        BY <1>1, BufferSizesAssumption DEF TypeOK, Honest
      <4>2. QED  BY <1>1, <2>3, <3>1, <4>1 DEF BodyEnds, Room
    <3>3. QED  BY <1>1, <2>1, <3>2 DEF Counted, Honest, ADSERVER_HEADER_LENGTH
  <2>4. CASE BodyFails
    BY <2>4 DEF BodyFails
  <2>5. QED  BY <2>2, <2>3, <2>4
<1>6. Kept(k)'
  BY <1>1, <1>2, <1>3, <1>4, <1>5 DEF Kept
<1>7. BodyInv'
  BY <1>1, <1>4, <1>6 DEF BodyInv
<1>8. TypeOK' /\ ConfInv'
  BY <1>1, <1>4 DEF TypeOK, ConfInv, Phases, config, peer
<1>9. QED  BY <1>1, <1>4, <1>7, <1>8 DEF IInv

LEMMA NextIInv == IInv /\ [Next]_vars => IInv'
<1> SUFFICES ASSUME IInv, [Next]_vars PROVE IInv'
  OBVIOUS
<1>1. CASE ngx_http_adserver_handler \/ ngx_http_adserver_create_request
  <2>1. CASE ngx_http_adserver_create_request /\ pc' = "header"
    <3>1. Connect /\ asked' = 1 /\ fault' = fault /\ pc = "create"
      BY <2>1 DEF ngx_http_adserver_create_request, Finalize
    <3>2. asked' \in 0..Servers /\ asked' <= 1 /\ fault' = FALSE
      BY <3>1, ServersAssumption DEF IInv, TypeOK
    <3>3. QED  BY <3>1, <3>2, Connect_IInv
  <2>2. CASE ~(ngx_http_adserver_create_request /\ pc' = "header")
    <3>1. /\ pc \in {"start", "create"}
          /\ UNCHANGED <<config, stream, got, u, peer>>
          /\ \/ pc' = "create" /\ fault' = fault
             \/ pc' = "done" /\ fault' = TRUE
      BY <1>1, <2>2 DEF ngx_http_adserver_handler,
                       ngx_http_adserver_create_request, Connect, Finalize
    <3>2. HeaderInv /\ TypeOK /\ ConfInv /\ got <= stream.bytes
      BY <3>1 DEF IInv
    <3>3. HeaderInv'
      BY <3>1, <3>2 DEF HeaderInv, peer
    <3>4. pc' \in Phases /\ fault' \in BOOLEAN
      BY <3>1, <3>2 DEF TypeOK, Phases
    <3>5. TypeOK' /\ ConfInv'
      BY <3>1, <3>2, <3>4 DEF TypeOK, ConfInv, config, peer
    <3>6. pc' # "done" => ~fault'
      BY <3>1 DEF IInv
    <3>7. QED  BY <3>1, <3>2, <3>3, <3>5, <3>6 DEF IInv
  <2>3. QED  BY <2>1, <2>2
<1>2. CASE \E n \in Received : HeaderArrives(n)
  BY <1>2, HeaderArrives_IInv
<1>3. CASE HeaderEnds
  <2>1. ~Honest
    BY <1>3, MaxBodyAssumption, MaxSentAssumption
       DEF HeaderEnds, Honest, IInv, HeaderInv, TypeOK, Stream, ADSERVER_HEADER_LENGTH
  <2>2. ~fault' /\ fault' \in BOOLEAN
    BY <1>3 DEF HeaderEnds, IInv, TypeOK
  <2>3. QED  BY <1>3, <2>1, <2>2, NextServer_IInv DEF HeaderEnds
<1>4. CASE HeaderFails
  <2>1. PICK failure \in {"error", "timeout"} : NextServer(failure)
    BY <1>4 DEF HeaderFails
  <2>2. pc = "header" /\ fault' = (pc' = "done")
    BY <1>4 DEF HeaderFails
  <2>3. QED  BY <2>1, <2>2, NextServer_IInv
<1>5. CASE \E n \in Received : BodyArrives(n)
  BY <1>5, BodyArrives_IInv
<1>6. CASE BodyAgain \/ BodyEnds \/ BodyFails
  BY <1>6, BodyStops_IInv
<1>7. CASE UNCHANGED vars
  BY <1>7 DEF vars, config, peer, IInv, TypeOK, ConfInv, HeaderInv, BodyInv, Kept, Honest
<1>8. QED  BY <1>1, <1>2, <1>3, <1>4, <1>5, <1>6, <1>7 DEF Next

LEMMA Invariance == Spec => []IInv
BY InitIInv, NextIInv, PTL DEF Spec

-----------------------------------------------------------------------------
(***************************************************************************)
(* Theorems.                                                               *)
(***************************************************************************)
LEMMA BodyUnique ==
    ASSUME NEW k \in Nat, NEW a \in Nat, Body(k) = Body(a)
    PROVE  k = a
<1>1. k <= a
  <2>1. SUFFICES ASSUME k > a PROVE FALSE
    OBVIOUS
  <2>2. ADSERVER_HEADER_LENGTH + k \in Body(k) \ Body(a)
    BY <2>1 DEF Body, ADSERVER_HEADER_LENGTH
  <2>3. QED  BY <2>2
<1>2. a <= k
  <2>1. SUFFICES ASSUME a > k PROVE FALSE
    OBVIOUS
  <2>2. ADSERVER_HEADER_LENGTH + a \in Body(a) \ Body(k)
    BY <2>1 DEF Body, ADSERVER_HEADER_LENGTH
  <2>3. QED  BY <2>2
<1>3. QED  BY <1>1, <1>2

\* In every phase some k bytes have been kept.
LEMMA KeptBody ==
    ASSUME IInv
    PROVE  /\ stream.announced \in Nat
           /\ \/ HeaderInv
              \/ u.status = 200 /\ \E k \in 0..stream.announced : Kept(k)
BY MaxBodyAssumption, MaxSentAssumption DEF IInv, BodyInv, TypeOK, Phases, Stream

\* States are well-formed: counts of bytes stay natural numbers, and no more
\* servers are asked than there are.
THEOREM TypeCorrect == Spec => []TypeOK
<1>1. IInv => TypeOK
  BY DEF IInv
<1>2. QED  BY <1>1, Invariance, PTL

\* The plugin is given the beginning of the announced body, without a gap.
THEOREM BodyWithoutGap == Spec => []NoGap
<1>1. IInv => NoGap
  <2> SUFFICES ASSUME IInv PROVE NoGap
    OBVIOUS
  <2>1. CASE HeaderInv
    <3>1. Body(0) = {}
      BY DEF Body, ADSERVER_HEADER_LENGTH
    <3>2. QED  BY <2>1, <3>1, KeptBody DEF HeaderInv, NoGap
  <2>2. CASE \E k \in 0..stream.announced : Kept(k)
    BY <2>2 DEF NoGap, Kept, Good
  <2>3. QED  BY <2>1, <2>2, KeptBody
<1>2. QED  BY <1>1, Invariance, PTL

\* A connection is kept only when the whole of a body has been taken from it.
THEOREM KeptConnectionIsClean == Spec => []KeepaliveWhole
<1>1. IInv => KeepaliveWhole
  <2> SUFFICES ASSUME IInv PROVE KeepaliveWhole
    OBVIOUS
  <2>1. CASE HeaderInv
    BY <2>1 DEF HeaderInv, KeepaliveWhole
  <2>2. CASE u.status = 200 /\ \E k \in 0..stream.announced : Kept(k)
    <3>1. PICK k \in 0..stream.announced : Kept(k)
      BY <2>2
    <3>2. k \in Nat /\ stream.announced \in Nat
      BY KeptBody
    <3>3. Whole <=> k = stream.announced
      BY <3>1, <3>2, BodyUnique DEF Kept, Good, Whole
    <3>4. u.keepalive <=> (k > 0 /\ k = stream.announced)
      BY <3>1 DEF Kept, Good
    <3>5. QED  BY <2>2, <3>2, <3>3, <3>4 DEF KeepaliveWhole
  <2>3. QED  BY <2>1, <2>2, KeptBody
<1>2. QED  BY <1>1, Invariance, PTL

\* A server that has sent the whole body is not waited for.
THEOREM NoWaitForWhole == Spec => []NoIdleWait
<1>1. IInv => NoIdleWait
  <2> SUFFICES ASSUME IInv, pc = "waiting" PROVE NoIdleWait
    BY DEF NoIdleWait
  <2>1. /\ BodyInv /\ ~fault /\ u.length > 0 /\ u.length \in Nat
        /\ stream.announced \in Nat
    BY KeptBody DEF IInv, BodyInv, TypeOK, Upstream
  <2>2. PICK k \in 0..stream.announced : Kept(k)
    BY <2>1 DEF BodyInv
  <2>3. /\ u.last = ADSERVER_HEADER_LENGTH + k
        /\ k + u.length = stream.announced
    BY <2>1, <2>2 DEF Kept, Good, Counted
  <2>4. k \in Nat /\ k # stream.announced
    BY <2>1, <2>3
  <2>5. ~Whole
    BY <2>1, <2>2, <2>4, BodyUnique DEF Whole, Kept, Good
  <2>6. QED  BY <2>1, <2>3, <2>4, <2>5 DEF NoIdleWait, ADSERVER_HEADER_LENGTH
<1>2. QED  BY <1>1, Invariance, PTL

\* A server that keeps to the protocol is served to the plugin in full.
THEOREM HonestServerServed == Spec => []HonestServed
<1>1. IInv => HonestServed
  <2> SUFFICES ASSUME IInv, pc = "done", Honest, ~fault
               PROVE  u.status = 200 /\ Whole
    BY DEF HonestServed
  <2>1. u.status = 200 /\ \E k \in 0..stream.announced : Kept(k)
    BY KeptBody DEF HeaderInv
  <2>2. QED  BY <2>1 DEF Kept, Good, Whole
<1>2. QED  BY <1>1, Invariance, PTL

\* "off" wins over the failures named with it.
THEOREM OffAsksOneServer == Spec => []OffAsksOnce
<1>1. IInv => OffAsksOnce
  BY DEF IInv, ConfInv, OffAsksOnce
<1>2. QED  BY <1>1, Invariance, PTL

=============================================================================
