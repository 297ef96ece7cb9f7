-------------------------- MODULE ResponseTheorems --------------------------
(***************************************************************************)
(* Proofs about the end of a request: of what a plugin's answer is made    *)
(* into a response (ResponseHeaders), for every length of the answer and   *)
(* whether or not memory may run out; and of the time that is logged with  *)
(* it (TimeConsumed), for every pair of readings of the clock.             *)
(***************************************************************************)
EXTENDS ResponseHeaders, TimeConsumed, TLAPS

Jumps == Asks("is_jumpurl") /\ Has("u")

HeaderLine == [name : {"Location", "Set-Cookie"}, value : Seq(HeaderParts)]

\* The redirect as ngx_url_jump leaves it, which nothing after it undoes: the
\* status is 302 if and only if the client is to jump, a Location stands in
\* the headers only with it, and, as long as memory has lasted, stands first.
Redirected(st, hs, failed) ==
    /\ st = 302 <=> Jumps
    /\ \A i \in DOMAIN hs : hs[i].name = "Location" => Jumps /\ i = 1
    /\ Jumps /\ ~failed =>
         Len(hs) >= 1 /\ hs[1] = Header("Location", <<"u">>)

IInv ==
    /\ TypeOK
    /\ pc = "jump" => headers = <<>> /\ status = 0
    /\ pc # "jump" => Redirected(status, headers, fault)
    /\ pc # "sent" => status # 200
    /\ pc = "header" => result # 0

-----------------------------------------------------------------------------
(***************************************************************************)
(* Lemmas about header lines.                                              *)
(***************************************************************************)
LEMMA LineTypes ==
    ASSUME NEW name \in {"Location", "Set-Cookie"}, NEW value \in Seq(HeaderParts)
    PROVE  Header(name, value) \in HeaderLine
BY DEF Header, HeaderLine

LEMMA PartTypes ==
    /\ <<"u">> \in Seq(HeaderParts)
    /\ <<"undefined">> \in Seq(HeaderParts)
    /\ <<"undefined">> \o Attributes \in Seq(HeaderParts)
<1>1. /\ "u" \in HeaderParts /\ "undefined" \in HeaderParts
      /\ {"cookie_domain", "cookie_path", "cookie_expires"} \subseteq HeaderParts
  BY DEF HeaderParts, Values
<1> DEFINE Part(v, there) == IF there THEN <<v>> ELSE <<>>
<1>2. ASSUME NEW v \in HeaderParts, NEW there
      PROVE  Part(v, there) \in Seq(HeaderParts)
  <2>1. <<v>> \in Seq(HeaderParts) /\ <<>> \in Seq(HeaderParts)
    OBVIOUS
  <2> QED
    BY <2>1
<1>3. /\ Part("cookie_domain", Has("cookie_domain")) \in Seq(HeaderParts)
      /\ Part("cookie_path", Has("cookie_path")) \in Seq(HeaderParts)
      /\ Part("cookie_expires", Has("is_cookie_expires") /\ Has("cookie_expires"))
           \in Seq(HeaderParts)
  BY <1>1, <1>2
<1>4. ASSUME NEW a \in Seq(HeaderParts), NEW b \in Seq(HeaderParts),
             NEW c \in Seq(HeaderParts), NEW d \in Seq(HeaderParts)
      PROVE  d \o (a \o b \o c) \in Seq(HeaderParts)
  <2>1. a \o b \in Seq(HeaderParts)
    OBVIOUS
  <2>2. (a \o b) \o c \in Seq(HeaderParts)
    BY <2>1
  <2> QED
    BY <2>2
<1>5. <<"u">> \in Seq(HeaderParts) /\ <<"undefined">> \in Seq(HeaderParts)
  BY <1>1
<1> HIDE DEF Part
<1>6. Attributes = Part("cookie_domain", Has("cookie_domain"))
                   \o Part("cookie_path", Has("cookie_path"))
                   \o Part("cookie_expires",
                           Has("is_cookie_expires") /\ Has("cookie_expires"))
  BY DEF Attributes, Part
<1> QED
  BY <1>3, <1>4, <1>5, <1>6

\* What Push may do to the list and to the history.
LEMMA PushOutcome ==
    ASSUME NEW name \in {"Location", "Set-Cookie"},
           NEW value \in Seq(HeaderParts),
           Push(name, value)
    PROVE  \/ /\ headers' = Append(headers, Header(name, value))
              /\ fault' = fault
           \/ /\ fault' = TRUE
              /\ \/ headers' = headers
                 \/ \E line \in HeaderLine :
                       line.name = name /\ headers' = Append(headers, line)
<1>1. Header(name, <<"undefined">>) \in HeaderLine
  BY LineTypes, PartTypes
<1>2. Header(name, <<"undefined">>).name = name
  BY DEF Header
<1> QED
  BY <1>1, <1>2 DEF Push

LEMMA LineAppended ==
    ASSUME NEW hs \in Seq(HeaderLine), NEW line \in HeaderLine
    PROVE  /\ Append(hs, line) \in Seq(HeaderLine)
           /\ DOMAIN Append(hs, line) = 1..(Len(hs) + 1)
           /\ DOMAIN hs = 1..Len(hs)
           /\ Len(Append(hs, line)) = Len(hs) + 1
           /\ Len(hs) \in Nat
           /\ \A i \in 1..Len(hs) : Append(hs, line)[i] = hs[i]
           /\ Append(hs, line)[Len(hs) + 1] = line
OBVIOUS

\* A line that is no Location changes nothing of the redirect.
LEMMA OtherLine ==
    ASSUME NEW st, NEW hs \in Seq(HeaderLine), NEW failed,
           Redirected(st, hs, failed),
           NEW line \in HeaderLine, line.name = "Set-Cookie",
           NEW later, ~later => ~failed
    PROVE  Redirected(st, Append(hs, line), later)
<1> DEFINE more == Append(hs, line)
<1>1. /\ DOMAIN more = 1..(Len(hs) + 1) /\ DOMAIN hs = 1..Len(hs)
      /\ Len(more) = Len(hs) + 1 /\ Len(hs) \in Nat
      /\ \A i \in 1..Len(hs) : more[i] = hs[i]
      /\ more[Len(hs) + 1] = line
  BY LineAppended
<1> HIDE DEF more
<1>2. st = 302 <=> Jumps
  BY DEF Redirected
<1>3. ASSUME NEW i \in DOMAIN more, more[i].name = "Location"
      PROVE  Jumps /\ i = 1
  <2>1. "Location" # "Set-Cookie"
    OBVIOUS
  <2>2. i # Len(hs) + 1
    BY <1>1, <1>3, <2>1
  <2>3. i \in 1..Len(hs)
    BY <1>1, <2>2
  <2>4. hs[i].name = "Location"
    BY <1>1, <1>3, <2>3
  <2> QED
    BY <1>1, <2>3, <2>4 DEF Redirected
<1>4. ASSUME Jumps, ~later
      PROVE  Len(more) >= 1 /\ more[1] = Header("Location", <<"u">>)
  <2>1. Len(hs) >= 1 /\ hs[1] = Header("Location", <<"u">>)
    BY <1>4 DEF Redirected
  <2>2. 1 \in 1..Len(hs) /\ Len(more) >= 1
    BY <1>1, <2>1
  <2> QED
    BY <1>1, <2>1, <2>2
<1>5. Redirected(st, more, later)
  BY <1>2, <1>3, <1>4 DEF Redirected
<1> QED
  BY <1>5 DEF more

-----------------------------------------------------------------------------
(***************************************************************************)
(* The invariant, one lemma for each call of plugin_final_request.         *)
(***************************************************************************)
LEMMA InitInvariant == Init => IInv
<1> SUFFICES ASSUME Init PROVE IInv
  OBVIOUS
<1>1. /\ pc = "jump" /\ headers_out \in HeadersOut /\ result \in Result
      /\ headers = <<>> /\ status = 0 /\ length = -1 /\ fault = FALSE
  BY DEF Init
<1>2. headers \in Seq(HeaderLine)
  BY <1>1
<1>3. TypeOK
  BY <1>1, <1>2 DEF TypeOK, HeaderLine
<1> QED
  BY <1>1, <1>3 DEF IInv

LEMMA JumpKeeps ==
    ASSUME IInv, ngx_url_jump
    PROVE  IInv'
<1>1. /\ pc = "jump" /\ pc' = "cookie" /\ headers = <<>> /\ status = 0
      /\ headers_out \in HeadersOut /\ headers_out' = headers_out
      /\ result \in Result /\ result' = result
      /\ fault \in BOOLEAN /\ <<>> \in Seq(HeaderLine)
  BY DEF ngx_url_jump, IInv, TypeOK
<1>2. Jumps' <=> Jumps
  BY <1>1 DEF Jumps, Asks, Has
<1>3. CASE ~Jumps
  <2>1. headers' = <<>> /\ status' = 0 /\ fault' = fault
    BY <1>1, <1>3 DEF ngx_url_jump, Jumps, JumpAsked
  <2>2. TypeOK'
    BY <1>1, <2>1 DEF TypeOK, HeaderLine
  <2>3. Redirected(status, headers, fault)'
    BY <1>2, <1>3, <2>1 DEF Redirected
  <2> QED
    BY <1>1, <2>1, <2>2, <2>3 DEF IInv
<1>4. CASE Jumps
  <2>1. status' = 302 /\ Push("Location", <<"u">>)
    BY <1>1, <1>4 DEF ngx_url_jump, Jumps, JumpAsked
  <2>2. \/ /\ headers' = Append(headers, Header("Location", <<"u">>))
           /\ fault' = fault
        \/ /\ fault' = TRUE
           /\ \/ headers' = headers
              \/ \E line \in HeaderLine :
                    line.name = "Location" /\ headers' = Append(headers, line)
    BY <2>1, PartTypes, PushOutcome
  <2>3. Header("Location", <<"u">>) \in HeaderLine
    BY LineTypes, PartTypes
  <2>4. /\ fault' \in BOOLEAN
        /\ \/ headers' = <<>> /\ fault' = TRUE
           \/ \E line \in HeaderLine :
                 /\ headers' = Append(<<>>, line)
                 /\ line = Header("Location", <<"u">>) \/ fault' = TRUE
    BY <1>1, <2>2, <2>3
  <2>5. ASSUME NEW line \in HeaderLine
        PROVE  /\ Append(<<>>, line) \in Seq(HeaderLine)
               /\ DOMAIN Append(<<>>, line) = {1}
               /\ Len(Append(<<>>, line)) = 1
               /\ Append(<<>>, line)[1] = line
    <3>1. Len(<<>>) = 0 /\ <<>> \in Seq(HeaderLine)
      OBVIOUS
    <3>2. /\ Append(<<>>, line) \in Seq(HeaderLine)
          /\ DOMAIN Append(<<>>, line) = 1..(Len(<<>>) + 1)
          /\ Len(Append(<<>>, line)) = Len(<<>>) + 1
          /\ Append(<<>>, line)[Len(<<>>) + 1] = line
      BY <3>1, LineAppended
    <3> QED
      BY <3>1, <3>2
  <2>6. headers' \in Seq(HeaderLine) /\ DOMAIN headers' \subseteq {1}
    <3>1. CASE headers' = <<>>
      <4>1. DOMAIN <<>> = {}
        OBVIOUS
      <4> QED
        BY <1>1, <3>1, <4>1
    <3>2. CASE \E line \in HeaderLine : headers' = Append(<<>>, line)
      BY <2>5, <3>2
    <3> QED
      BY <2>4, <3>1, <3>2
  <2>7. ~fault' => Len(headers') = 1 /\ headers'[1] = Header("Location", <<"u">>)
    BY <2>4, <2>5
  <2>8. TypeOK'
    BY <1>1, <2>1, <2>4, <2>6 DEF TypeOK, HeaderLine
  <2>9. Redirected(status, headers, fault)'
    BY <1>2, <1>4, <2>1, <2>6, <2>7 DEF Redirected
  <2> QED
    BY <1>1, <2>1, <2>8, <2>9 DEF IInv
<1> QED
  BY <1>3, <1>4

LEMMA CookieKeeps ==
    ASSUME IInv, ngx_write_cookie
    PROVE  IInv'
<1>1. /\ pc = "cookie" /\ pc' \in {"result", "crash"}
      /\ headers_out \in HeadersOut /\ headers_out' = headers_out
      /\ result \in Result /\ result' = result
      /\ status \in {0, 302} /\ status' = status
      /\ headers \in Seq(HeaderLine) /\ fault \in BOOLEAN
      /\ Redirected(status, headers, fault)
  BY DEF ngx_write_cookie, IInv, TypeOK, HeaderLine
<1>2. \/ headers' = headers /\ fault' = fault
      \/ Push("Set-Cookie", <<"undefined">> \o Attributes)
  BY DEF ngx_write_cookie
<1>3. ASSUME Push("Set-Cookie", <<"undefined">> \o Attributes)
      PROVE  \/ /\ headers' = Append(headers, Header("Set-Cookie",
                                          <<"undefined">> \o Attributes))
                /\ fault' = fault
             \/ /\ fault' = TRUE
                /\ \/ headers' = headers
                   \/ \E line \in HeaderLine :
                         line.name = "Set-Cookie" /\ headers' = Append(headers, line)
  BY <1>3, PartTypes, PushOutcome
<1>4. /\ Header("Set-Cookie", <<"undefined">> \o Attributes) \in HeaderLine
      /\ Header("Set-Cookie", <<"undefined">> \o Attributes).name = "Set-Cookie"
  <2>1. Header("Set-Cookie", <<"undefined">> \o Attributes) \in HeaderLine
    BY LineTypes, PartTypes
  <2> QED
    BY <2>1 DEF Header
<1>5. /\ fault' \in BOOLEAN
      /\ ~fault' => ~fault
      /\ \/ headers' = headers
         \/ \E line \in HeaderLine :
               line.name = "Set-Cookie" /\ headers' = Append(headers, line)
  BY <1>1, <1>2, <1>3, <1>4
<1>6. headers' \in Seq(HeaderLine)
  BY <1>1, <1>5, LineAppended
<1>7. Jumps' <=> Jumps
  BY <1>1 DEF Jumps, Asks, Has
<1>8. Redirected(status, headers', fault')
  <2>1. CASE headers' = headers
    BY <1>1, <1>5, <2>1 DEF Redirected
  <2>2. CASE headers' # headers
    <3>1. PICK line \in HeaderLine :
             line.name = "Set-Cookie" /\ headers' = Append(headers, line)
      BY <1>5, <2>2
    <3>2. Redirected(status, Append(headers, line), fault')
      BY <1>1, <1>5, <3>1, OtherLine
    <3> QED
      BY <3>1, <3>2
  <2> QED
    BY <2>1, <2>2
<1>9. Redirected(status, headers, fault)'
  BY <1>1, <1>7, <1>8 DEF Redirected
<1>10. TypeOK'
  BY <1>1, <1>5, <1>6 DEF TypeOK, HeaderLine
<1> QED
  BY <1>1, <1>9, <1>10 DEF IInv

LEMMA RedirectedStays ==
    ASSUME headers_out' = headers_out, headers' = headers, fault' = fault,
           status' = 302 <=> status = 302,
           Redirected(status, headers, fault)
    PROVE  Redirected(status, headers, fault)'
BY DEF Redirected, Jumps, Asks, Has

LEMMA CheckKeeps ==
    ASSUME IInv, CheckResult
    PROVE  IInv'
<1>1. /\ pc = "result" /\ pc' \in {"header", "error"}
      /\ pc' = "header" => result # 0
      /\ UNCHANGED <<headers_out, result, headers, status, length, fault>>
  BY DEF CheckResult, EmptyResult
<1>2. Redirected(status, headers, fault)'
  BY <1>1, RedirectedStays DEF IInv
<1>3. TypeOK'
  BY <1>1 DEF IInv, TypeOK
<1> QED
  BY <1>1, <1>2, <1>3 DEF IInv

LEMMA StatusKeeps ==
    ASSUME IInv, SetStatus
    PROVE  IInv'
<1>1. /\ pc = "header" /\ pc' = "sent" /\ length' = result /\ result # 0
      /\ result \in Result
      /\ status' = IF status # 302 THEN 200 ELSE status
      /\ UNCHANGED <<headers_out, result, headers, fault>>
  BY DEF SetStatus, Status, IInv, TypeOK
<1>2. Redirected(status, headers, fault)'
  BY <1>1, RedirectedStays DEF IInv
<1>3. length' > 0 /\ status' \in {200, 302}
  BY <1>1, ResultAssumption
<1>4. TypeOK'
  BY <1>1, <1>3 DEF IInv, TypeOK
<1> QED
  BY <1>1, <1>2, <1>4 DEF IInv

LEMMA IInvHolds == Spec => []IInv
<1>1. IInv /\ UNCHANGED vars => IInv'
  <2> SUFFICES ASSUME IInv, UNCHANGED vars PROVE IInv'
    OBVIOUS
  <2>1. UNCHANGED <<pc, headers_out, result, headers, status, length, fault>>
    BY DEF vars
  <2>2. TypeOK'
    BY <2>1 DEF IInv, TypeOK
  <2>3. pc # "jump" => Redirected(status, headers, fault)'
    BY <2>1, RedirectedStays DEF IInv
  <2> QED
    BY <2>1, <2>2, <2>3 DEF IInv
<1>2. IInv /\ [Next]_vars => IInv'
  BY <1>1, JumpKeeps, CookieKeeps, CheckKeeps, StatusKeeps DEF Next
<1> QED
  BY <1>2, InitInvariant, PTL DEF Spec

-----------------------------------------------------------------------------
\* Every variable keeps its type; in particular no response is sent without a
\* status or with an empty body (plugin_final_request).
THEOREM TypeCorrect == Spec => []TypeOK
<1>1. IInv => TypeOK
  BY DEF IInv
<1> QED
  BY <1>1, IInvHolds, PTL

\* Whatever memory there is, nobody is sent elsewhere who need not be, and a
\* Location comes with the status of a redirect (ngx_url_jump).
THEOREM JumpOnlyIfAsked == Spec => []JumpOnlyAsked
<1>1. IInv => JumpOnlyAsked
  <2> SUFFICES ASSUME IInv, pc = "sent"
               PROVE  /\ status = 302 => Jumps
                      /\ Named("Location") # {} => status = 302
    BY DEF JumpOnlyAsked, Jumps
  <2>1. Redirected(status, headers, fault)
    BY DEF IInv
  <2> QED
    BY <2>1 DEF Redirected, Named
<1> QED
  BY <1>1, IInvHolds, PTL

\* As long as memory lasts, the client is sent elsewhere if and only if the
\* plugin asks for it and says where to, and is told where, once, whatever
\* else is in the response (ngx_url_jump, plugin_final_request).
THEOREM JumpIsExact == Spec => []JumpExactly
<1>1. IInv => JumpExactly
  <2> SUFFICES ASSUME IInv, pc = "sent", ~fault
               PROVE  /\ status = 302 <=> Jumps
                      /\ status = 302 =>
                           \E i \in Named("Location") :
                             /\ Named("Location") = {i}
                             /\ headers[i].value = <<"u">>
                      /\ status = 200 => Named("Location") = {}
    BY DEF JumpExactly, Jumps
  <2>1. /\ status = 302 <=> Jumps
        /\ \A i \in Named("Location") : Jumps /\ i = 1
        /\ Jumps => Len(headers) >= 1 /\ headers[1] = Header("Location", <<"u">>)
    BY DEF IInv, Redirected, Named
  <2>2. ASSUME status = 302
        PROVE  /\ 1 \in Named("Location")
               /\ Named("Location") = {1}
               /\ headers[1].value = <<"u">>
    <3>1. Len(headers) >= 1 /\ headers[1] = Header("Location", <<"u">>)
      BY <2>1, <2>2
    <3>2. headers[1].name = "Location" /\ headers[1].value = <<"u">>
      BY <3>1 DEF Header
    <3>3. headers \in Seq(HeaderLine)
      BY DEF IInv, TypeOK, HeaderLine
    <3>4. 1 \in DOMAIN headers
      BY <3>1, <3>3
    <3>5. 1 \in Named("Location")
      BY <3>2, <3>4 DEF Named
    <3> QED
      BY <2>1, <3>2, <3>5
  <2>3. status = 200 => Named("Location") = {}
    <3>1. 200 # 302
      OBVIOUS
    <3> QED
      BY <2>1, <3>1
  <2> QED
    BY <2>1, <2>2, <2>3
<1> QED
  BY <1>1, IInvHolds, PTL

-----------------------------------------------------------------------------
(***************************************************************************)
(* The time that is logged.  The leaves of these proofs name SMT, since    *)
(* Zenon writes numbers in unary.                                          *)
(***************************************************************************)
\* The quotient is rounded towards zero, by less than one.
LEMMA QuotientBounds ==
    ASSUME NEW a \in Int, -1000000 < a, a < 1000000
    PROVE  /\ Quotient(a, 1000) \in Int
           /\ -1000 < Quotient(a, 1000) /\ Quotient(a, 1000) < 1000
           /\ -1000 < Quotient(a, 1000) * 1000 - a
           /\ Quotient(a, 1000) * 1000 - a < 1000
<1>1. CASE a >= 0
  BY SMT, <1>1 DEF Quotient
<1>2. CASE ~(a >= 0)
  <2> DEFINE b == -a
  <2>1. b \in Int /\ 0 < b /\ b < 1000000
    BY SMT, <1>2
  <2> DEFINE q == b \div 1000
  <2>2. q \in Int /\ 0 <= q /\ q < 1000 /\ q * 1000 <= b /\ b - q * 1000 < 1000
    BY SMT, <2>1
  <2>3. Quotient(a, 1000) = -q
    BY SMT, <1>2 DEF Quotient
  <2> HIDE DEF q
  <2> QED
    BY SMT, <1>2, <2>1, <2>2, <2>3
<1> QED
  BY SMT, <1>1, <1>2

\* What is logged as seconds and milliseconds is less than a millisecond from
\* the time between the two readings of the clock, also when they have fewer
\* microseconds at the end than at the start, or less than a millisecond
\* fewer, so that the division gives 0 and nothing is corrected; and the
\* milliseconds are milliseconds (ngx_http_adfront_handler, FINAL).
THEOREM LoggedTimeIsRight ==
    ASSUME NEW start \in Time, NEW end \in Time
    PROVE  /\ Consumed(start, end).tms \in 0..999
           /\ -1000 < Reported(Consumed(start, end)) - Elapsed(start, end)
           /\ Reported(Consumed(start, end)) - Elapsed(start, end) < 1000
<1> DEFINE a == end.usec - start.usec
           d == end.sec - start.sec
           t == Quotient(a, 1000)
           c == Consumed(start, end)
<1>1. a \in Int /\ -1000000 < a /\ a < 1000000 /\ d \in Int
  BY SMT DEF Time, Microseconds
<1>2. c = IF t < 0 THEN [ts |-> d - 1, tms |-> t + 1000]
          ELSE [ts |-> d, tms |-> t]
  BY SMT DEF Consumed
<1>3. Elapsed(start, end) = d * 1000000 + a
  BY SMT DEF Elapsed
<1> HIDE DEF a, d, c
<1>4. /\ t \in Int /\ -1000 < t /\ t < 1000
      /\ -1000 < t * 1000 - a /\ t * 1000 - a < 1000
  <2>1. /\ Quotient(a, 1000) \in Int
        /\ -1000 < Quotient(a, 1000) /\ Quotient(a, 1000) < 1000
        /\ -1000 < Quotient(a, 1000) * 1000 - a
        /\ Quotient(a, 1000) * 1000 - a < 1000
    BY SMT, <1>1, QuotientBounds
  <2> QED
    BY SMT, <2>1
<1> HIDE DEF t
<1>5. c.tms \in 0..999 /\ Reported(c) = d * 1000000 + t * 1000
  <2>1. CASE t < 0
    <3>1. c.ts = d - 1 /\ c.tms = t + 1000
      BY SMT, <1>2, <2>1
    <3> QED
      BY SMT, <1>1, <1>4, <2>1, <3>1 DEF Reported
  <2>2. CASE ~(t < 0)
    <3>1. c.ts = d /\ c.tms = t
      BY SMT, <1>2, <2>2
    <3> QED
      BY SMT, <1>1, <1>4, <2>2, <3>1 DEF Reported
  <2> QED
    BY SMT, <2>1, <2>2
<1>6. -1000 < Reported(c) - Elapsed(start, end) /\ Reported(c) - Elapsed(start, end) < 1000
  BY SMT, <1>1, <1>3, <1>4, <1>5
<1> QED
  BY SMT, <1>5, <1>6 DEF c
=============================================================================
