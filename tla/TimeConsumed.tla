---------------------------- MODULE TimeConsumed ----------------------------
(***************************************************************************)
(* The time that ngx_http_adfront_handler reports for a request            *)
(* (src/ngx_http_adfront_module.c), from gettimeofday when the request     *)
(* gets its context to gettimeofday when its response is made: a pure      *)
(* function, about which ResponseTheorems has one theorem.  The clock may  *)
(* be set between the two readings, forward or back.                       *)
(***************************************************************************)
EXTENDS Integers

Microseconds == {u \in Nat : u < 1000000}

Time == [sec : Int, usec : Microseconds]

\* The division of C drops the fraction, also of a negative number.
Quotient(a, b) == IF a >= 0 THEN a \div b ELSE -((-a) \div b)

Consumed(start, end) ==
    LET ts == end.sec - start.sec
        tms == Quotient(end.usec - start.usec, 1000)
    IN  IF tms < 0 THEN [ts |-> ts - 1, tms |-> tms + 1000]
        ELSE [ts |-> ts, tms |-> tms]

\* What has passed and what is reported, in microseconds.
Elapsed(start, end) == (end.sec - start.sec) * 1000000 + (end.usec - start.usec)
Reported(c) == c.ts * 1000000 + c.tms * 1000
=============================================================================
