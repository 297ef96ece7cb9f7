------------------------------ MODULE NgxHttp -------------------------------
(***************************************************************************)
(* nginx's main request, as far as module_adfront depends on it.  None of  *)
(* this code is under src/: every operator is modelled from how            *)
(* ngx_http_adfront_module.c and ngx_handler_interface.cc use it (they     *)
(* count references on r->main->count, create subrequests with             *)
(* NGX_HTTP_SUBREQUEST_IN_MEMORY | NGX_HTTP_SUBREQUEST_WAITED, write       *)
(* through ngx_http_output_filter and name nginx 1.6's own handlers).      *)
(*                                                                         *)
(* The operators take and return one record, so that a handler that calls  *)
(* several of them is still one step of the specification that uses them:  *)
(*   count      r->main->count                                             *)
(*   live       the request has not been freed                             *)
(*   data       c->data, the request that may write: Main or a subrequest  *)
(*   created    the number of subrequests so far, named 1 .. created       *)
(*   sub        where each of them is: "posted" (to be run), "upstream"    *)
(*              (waiting for a server), "final" (done = 1, but finalized   *)
(*              while another request was active: the finalizer will run   *)
(*              once more) or "done"                                       *)
(*   noup       those that ended with upstream = NULL (no such location)   *)
(*   budget     r->main->subrequests                                       *)
(*   posted     r->main->posted_requests, a FIFO queue                     *)
(*   postponed  the subrequests in r->postponed                            *)
(*   outq       how many response chains wait in r->postponed behind them  *)
(*   sent       how many response chains have reached the write filter     *)
(*   buffered   c->buffered: the client's socket took only a part of it    *)
(*   weh        r->write_event_handler of the main request                 *)
(***************************************************************************)
EXTENDS Integers, Sequences

CONSTANT MaxSubrequests    \* NGX_HTTP_MAX_SUBREQUESTS

ASSUME MaxSubrequestsAssumption == MaxSubrequests \in Nat \ {0}

Main == 0
SubStatus == {"posted", "upstream", "final", "done"}
WriteHandlers == {"run_phases", "empty", "writer", "terminate"}
Writes == {"OK", "AGAIN", "ERROR"}     \* what the write filter can return

NgxRequest ==
    [count : Int, live : BOOLEAN, data : Nat, created : Nat,
     sub : Seq(SubStatus), noup : SUBSET Nat, budget : Int,
     posted : Seq(Nat), postponed : Seq(Nat), outq : Nat,
     sent : Nat, buffered : BOOLEAN, weh : WriteHandlers]

\* The ids in the record name the main request or a created subrequest.
NgxRequestOK(q) ==
    /\ q \in NgxRequest
    /\ Len(q.sub) = q.created
    /\ q.data \in 0..q.created
    /\ q.noup \subseteq 1..q.created
    /\ q.posted \in Seq(0..q.created)
    /\ q.postponed \in Seq(1..q.created)

\* The subrequests that hold a reference to the main request.
Outstanding(q) == {i \in 1..q.created : q.sub[i] # "done"}

\* A request whose header has been read: its phases are about to be run.
NewRequest ==
    [count |-> 1, live |-> TRUE, data |-> Main, created |-> 0, sub |-> <<>>,
     noup |-> {}, budget |-> MaxSubrequests + 1, posted |-> <<Main>>,
     postponed |-> <<>>, outq |-> 0, sent |-> 0, buffered |-> FALSE,
     weh |-> "run_phases"]

(***************************************************************************)
(* The queue of posted requests, drained before the next event is taken.   *)
(***************************************************************************)
Queued(q, r) == \E k \in 1..Len(q.posted) : q.posted[k] = r

NextPosted(q, r) == q.live /\ q.posted # <<>> /\ Head(q.posted) = r

PopPosted(q) == [q EXCEPT !.posted = Tail(@)]

\* The event loop is between two events of this connection.
EventLoop(q) == q.live /\ q.posted = <<>>

(***************************************************************************)
(* ngx_http_subrequest, k times in a row.  The first one becomes active    *)
(* when the main request was active with nothing postponed.                *)
(***************************************************************************)
ngx_http_subrequest(q, k) ==
    LET new == [j \in 1..k |-> q.created + j]
    IN  [q EXCEPT
           !.created = @ + k,
           !.sub = [i \in 1..(q.created + k) |->
                      IF i <= q.created THEN q.sub[i] ELSE "posted"],
           !.budget = @ - k,
           !.count = @ + k,
           !.data = IF k > 0 /\ @ = Main /\ q.postponed = <<>>
                    THEN q.created + 1 ELSE @,
           !.posted = @ \o new,
           !.postponed = @ \o new]

(***************************************************************************)
(* ngx_http_finalize_connection and ngx_http_close_request: drop one       *)
(* reference; the last one frees the request (or keeps the connection      *)
(* alive for the next one, which is the same to this request).             *)
(***************************************************************************)
ngx_http_close_request(q) ==
    [q EXCEPT !.count = @ - 1, !.live = (q.count # 1)]

\* ngx_http_terminate_request: forget what was posted, free at the next run.
ngx_http_terminate_request(q) ==
    [q EXCEPT !.posted = <<Main>>, !.weh = "terminate"]

\* ngx_http_terminate_handler
ngx_http_terminate_handler(q) ==
    [q EXCEPT !.posted = <<>>, !.count = 0, !.live = FALSE]

Postponed(q) == q.postponed # <<>> \/ q.outq > 0

\* ngx_http_finalize_request(r, rc) on the main request.
ngx_http_finalize_request(q, rc) ==
    CASE rc = "DONE"  -> ngx_http_close_request(q)
      [] rc = "ERROR" -> ngx_http_terminate_request(q)
      [] rc \in {"OK", "AGAIN"} ->
           IF q.buffered \/ Postponed(q) THEN [q EXCEPT !.weh = "writer"]
           ELSE IF q.data # Main THEN q
           ELSE ngx_http_close_request([q EXCEPT !.weh = "empty"])

\* ngx_http_finalize_request(sr, rc) on a subrequest: its parent is posted,
\* and the active one leaves its place in front of the response.
ngx_http_finalize_subrequest(q, i) ==
    IF q.data = i
    THEN [q EXCEPT !.posted = Append(@, Main),
                   !.count = @ - 1,
                   !.budget = @ + 1,
                   !.sub[i] = "done",
                   !.data = Main,
                   !.postponed = IF @ # <<>> /\ Head(@) = i
                                 THEN Tail(@) ELSE @]
    ELSE [q EXCEPT !.posted = Append(@, Main),
                   !.sub[i] = "final"]

(***************************************************************************)
(* ngx_http_output_filter on the main request: the postpone filter, then   *)
(* the write filter.  in says whether the response chain is passed (TRUE)  *)
(* or NULL (FALSE).  A subrequest that waits in front of the response is   *)
(* made active and posted, and the response stays behind it.  w is what    *)
(* the write filter reports, one of OutputResults(q, in).                  *)
(***************************************************************************)
Writable(q) == q.data = Main /\ q.postponed = <<>>

OutputResults(q, in) ==
    IF Writable(q) /\ (in \/ q.outq > 0 \/ q.buffered) THEN Writes ELSE {"OK"}

ngx_http_output_filter(q, in, w) ==
    LET p == [q EXCEPT !.outq = IF in THEN @ + 1 ELSE @]
    IN  IF q.data # Main THEN p
        ELSE IF q.postponed # <<>>
             THEN [p EXCEPT !.data = Head(q.postponed),
                            !.postponed = Tail(@),
                            !.posted = Append(@, Head(q.postponed))]
             ELSE [p EXCEPT !.sent = @ + p.outq,
                            !.outq = 0,
                            !.buffered = (w = "AGAIN")]

\* ngx_http_writer: push what is left to the client, finish when it is out.
ngx_http_writer(q, w) ==
    LET p == ngx_http_output_filter(q, FALSE, w)
    IN  IF w = "ERROR" THEN ngx_http_terminate_request(p)
        ELSE IF p.buffered \/ Postponed(p) THEN p
        ELSE ngx_http_finalize_request([p EXCEPT !.weh = "empty"], "OK")

\* ngx_http_read_client_request_body keeps the request until the body is in.
ngx_http_read_client_request_body(q) == [q EXCEPT !.count = @ + 1]
=============================================================================
