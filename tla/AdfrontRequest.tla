--------------------------- MODULE AdfrontRequest ---------------------------
(***************************************************************************)
(* One HTTP request served by module_adfront: the state machine of         *)
(* ngx_http_adfront_handler (src/ngx_http_adfront_module.c) and the calls  *)
(* it makes (src/ngx_handler_interface.cc), run by one nginx worker.       *)
(*                                                                         *)
(* A worker runs one handler to completion, then whatever was posted, then *)
(* takes the next event.  One step is one such run, from the phase engine  *)
(* calling the content handler to ngx_http_finalize_request with what it   *)
(* returned; the steps of a request interleave with the steps of its       *)
(* subrequests, of the servers behind them and of the client.              *)
(*                                                                         *)
(* Operators named after a C function take the nginx request q and the     *)
(* module context c as they are when the function is called.  Those that   *)
(* end the handler's run are formulas on the primed variables.             *)
(*                                                                         *)
(* A plugin is any code that keeps the contract of plugin.h: it answers,   *)
(* fails, or asks for subrequests (as many as Rounds allows, not 0).       *)
(***************************************************************************)
EXTENDS NgxHttp, FiniteSets

CONSTANTS
    Methods,    \* the methods a client may use
    BodyReads,  \* how a POST body arrives: "whole" or in "parts"
    Rounds,     \* how many subrequests a plugin may ask for at once
    Faults,     \* what may go wrong in the environment
    MaxSub      \* bound on the subrequests of one request

AllFaults ==
    {"alloc",       \* the request's pool cannot grow
     "context",     \* the uri has no '/', or the body cannot be copied
     "plugin",      \* no plugin has the name the uri ends with
     "location",    \* a subrequest's location has no upstream
     "result",      \* the result is empty, or its header cannot be sent
     "body",        \* the body is malformed, too large or late
     "client"}      \* the client closes, or its connection fails

ASSUME MethodsAssumption == Methods \subseteq {"GET", "HEAD", "POST", "OTHER"}
ASSUME BodyReadsAssumption == BodyReads \subseteq {"whole", "parts"}
ASSUME RoundsAssumption == Rounds \subseteq Nat \ {0}
ASSUME FaultsAssumption == Faults \subseteq AllFaults
ASSUME MaxSubAssumption == MaxSub \in Nat

VARIABLES
    ngx,       \* nginx's request, see NgxHttp
    ctx,       \* ngx_http_adfront_ctx_t and the history of its PluginContext
    client     \* the request's method, and how far its body has been read

vars == <<ngx, ctx, client>>

(***************************************************************************)
(* ngx_http_adfront_ctx_t.  state is "NONE" before the first run; PROCESS, *)
(* POST_SUBREQUEST and FINAL never outlive a run.  subrequests are the ids *)
(* of the current round.  plugin_ctx says that the pointer is not NULL.    *)
(* The rest is history: contexts allocated and deleted, calls made to the  *)
(* plugin and its last return value, and whether anything has failed.      *)
(***************************************************************************)
States == {"NONE", "INIT", "WAIT", "DONE", "ERROR"}
PluginReturns == {"NONE", "OK", "ERROR", "AGAIN"}

Context ==
    [state : States, subrequests : Seq(Nat), plugin_ctx : BOOLEAN,
     news : Nat, deletes : Nat, calls : Nat, rc : PluginReturns,
     fault : BOOLEAN]

NewContext ==
    [state |-> "NONE", subrequests |-> <<>>, plugin_ctx |-> FALSE,
     news |-> 0, deletes |-> 0, calls |-> 0, rc |-> "NONE", fault |-> FALSE]

Client == [method : Methods, body : {"none", "reading", "read"}]

Init ==
    /\ ngx = NewRequest
    /\ ctx = NewContext
    /\ client \in [method : Methods, body : {"none"}]

(***************************************************************************)
(* How a run of the handler ends.                                          *)
(***************************************************************************)
\* Definitions with a second name after an underscore are wrong versions of
\* the one that follows them: what a slip in the code would make of it.
HoldRequest_Forgotten(q) == q
HoldRequest_Polling(q) ==
    [q EXCEPT !.count = @ + 1, !.posted = Append(@, Main), !.weh = "run_phases"]

\* r->main->count++ before NGX_DONE, which drops one reference.
HoldRequest(q) == [q EXCEPT !.count = @ + 1]

\* ngx_http_finalize_request(r, r->content_handler(r))
Return(q, c, rc) ==
    /\ ngx' = ngx_http_finalize_request(q, rc)
    /\ ctx' = c

Failed(c) == [c EXCEPT !.fault = TRUE]

plugin_destroy_ctx_Kept(c) ==
    IF c.plugin_ctx THEN [c EXCEPT !.deletes = @ + 1] ELSE c

plugin_destroy_ctx(c) ==
    IF c.plugin_ctx THEN [c EXCEPT !.plugin_ctx = FALSE, !.deletes = @ + 1]
    ELSE c

\* ADFRONT_STATE_ERROR
plugin_destroy_request(q, c) ==
    Return(q, plugin_destroy_ctx([c EXCEPT !.state = "ERROR"]), "ERROR")

\* What a write to the client may report under the faults considered.
WriteResults(q, in) ==
    {w \in OutputResults(q, in) : w = "ERROR" => "client" \in Faults}

Write(q, c, in) ==
    \E w \in WriteResults(q, in) :
        Return(ngx_http_output_filter(q, in, w),
               IF w = "ERROR" THEN Failed(c) ELSE c, w)

plugin_done_request_Resent(q, c) == Write(q, c, TRUE)

\* ADFRONT_STATE_DONE: flush what the postpone filter still holds.
plugin_done_request(q, c) == Write(q, c, FALSE)

\* ADFRONT_STATE_FINAL.  A request for the header only is taken for a failure.
plugin_final_request(q, c) ==
    LET d == plugin_destroy_ctx([c EXCEPT !.state = "DONE"])
    IN  \/ /\ {"result", "alloc"} \cap Faults # {}
           /\ Return(q, Failed(d), "ERROR")
        \/ /\ client.method = "HEAD"
           /\ Return([q EXCEPT !.sent = @ + 1], d, "ERROR")
        \/ /\ client.method # "HEAD"
           /\ Write(q, d, TRUE)

(***************************************************************************)
(* Subrequests.                                                            *)
(***************************************************************************)
Started_OneMore(c, q, k) ==
    [c EXCEPT !.state = "WAIT",
              !.subrequests = [j \in 1..(k + 1) |-> q.created + j]]

\* plugin_start_subrequest made k subrequests, the current round.
Started(c, q, k) ==
    [c EXCEPT !.state = "WAIT",
              !.subrequests = [j \in 1..k |-> q.created + j]]

\* Either all are created and the handler waits, or after k the pool or the
\* budget of nginx is exhausted; those k have been posted nevertheless.
plugin_start_subrequest(q, c) ==
    \E n \in Rounds :
        /\ q.created + n <= MaxSub
        /\ \/ /\ n < q.budget
              /\ Return(HoldRequest(ngx_http_subrequest(q, n)),
                        Started(c, q, n), "DONE")
           \/ \E k \in 0..(n - 1) :
                /\ k < q.budget
                /\ k + 1 = q.budget \/ "alloc" \in Faults
                /\ plugin_destroy_request(ngx_http_subrequest(q, k),
                                          Failed(Started(c, q, k)))

SubDone(q, i) == q.sub[i] \in {"final", "done"}

AllDone_First(q, ids) == SubDone(q, ids[1])

\* Every subrequest of the round has r->done set.
AllDone(q, ids) == \A j \in DOMAIN ids : SubDone(q, ids[j])

\* Some subrequest of the round has r->upstream = NULL.
SomeNoUpstream(q, ids) == \E j \in DOMAIN ids : ids[j] \in q.noup

(***************************************************************************)
(* The plugin runs and returns.  PLUGIN_ERROR goes the way of PLUGIN_OK.   *)
(***************************************************************************)
CallPlugin(q, c) ==
    LET Returned(rc) == [c EXCEPT !.calls = @ + 1, !.rc = rc]
    IN  \/ \E rc \in {"OK", "ERROR"} : plugin_final_request(q, Returned(rc))
        \/ plugin_start_subrequest(q, Returned("AGAIN"))

\* No plugin may have the name that the uri ends with: PLUGIN_NOT_FOUND.
Handle(q, c) ==
    \/ /\ "plugin" \in Faults
       /\ plugin_destroy_request(q, Failed(c))
    \/ CallPlugin(q, c)

\* The name is looked up again in the same maps, so that it is found if it was.
PostSubHandle(q, c) == CallPlugin(q, c)

\* plugin_create_ctx allocates a context ...
Allocated(c) == [c EXCEPT !.news = @ + 1]

\* ... and stores it only when the headers and the body are in it.
plugin_create_ctx(c) == [Allocated(c) EXCEPT !.plugin_ctx = TRUE]

\* ADFRONT_STATE_PROCESS
plugin_process_request(q, c) ==
    \/ /\ "context" \in Faults
       /\ plugin_destroy_request(q, Failed(Allocated(c)))
    \/ Handle(q, plugin_create_ctx(c))

\* ADFRONT_STATE_WAIT_SUBREQUEST, then ADFRONT_STATE_POST_SUBREQUEST.
plugin_check_subrequest(q, c) ==
    \/ /\ ~AllDone(q, c.subrequests)
       /\ Return(HoldRequest(q), c, "DONE")
    \/ /\ AllDone(q, c.subrequests)
       /\ SomeNoUpstream(q, c.subrequests)
       /\ plugin_destroy_request(q, Failed(c))
    \/ /\ AllDone(q, c.subrequests)
       /\ ~SomeNoUpstream(q, c.subrequests)
       /\ PostSubHandle(q, c)

(***************************************************************************)
(* The POST body.                                                          *)
(***************************************************************************)
plugin_post_body_Ignored(q) == q

\* ngx calls back when the whole body is in.  The state is always INIT then:
\* the branch that would run the handler (state PROCESS) is never taken.
plugin_post_body(q) == ngx_http_finalize_request(q, "DONE")

\* ADFRONT_STATE_INIT
plugin_init_request(q, c) ==
    \/ /\ client.method \in {"GET", "HEAD"}
       /\ plugin_process_request(q, c)
       /\ UNCHANGED client
    \/ /\ client.method = "OTHER"
       /\ plugin_destroy_request(q, Failed(c))
       /\ UNCHANGED client
    \/ /\ client.method = "POST"
       /\ "body" \in Faults
       /\ plugin_destroy_request(q, Failed(c))
       /\ UNCHANGED client
    \/ /\ client.method = "POST"
       /\ "whole" \in BodyReads
       /\ plugin_process_request(
              plugin_post_body(ngx_http_read_client_request_body(q)), c)
       /\ client' = [client EXCEPT !.body = "read"]
    \/ /\ client.method = "POST"
       /\ "parts" \in BodyReads
       /\ Return(ngx_http_read_client_request_body(q),
                 [c EXCEPT !.state = "INIT"], "DONE")
       /\ client' = [client EXCEPT !.body = "reading"]

(***************************************************************************)
(* The posted requests of the connection are run in order before anything  *)
(* else happens.                                                           *)
(***************************************************************************)
\* The phase engine disarms the main request before it calls the handler.
ngx_http_adfront_handler ==
    /\ NextPosted(ngx, Main)
    /\ ngx.weh = "run_phases"
    /\ LET q == [PopPosted(ngx) EXCEPT !.weh = "empty"]
       IN  \/ /\ ctx.state = "NONE"
              /\ "alloc" \in Faults
              /\ Return(q, Failed(ctx), "ERROR")
              /\ UNCHANGED client
           \/ /\ ctx.state = "NONE"
              /\ plugin_init_request(q, ctx)
           \/ /\ ctx.state = "WAIT"
              /\ plugin_check_subrequest(q, ctx)
              /\ UNCHANGED client
           \/ /\ ctx.state = "DONE"
              /\ plugin_done_request(q, ctx)
              /\ UNCHANGED client

\* The main request is posted, but another handler is to run.
RunMain ==
    /\ NextPosted(ngx, Main)
    /\ LET q == PopPosted(ngx)
       IN  \/ /\ ngx.weh = "writer"
              /\ \E w \in WriteResults(q, FALSE) :
                   /\ ngx' = ngx_http_writer(q, w)
                   /\ ctx' = IF w = "ERROR" THEN Failed(ctx) ELSE ctx
           \/ /\ ngx.weh = "empty"
              /\ ngx' = q
              /\ UNCHANGED ctx
           \/ /\ ngx.weh = "terminate"
              /\ ngx' = ngx_http_terminate_handler(q)
              /\ UNCHANGED ctx
    /\ UNCHANGED client

plugin_subrequest_post_handler_Idle(q) == q

\* The parent is to run its phases again when it is next posted.
plugin_subrequest_post_handler(q) == [q EXCEPT !.weh = "run_phases"]

SubrequestFinished(q, i) ==
    ngx_http_finalize_subrequest(plugin_subrequest_post_handler(q), i)

\* A subrequest is run for the first time, or by the finalizer.
RunSubrequest(i) ==
    /\ NextPosted(ngx, i)
    /\ LET q == PopPosted(ngx)
       IN  \/ /\ ngx.sub[i] = "posted"
              /\ ngx' = [q EXCEPT !.sub[i] = "upstream"]
              /\ UNCHANGED ctx
           \/ /\ ngx.sub[i] \in {"posted", "final"}
              /\ ngx' = SubrequestFinished(q, i)
              /\ UNCHANGED ctx
           \/ /\ ngx.sub[i] = "posted"
              /\ "location" \in Faults
              /\ ngx' = SubrequestFinished([q EXCEPT !.noup = @ \cup {i}], i)
              /\ UNCHANGED ctx
    /\ UNCHANGED client

RunPosted ==
    \/ ngx_http_adfront_handler
    \/ RunMain
    \/ \E i \in 1..ngx.created : RunSubrequest(i)

(***************************************************************************)
(* Events.                                                                 *)
(***************************************************************************)
\* The server behind a subrequest has answered, failed or timed out.
UpstreamDone(i) ==
    /\ EventLoop(ngx)
    /\ i \in 1..ngx.created
    /\ ngx.sub[i] = "upstream"
    /\ ngx' = SubrequestFinished(ngx, i)
    /\ UNCHANGED <<ctx, client>>

\* The client's socket takes the rest of the response, or fails.
ClientWritable ==
    /\ EventLoop(ngx)
    /\ ngx.weh = "writer"
    /\ \E w \in WriteResults(ngx, FALSE) \ {"AGAIN"} :
         /\ ngx' = ngx_http_writer(ngx, w)
         /\ ctx' = IF w = "ERROR" THEN Failed(ctx) ELSE ctx
    /\ UNCHANGED client

\* A closed connection is noticed by the subrequest that is active while it
\* talks to its server, and while the response is being written.
ClientGone ==
    /\ "client" \in Faults
    /\ EventLoop(ngx)
    /\ \/ ngx.data # Main /\ ngx.sub[ngx.data] = "upstream"
       \/ ngx.weh = "writer"
    /\ ngx' = ngx_http_terminate_request(ngx)
    /\ ctx' = Failed(ctx)
    /\ UNCHANGED client

\* The last part of the body has come in, or it never will.
BodyEvent ==
    /\ EventLoop(ngx)
    /\ client.body = "reading"
    /\ \/ /\ ngx' = plugin_post_body(ngx)
          /\ client' = [client EXCEPT !.body = "read"]
          /\ UNCHANGED ctx
       \/ /\ "body" \in Faults
          /\ Return(ngx, Failed(ctx), "ERROR")
          /\ client' = [client EXCEPT !.body = "none"]

\* The request has been freed.
Freed == ~ngx.live /\ UNCHANGED vars

Next ==
    \/ RunPosted
    \/ \E i \in 1..ngx.created : UpstreamDone(i)
    \/ ClientWritable
    \/ ClientGone
    \/ BodyEvent
    \/ Freed

Safety == Init /\ [][Next]_vars

(***************************************************************************)
(* Fairness: the event loop runs what is posted; connecting to, writing to *)
(* and reading from a server, reading the body and writing the response    *)
(* all have timers (adserver_connect_timeout ..., client_body_timeout,     *)
(* send_timeout), so that each ends one way or another.                    *)
(***************************************************************************)
Fairness ==
    /\ WF_vars(RunPosted)
    /\ \A i \in 1..MaxSub : WF_vars(UpstreamDone(i))
    /\ WF_vars(ClientWritable)
    /\ WF_vars(BodyEvent)

Spec == Safety /\ Fairness

-----------------------------------------------------------------------------
(***************************************************************************)
(* Properties.                                                             *)
(***************************************************************************)
\* Ids name created subrequests, and the state that a run leaves behind is
\* one of those the handler may be called in again.
TypeOK ==
    /\ NgxRequestOK(ngx)
    /\ ngx.created <= MaxSub
    /\ ctx \in Context
    /\ ctx.subrequests \in Seq(1..ngx.created)
    /\ client \in Client

\* r->main->count++ before each NGX_DONE, and plugin_post_body's finalizing
\* with NGX_DONE, balance: the request is held once for itself and once for
\* each subrequest that is not finalized, and the budget agrees.
CountBalance ==
    ngx.live =>
        /\ ngx.count = 1 + Cardinality(Outstanding(ngx))
        /\ ngx.budget = MaxSubrequests + 1 - Cardinality(Outstanding(ngx))

\* Between two events a request that lives waits for something that will
\* come: its body, a server, or the client's socket while it has the right to
\* write.  In particular no run of the handler that NGX_DONE put off is lost.
NeverStuck ==
    EventLoop(ngx) =>
        \/ client.body = "reading"
        \/ \E i \in 1..ngx.created : ngx.sub[i] = "upstream"
        \/ ngx.weh = "writer" /\ ngx.buffered /\ Writable(ngx)

\* "create context for each http request exactly once", "destroy request
\* context exactly once": a context is not deleted twice, and the one the
\* plugin was called with is there when the handler is run again for it.
ContextOnce ==
    /\ ctx.deletes <= ctx.news
    /\ ctx.news <= 1
    /\ ctx.plugin_ctx => ctx.news = 1 /\ ctx.deletes = 0
    /\ ctx.state = "WAIT" => ctx.plugin_ctx
    /\ ctx.state = "DONE" => ~ctx.plugin_ctx /\ ctx.deletes = 1

\* The response is written once, and only when every subrequest of every
\* round is done.
AnsweredAfterAll ==
    [][ngx'.sent # ngx.sent =>
         /\ ngx.sent = 0
         /\ ngx'.sent = 1
         /\ \A i \in 1..ngx'.created : SubDone(ngx', i)]_vars

\* A request that a plugin was called for, and during which nothing failed, is
\* freed with its response written, its subrequests finalized and its context
\* deleted, however slowly its client reads.  (But for HEAD: HeaderOnlyServed.)
FreedComplete ==
    ~ngx.live /\ ~ctx.fault /\ ctx.calls > 0 /\ client.method # "HEAD" =>
        /\ ngx.sent = 1
        /\ ~ngx.buffered
        /\ Outstanding(ngx) = {}
        /\ ctx.news = 1 /\ ctx.deletes = 1

\* Every request is freed in the end, whatever fails.
Termination == <>(~ngx.live)

(***************************************************************************)
(* What is left to be done for the request: subrequests that may still be  *)
(* asked for, those not taken from r->postponed, those without an answer,  *)
(* the runs that are posted, one that the write handler has still to make, *)
(* and the reading of the body.  Each weighs more than what it can bring.  *)
(***************************************************************************)
Busy(q) == {i \in 1..q.created : q.sub[i] \in {"posted", "upstream"}}

QueuedSubs(q) == {k \in 1..Len(q.posted) : q.posted[k] # Main}

Due(weh) == IF weh = "run_phases" THEN 2 ELSE IF weh = "writer" THEN 1 ELSE 0

Work(q) ==
    13 * (MaxSub - q.created) + 5 * Len(q.postponed) + 4 * Cardinality(Busy(q))
      + 3 * Cardinality(QueuedSubs(q)) + Len(q.posted) + Due(q.weh)

Rank(q) ==
    IF ~q.live THEN 0 ELSE IF q.weh = "terminate" THEN 1 ELSE 2 + Work(q)

Left == Rank(ngx) + (IF ngx.live /\ client.body = "reading" THEN 1 ELSE 0)

\* Whatever happens, in whatever order, brings the end of the request nearer:
\* handlers, post handlers and writers cannot post each other for ever, and
\* no event is answered by waiting for the same one again, however long the
\* rounds are.  With NeverStuck this is why every request ends.
EveryStepCounts == [][Left' \in 0..(Left - 1)]_vars

\* The plugin is called in the order that plugin.h promises.
Stage ==
    IF ~ngx.live \/ ngx.weh = "terminate" THEN "over"
    ELSE IF ctx.state \in {"NONE", "INIT"} THEN "fresh"
    ELSE IF ctx.state = "WAIT" THEN "asked" ELSE "over"

Waiting ==
    IF Stage = "asked"
    THEN {i \in 1..ngx.created : /\ \E j \in DOMAIN ctx.subrequests :
                                      ctx.subrequests[j] = i
                                 /\ ~SubDone(ngx, i)}
    ELSE {}

Plugin == INSTANCE PluginProtocol
              WITH stage <- Stage, waiting <- Waiting, calls <- ctx.calls

PluginCalledInOrder == Plugin!Spec

(***************************************************************************)
(* What comments in the source say and the code does not do.               *)
(***************************************************************************)
\* ngx_handler_interface.cc:458 "read request body in multiple times": a POST
\* request whose body came in parts is served like any other.
PartsServed ==
    ~ngx.live /\ client.body = "read" /\ ~ctx.fault => ngx.sent = 1

\* ngx_http_adfront_module.c:245 "destroy request context exactly once": the
\* context of a request does not outlive it.
ContextDeleted == ~ngx.live => ctx.deletes = ctx.news

\* ngx_handler_interface.cc:247 "NGX_ERROR  plugin finalize request fail": a
\* request for the header only is not ended as a failure.
HeaderOnlyServed ==
    client.method = "HEAD" /\ ngx.weh = "terminate" => ctx.fault

\* ngx_handler_interface.cc:120 "NGX_ERROR  plugin process reuquest fail":
\* when the plugin returned PLUGIN_ERROR its result is not sent as a response.
PluginErrorRefused == ctx.rc = "ERROR" => ngx.sent = 0
=============================================================================
