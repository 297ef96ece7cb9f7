--------------------------- MODULE AdfrontTheorems --------------------------
(***************************************************************************)
(* Theorems about AdfrontRequest, for every set of faults and whatever the *)
(* plugin asks for.  The first invariant, IInv, is about what is held: the *)
(* type, the request's reference count and the plugin's context.  The      *)
(* second, XInv, is about what is due: the response, and who is to run the *)
(* request next.  With it every step is shown to leave less to be done.    *)
(***************************************************************************)
EXTENDS AdfrontRequest, NgxHttpTheorems

(***************************************************************************)
(* The first invariant.  Good is kept by every function of the module      *)
(* that ends a run, whatever the state of the request it is called in;     *)
(* Owned says that the context is alive and known to the handler.          *)
(***************************************************************************)
Good(q, c) ==
    /\ Sound(q)
    /\ q.created <= MaxSub
    /\ c \in Context
    /\ c.subrequests \in Seq(1..q.created)

Owned(c) == c.plugin_ctx /\ c.news = 1 /\ c.deletes = 0

NoContext(c) == ~c.plugin_ctx /\ c.news = 0 /\ c.deletes = 0

\* The life of the context, by the state the last run has left behind.
ContextInv(c) ==
    /\ c.deletes <= c.news /\ c.news <= 1
    /\ c.plugin_ctx => Owned(c)
    /\ c.state \in {"NONE", "INIT"} => NoContext(c)
    /\ c.state = "WAIT" => Owned(c)
    /\ c.state = "DONE" => ~c.plugin_ctx /\ c.deletes = 1

\* Nothing has been started before the plugin is called.
Unstarted ==
    /\ ctx.state = "NONE" => ngx.created = 0
    /\ client.body = "reading" => ctx.state = "INIT" /\ ngx.created = 0

IInv ==
    /\ Good(ngx, ctx)
    /\ client \in Client
    /\ ContextInv(ctx)
    /\ Unstarted

-----------------------------------------------------------------------------
(* The fields of the module's context. *)
LEMMA ContextFields ==
    ASSUME NEW c \in Context
    PROVE  /\ c.state \in States /\ c.subrequests \in Seq(Nat)
           /\ c.plugin_ctx \in BOOLEAN /\ c.news \in Nat /\ c.deletes \in Nat
           /\ c.calls \in Nat /\ c.rc \in PluginReturns /\ c.fault \in BOOLEAN
  BY DEF Context

LEMMA Failed_Good ==
    ASSUME NEW q, NEW c, Good(q, c)
    PROVE  /\ Good(q, Failed(c))
           /\ Failed(c).state = c.state /\ Failed(c).plugin_ctx = c.plugin_ctx
           /\ Failed(c).news = c.news /\ Failed(c).deletes = c.deletes
  <1>1. c \in Context
    BY DEF Good
  <1>2. Failed(c) \in Context /\ Failed(c).subrequests = c.subrequests
    BY <1>1 DEF Failed, Context
  <1>3. /\ Failed(c).state = c.state /\ Failed(c).plugin_ctx = c.plugin_ctx
        /\ Failed(c).news = c.news /\ Failed(c).deletes = c.deletes
    BY <1>1 DEF Failed, Context
  <1> QED BY <1>2, <1>3 DEF Good

LEMMA SetState_Good ==
    ASSUME NEW q, NEW c, Good(q, c), NEW s \in States
    PROVE  LET d == [c EXCEPT !.state = s]
           IN  /\ Good(q, d)
               /\ d.state = s /\ d.plugin_ctx = c.plugin_ctx
               /\ d.news = c.news /\ d.deletes = c.deletes
  <1> DEFINE d == [c EXCEPT !.state = s]
  <1>1. c \in Context
    BY DEF Good
  <1>2. /\ d \in Context /\ d.subrequests = c.subrequests
        /\ d.state = s /\ d.plugin_ctx = c.plugin_ctx
        /\ d.news = c.news /\ d.deletes = c.deletes
    BY <1>1 DEF Context
  <1> HIDE DEF d
  <1>3. Good(q, d)
    BY <1>2 DEF Good
  <1> QED BY <1>2, <1>3 DEF d

(* plugin_destroy_ctx deletes what is there and forgets it. *)
LEMMA DestroyCtx_Good ==
    ASSUME NEW q, NEW c, Good(q, c)
    PROVE  LET d == plugin_destroy_ctx(c)
           IN  /\ Good(q, d)
               /\ d.state = c.state /\ ~d.plugin_ctx /\ d.news = c.news
               /\ c.plugin_ctx => d.deletes = c.deletes + 1
               /\ ~c.plugin_ctx => d.deletes = c.deletes
  <1> DEFINE d == plugin_destroy_ctx(c)
  <1>1. c \in Context
    BY DEF Good
  <1>2. /\ d \in Context /\ d.subrequests = c.subrequests
        /\ d.state = c.state /\ ~d.plugin_ctx /\ d.news = c.news
        /\ c.plugin_ctx => d.deletes = c.deletes + 1
        /\ ~c.plugin_ctx => d.deletes = c.deletes
    <2>1. CASE c.plugin_ctx
      <3> DEFINE m == c.deletes + 1
      <3>1. m \in Nat
        BY <1>1, ContextFields
      <3>2. d = [c EXCEPT !.plugin_ctx = FALSE, !.deletes = m]
        BY <1>1, <2>1 DEF plugin_destroy_ctx
      <3>3. m = c.deletes + 1
        OBVIOUS
      <3> HIDE DEF d, m
      <3> QED BY <1>1, <2>1, <3>1, <3>2, <3>3 DEF Context
    <2>2. CASE ~c.plugin_ctx
      BY <1>1, <2>2 DEF plugin_destroy_ctx
    <2> QED BY <1>1, <2>1, <2>2, ContextFields
  <1> HIDE DEF d
  <1>3. Good(q, d)
    BY <1>2 DEF Good
  <1> QED BY <1>2, <1>3 DEF d

-----------------------------------------------------------------------------
(* The ends of a run. *)
LEMMA Return_Good ==
    ASSUME NEW q, NEW c, Good(q, c), q.live, NEW rc \in Writes,
           Return(q, c, rc)
    PROVE  Good(ngx', ctx') /\ ctx' = c /\ ngx'.created = q.created
  <1>1. Sound(q)
    BY DEF Good
  <1>2. ngx' = ngx_http_finalize_request(q, rc) /\ ctx' = c
    BY DEF Return
  <1>3. Sound(ngx') /\ ngx'.created = q.created
    BY <1>1, <1>2, Finalize_Sound
  <1> QED BY <1>2, <1>3 DEF Good

LEMMA HoldReturn_Good ==
    ASSUME NEW q, NEW c, Good(q, c), q.live,
           Return(HoldRequest(q), c, "DONE")
    PROVE  Good(ngx', ctx') /\ ctx' = c /\ ngx'.created = q.created
  <1>1. Sound(q)
    BY DEF Good
  <1>2. /\ ngx' = ngx_http_finalize_request([q EXCEPT !.count = @ + 1], "DONE")
        /\ ctx' = c
    BY DEF Return, HoldRequest
  <1>3. Sound(ngx') /\ ngx'.created = q.created
    BY <1>1, <1>2, HoldDone_Sound
  <1> QED BY <1>2, <1>3 DEF Good

\* A context that is alive is deleted, and one that is not stays away.
LEMMA DestroyRequest_Good ==
    ASSUME NEW q, NEW c, Good(q, c), q.live,
           plugin_destroy_request(q, c)
    PROVE  /\ Good(ngx', ctx') /\ ctx'.state = "ERROR"
           /\ ~ctx'.plugin_ctx /\ ctx'.news = c.news
           /\ c.plugin_ctx => ctx'.deletes = c.deletes + 1
           /\ ~c.plugin_ctx => ctx'.deletes = c.deletes
  <1> DEFINE e == [c EXCEPT !.state = "ERROR"]
             d == plugin_destroy_ctx(e)
  <1>0. "ERROR" \in States
    BY DEF States
  <1>1. /\ Good(q, e) /\ e.state = "ERROR" /\ e.plugin_ctx = c.plugin_ctx
        /\ e.news = c.news /\ e.deletes = c.deletes
    BY <1>0, SetState_Good
  <1>2. Return(q, d, "ERROR")
    BY DEF plugin_destroy_request
  <1> HIDE DEF e
  <1>3. /\ Good(q, d)
        /\ d.state = e.state /\ ~d.plugin_ctx /\ d.news = e.news
        /\ e.plugin_ctx => d.deletes = e.deletes + 1
        /\ ~e.plugin_ctx => d.deletes = e.deletes
    BY <1>1, DestroyCtx_Good
  <1> HIDE DEF d
  <1>4. Good(ngx', ctx') /\ ctx' = d
    BY <1>2, <1>3, Return_Good DEF Writes
  <1> QED BY <1>1, <1>3, <1>4

LEMMA DestroyRequest_Context ==
    ASSUME NEW q, NEW c, Good(q, c), q.live,
           Owned(c) \/ (~c.plugin_ctx /\ c.news <= 1 /\ c.deletes = 0),
           plugin_destroy_request(q, c)
    PROVE  Good(ngx', ctx') /\ ContextInv(ctx') /\ ctx'.state = "ERROR"
  <1>1. /\ Good(ngx', ctx') /\ ctx'.state = "ERROR"
        /\ ~ctx'.plugin_ctx /\ ctx'.news = c.news
        /\ c.plugin_ctx => ctx'.deletes = c.deletes + 1
        /\ ~c.plugin_ctx => ctx'.deletes = c.deletes
    BY DestroyRequest_Good
  <1>2. c.news \in Nat
    BY ContextFields DEF Good
  <1> QED BY <1>1, <1>2 DEF ContextInv, Owned

\* What the client has taken does not matter to the context.
LEMMA Write_Good ==
    ASSUME NEW q, NEW c, Good(q, c), q.live, NEW in \in BOOLEAN,
           Write(q, c, in)
    PROVE  /\ Good(ngx', ctx') /\ ngx'.created = q.created
           /\ ctx'.state = c.state /\ ctx'.plugin_ctx = c.plugin_ctx
           /\ ctx'.news = c.news /\ ctx'.deletes = c.deletes
  <1>1. PICK w \in WriteResults(q, in) :
          Return(ngx_http_output_filter(q, in, w),
                 IF w = "ERROR" THEN Failed(c) ELSE c, w)
    BY DEF Write
  <1>2. w \in Writes
    BY DEF WriteResults, OutputResults, Writes
  <1> DEFINE p == ngx_http_output_filter(q, in, w)
             d == IF w = "ERROR" THEN Failed(c) ELSE c
  <1>3. Sound(p) /\ p.live /\ p.created = q.created
    BY OutputFilter_Sound DEF Good
  <1> HIDE DEF p
  <1>4. /\ Good(p, c)
    BY <1>3 DEF Good
  <1>5. /\ Good(p, d)
        /\ d.state = c.state /\ d.plugin_ctx = c.plugin_ctx
        /\ d.news = c.news /\ d.deletes = c.deletes
    BY <1>4, Failed_Good
  <1>6. Return(p, d, w)
    BY <1>1 DEF p
  <1> HIDE DEF d
  <1>7. Good(ngx', ctx') /\ ctx' = d /\ ngx'.created = p.created
    BY <1>2, <1>3, <1>5, <1>6, Return_Good
  <1> QED BY <1>3, <1>5, <1>7

LEMMA Sent_Good ==
    ASSUME NEW q, NEW c, Good(q, c), q.live
    PROVE  Good([q EXCEPT !.sent = @ + 1], c) /\ [q EXCEPT !.sent = @ + 1].live
  <1> DEFINE n == q.sent + 1
             p == [q EXCEPT !.sent = n]
  <1>1. NgxRequestOK(q) /\ q \in NgxRequest /\ Sound(q)
    BY DEF Good, Sound, NgxRequestOK
  <1>2. n \in Nat
    BY <1>1, Fields
  <1> HIDE DEF n
  <1>3. /\ p \in NgxRequest /\ p.created = q.created /\ p.sub = q.sub
        /\ p.data = q.data /\ p.postponed = q.postponed /\ p.noup = q.noup
        /\ p.posted = q.posted /\ p.live = q.live
        /\ p.count = q.count /\ p.budget = q.budget
    BY <1>1, <1>2 DEF NgxRequest
  <1> HIDE DEF p
  <1>4. Sound(p)
    BY <1>1, <1>3, Fields, Sound_Frame
  <1>5. Good(p, c) /\ p.live
    BY <1>3, <1>4 DEF Good
  <1> QED BY <1>5 DEF p, n

\* The context is deleted before the result is written.
LEMMA FinalRequest_Good ==
    ASSUME NEW q, NEW c, Good(q, c), q.live, Owned(c),
           plugin_final_request(q, c)
    PROVE  Good(ngx', ctx') /\ ContextInv(ctx') /\ ctx'.state = "DONE"
  <1> DEFINE e == [c EXCEPT !.state = "DONE"]
             d == plugin_destroy_ctx(e)
             Gone(x) == /\ x.state = "DONE" /\ ~x.plugin_ctx
                        /\ x.news = 1 /\ x.deletes = 1
  <1>0. "DONE" \in States
    BY DEF States
  <1>1. /\ Good(q, e) /\ e.state = "DONE" /\ e.plugin_ctx = c.plugin_ctx
        /\ e.news = c.news /\ e.deletes = c.deletes
    BY <1>0, SetState_Good
  <1>2. \/ Return(q, Failed(d), "ERROR")
        \/ Return([q EXCEPT !.sent = @ + 1], d, "ERROR")
        \/ Write(q, d, TRUE)
    BY DEF plugin_final_request
  <1> HIDE DEF e
  <1>3. /\ Good(q, d)
        /\ d.state = e.state /\ ~d.plugin_ctx /\ d.news = e.news
        /\ e.plugin_ctx => d.deletes = e.deletes + 1
    BY <1>1, DestroyCtx_Good
  <1> HIDE DEF d
  <1>4. Good(q, d) /\ Gone(d)
    BY <1>1, <1>3 DEF Owned
  <1>5. CASE Return(q, Failed(d), "ERROR")
    <2>1. Good(q, Failed(d)) /\ Gone(Failed(d))
      BY <1>4, Failed_Good
    <2> QED BY <1>5, <2>1, Return_Good DEF Writes, ContextInv, Owned
  <1>6. CASE Return([q EXCEPT !.sent = @ + 1], d, "ERROR")
    <2> DEFINE p == [q EXCEPT !.sent = @ + 1]
    <2>1. Good(p, d) /\ p.live
      BY <1>4, Sent_Good
    <2>2. Return(p, d, "ERROR")
      BY <1>6
    <2> HIDE DEF p
    <2> QED BY <1>4, <2>1, <2>2, Return_Good DEF Writes, ContextInv, Owned
  <1>7. CASE Write(q, d, TRUE)
    <2>1. Good(ngx', ctx') /\ Gone(ctx')
      BY <1>4, <1>7, Write_Good
    <2> QED BY <2>1 DEF ContextInv, Owned
  <1> QED BY <1>2, <1>5, <1>6, <1>7

-----------------------------------------------------------------------------
(* The plugin is called and asks, answers or fails. *)
\* What the first call, and every later one, leaves behind.
Called == Good(ngx', ctx') /\ ContextInv(ctx')
            /\ ctx'.state \in {"WAIT", "DONE", "ERROR"}

\* The k subrequests created become the round that the handler waits for.
LEMMA Started_Good ==
    ASSUME NEW q, NEW c, Good(q, c), q.live, Owned(c), NEW k \in Nat,
           q.created + k <= MaxSub
    PROVE  LET p == ngx_http_subrequest(q, k)
               d == Started(c, q, k)
           IN  Good(p, d) /\ p.live /\ Owned(d) /\ d.state = "WAIT"
  <1> DEFINE p == ngx_http_subrequest(q, k)
             ids == [j \in 1..k |-> q.created + j]
             d == [c EXCEPT !.state = "WAIT", !.subrequests = ids]
  <1>1. Sound(p) /\ p.live /\ p.created = q.created + k
    BY Subrequest_Sound DEF Good
  <1> HIDE DEF p
  <1>2. q.created \in Nat
    BY Fields DEF Good, Sound
  <1>3. ids \in Seq(1..(q.created + k)) /\ ids \in Seq(Nat)
    <2>1. \A j \in 1..k : q.created + j \in 1..(q.created + k)
      BY <1>2
    <2>2. \A j \in 1..k : q.created + j \in Nat
      BY <1>2
    <2>3. \A S : (\A j \in 1..k : q.created + j \in S) => ids \in Seq(S)
      BY IsASeq
    <2> QED BY <2>1, <2>2, <2>3
  <1> HIDE DEF ids
  <1>4. /\ d \in Context /\ d.subrequests = ids /\ d.state = "WAIT"
        /\ d.plugin_ctx = c.plugin_ctx /\ d.news = c.news
        /\ d.deletes = c.deletes
    BY <1>3 DEF Good, Context, States
  <1>5. d = Started(c, q, k)
    BY DEF Started, ids
  <1> HIDE DEF d
  <1>6. Good(p, d)
    BY <1>1, <1>3, <1>4 DEF Good
  <1>7. Owned(d)
    BY <1>4 DEF Owned
  <1> QED BY <1>1, <1>4, <1>5, <1>6, <1>7 DEF p

LEMMA StartSubrequest_Good ==
    ASSUME NEW q, NEW c, Good(q, c), q.live, Owned(c),
           plugin_start_subrequest(q, c)
    PROVE  Called
  <1>0. q.created \in Nat /\ MaxSub \in Nat
    BY Fields, MaxSubAssumption DEF Good, Sound
  <1>1. PICK n \in Rounds :
          /\ q.created + n <= MaxSub
          /\ \/ Return(HoldRequest(ngx_http_subrequest(q, n)),
                       Started(c, q, n), "DONE")
             \/ \E k \in 0..(n - 1) :
                  plugin_destroy_request(ngx_http_subrequest(q, k),
                                         Failed(Started(c, q, k)))
    BY DEF plugin_start_subrequest
  <1>2. n \in Nat
    BY RoundsAssumption
  <1>3. CASE Return(HoldRequest(ngx_http_subrequest(q, n)),
                    Started(c, q, n), "DONE")
    <2> DEFINE p == ngx_http_subrequest(q, n)
               d == Started(c, q, n)
    <2>1. Good(p, d) /\ p.live /\ Owned(d) /\ d.state = "WAIT"
      BY <1>1, <1>2, Started_Good
    <2>2. Return(HoldRequest(p), d, "DONE")
      BY <1>3
    <2> HIDE DEF p, d
    <2>3. Good(ngx', ctx') /\ ctx' = d
      BY <2>1, <2>2, HoldReturn_Good
    <2> QED BY <2>1, <2>3 DEF Called, ContextInv, Owned
  <1>4. ASSUME NEW k \in 0..(n - 1),
               plugin_destroy_request(ngx_http_subrequest(q, k),
                                      Failed(Started(c, q, k)))
        PROVE  Called
    <2> DEFINE p == ngx_http_subrequest(q, k)
               d == Started(c, q, k)
               f == Failed(d)
    <2>1. k \in Nat /\ q.created + k <= MaxSub
      BY <1>0, <1>1, <1>2
    <2>2. Good(p, d) /\ p.live /\ Owned(d)
      BY <2>1, Started_Good
    <2>3. plugin_destroy_request(p, f)
      BY <1>4
    <2> HIDE DEF p, d
    <2>4. /\ Good(p, f) /\ f.plugin_ctx = d.plugin_ctx
          /\ f.news = d.news /\ f.deletes = d.deletes
      BY <2>2, Failed_Good
    <2> HIDE DEF f
    <2>5. Owned(f)
      BY <2>2, <2>4 DEF Owned
    <2> QED BY <2>2, <2>3, <2>4, <2>5, DestroyRequest_Context DEF Called
  <1> QED BY <1>1, <1>3, <1>4

LEMMA CallPlugin_Good ==
    ASSUME NEW q, NEW c, Good(q, c), q.live, Owned(c), CallPlugin(q, c)
    PROVE  Called
  <1> DEFINE Returned(rc) == [c EXCEPT !.calls = @ + 1, !.rc = rc]
  <1>1. \/ \E rc \in {"OK", "ERROR"} : plugin_final_request(q, Returned(rc))
        \/ plugin_start_subrequest(q, Returned("AGAIN"))
    BY DEF CallPlugin
  <1>2. ASSUME NEW rc \in PluginReturns
        PROVE  Good(q, Returned(rc)) /\ Owned(Returned(rc))
    <2> DEFINE n == c.calls + 1
               d == [c EXCEPT !.calls = n, !.rc = rc]
    <2>1. c \in Context /\ n \in Nat
      BY ContextFields DEF Good
    <2>2. d = Returned(rc)
      OBVIOUS
    <2> HIDE DEF n
    <2>3. /\ d \in Context /\ d.subrequests = c.subrequests
          /\ d.plugin_ctx = c.plugin_ctx /\ d.news = c.news
          /\ d.deletes = c.deletes
      BY <2>1 DEF Context
    <2> HIDE DEF d
    <2>4. Good(q, d) /\ Owned(d)
      BY <2>3 DEF Good, Owned
    <2> QED BY <2>2, <2>4
  <1> HIDE DEF Returned
  <1>3. CASE \E rc \in {"OK", "ERROR"} : plugin_final_request(q, Returned(rc))
    <2>1. PICK rc \in {"OK", "ERROR"} : plugin_final_request(q, Returned(rc))
      BY <1>3
    <2>2. Good(q, Returned(rc)) /\ Owned(Returned(rc))
      BY <1>2 DEF PluginReturns
    <2> QED BY <2>1, <2>2, FinalRequest_Good DEF Called
  <1>4. CASE plugin_start_subrequest(q, Returned("AGAIN"))
    <2>1. Good(q, Returned("AGAIN")) /\ Owned(Returned("AGAIN"))
      BY <1>2 DEF PluginReturns
    <2> QED BY <1>4, <2>1, StartSubrequest_Good
  <1> QED BY <1>1, <1>3, <1>4

\* The first call: a context is made, and is deleted again on a failure.
LEMMA ProcessRequest_Good ==
    ASSUME NEW q, NEW c, Good(q, c), q.live, NoContext(c),
           plugin_process_request(q, c)
    PROVE  Called
  <1> DEFINE a == Allocated(c)
             d == plugin_create_ctx(c)
  <1>1. \/ plugin_destroy_request(q, Failed(a))
        \/ plugin_destroy_request(q, Failed(d))
        \/ CallPlugin(q, d)
    BY DEF plugin_process_request, Handle
  <1>2. /\ Good(q, a) /\ ~a.plugin_ctx /\ a.news = 1 /\ a.deletes = 0
    <2>1. /\ a \in Context /\ a.subrequests = c.subrequests
          /\ ~a.plugin_ctx /\ a.news = 1 /\ a.deletes = 0
      BY DEF Good, Context, NoContext, Allocated
    <2> QED BY <2>1 DEF Good
  <1>3. Good(q, d) /\ Owned(d)
    <2>0. d = [a EXCEPT !.plugin_ctx = TRUE]
      BY DEF plugin_create_ctx
    <2> HIDE DEF a, d
    <2>1. /\ d \in Context /\ d.subrequests = a.subrequests
          /\ d.plugin_ctx /\ d.news = 1 /\ d.deletes = 0
      BY <1>2, <2>0 DEF Good, Context
    <2> QED BY <1>2, <2>1 DEF Good, Owned
  <1> HIDE DEF a, d
  <1>4. CASE plugin_destroy_request(q, Failed(a))
    <2>1. /\ Good(q, Failed(a)) /\ ~Failed(a).plugin_ctx
          /\ Failed(a).news <= 1 /\ Failed(a).deletes = 0
      BY <1>2, Failed_Good
    <2> QED BY <1>4, <2>1, DestroyRequest_Context DEF Called
  <1>5. CASE plugin_destroy_request(q, Failed(d))
    <2>1. Good(q, Failed(d)) /\ Owned(Failed(d))
      BY <1>3, Failed_Good DEF Owned
    <2> QED BY <1>5, <2>1, DestroyRequest_Context DEF Called
  <1>6. CASE CallPlugin(q, d)
    BY <1>3, <1>6, CallPlugin_Good
  <1> QED BY <1>1, <1>4, <1>5, <1>6

-----------------------------------------------------------------------------
(* The runs of the handler. *)
LEMMA CheckSubrequest_Good ==
    ASSUME NEW q, NEW c, Good(q, c), q.live, c.state = "WAIT", Owned(c),
           plugin_check_subrequest(q, c)
    PROVE  Called
  <1>1. \/ Return(HoldRequest(q), c, "DONE")
        \/ plugin_destroy_request(q, Failed(c))
        \/ CallPlugin(q, c)
    BY DEF plugin_check_subrequest, PostSubHandle
  <1>2. CASE Return(HoldRequest(q), c, "DONE")
    <2>1. Good(ngx', ctx') /\ ctx' = c
      BY <1>2, HoldReturn_Good
    <2> QED BY <2>1 DEF Called, ContextInv, Owned
  <1>3. CASE plugin_destroy_request(q, Failed(c))
    <2>1. Good(q, Failed(c)) /\ Owned(Failed(c))
      BY Failed_Good DEF Owned
    <2> QED BY <1>3, <2>1, DestroyRequest_Context DEF Called
  <1>4. CASE CallPlugin(q, c)
    BY <1>4, CallPlugin_Good
  <1> QED BY <1>1, <1>2, <1>3, <1>4

\* A body that is there at once takes a reference and gives it back.
LEMMA BodyRead_Good ==
    ASSUME NEW q, NEW c, Good(q, c), q.live
    PROVE  LET p == plugin_post_body(ngx_http_read_client_request_body(q))
           IN  Good(p, c) /\ p.live
  <1> DEFINE p == plugin_post_body(ngx_http_read_client_request_body(q))
  <1>1. p = ngx_http_finalize_request([q EXCEPT !.count = @ + 1], "DONE")
    BY DEF plugin_post_body, ngx_http_read_client_request_body
  <1>2. Sound(p) /\ p.live /\ p.created = q.created
    BY <1>1, HoldDone_Sound DEF Good
  <1> HIDE DEF p
  <1>3. Good(p, c)
    BY <1>2 DEF Good
  <1> QED BY <1>2, <1>3 DEF p

LEMMA InitRequest_Good ==
    ASSUME NEW q, NEW c, Good(q, c), q.live, NoContext(c),
           client \in Client, client.body # "reading", q.created = 0,
           plugin_init_request(q, c)
    PROVE  /\ Good(ngx', ctx') /\ ContextInv(ctx') /\ client' \in Client
           /\ ctx'.state # "NONE"
           /\ client'.body = "reading" => ctx'.state = "INIT"
                                            /\ ngx'.created = 0
  <1> DEFINE b == ngx_http_read_client_request_body(q)
             p == plugin_post_body(b)
             d == [c EXCEPT !.state = "INIT"]
  <1>1. \/ plugin_process_request(q, c) /\ UNCHANGED client
        \/ plugin_destroy_request(q, Failed(c)) /\ UNCHANGED client
        \/ /\ plugin_process_request(p, c)
           /\ client' = [client EXCEPT !.body = "read"]
        \/ /\ Return(b, d, "DONE")
           /\ client' = [client EXCEPT !.body = "reading"]
    BY DEF plugin_init_request
  <1>2. ASSUME Called, client' \in Client, client'.body # "reading"
        PROVE  /\ Good(ngx', ctx') /\ ContextInv(ctx') /\ client' \in Client
               /\ ctx'.state # "NONE"
               /\ client'.body = "reading" => ctx'.state = "INIT"
                                                /\ ngx'.created = 0
    BY <1>2 DEF Called
  <1>3. CASE plugin_process_request(q, c) /\ UNCHANGED client
    BY <1>2, <1>3, ProcessRequest_Good
  <1>4. CASE plugin_destroy_request(q, Failed(c)) /\ UNCHANGED client
    <2>1. /\ Good(q, Failed(c)) /\ ~Failed(c).plugin_ctx
          /\ Failed(c).news <= 1 /\ Failed(c).deletes = 0
      BY Failed_Good DEF NoContext
    <2>2. Called
      BY <1>4, <2>1, DestroyRequest_Context DEF Called
    <2> QED BY <1>2, <1>4, <2>2
  <1>5. CASE /\ plugin_process_request(p, c)
             /\ client' = [client EXCEPT !.body = "read"]
    <2>1. Good(p, c) /\ p.live
      BY BodyRead_Good
    <2>2. client' \in Client /\ client'.body = "read"
      BY <1>5 DEF Client
    <2> HIDE DEF p
    <2>3. Called
      BY <1>5, <2>1, ProcessRequest_Good
    <2> QED BY <1>2, <2>2, <2>3
  <1>6. CASE /\ Return(b, d, "DONE")
             /\ client' = [client EXCEPT !.body = "reading"]
    <2>0. "INIT" \in States
      BY DEF States
    <2>1. /\ Good(q, d) /\ d.state = "INIT" /\ d.plugin_ctx = c.plugin_ctx
          /\ d.news = c.news /\ d.deletes = c.deletes
      BY <2>0, SetState_Good
    <2>2. client' \in Client
      BY <1>6 DEF Client
    <2>3. Return(HoldRequest(q), d, "DONE")
      BY <1>6 DEF HoldRequest, ngx_http_read_client_request_body
    <2> HIDE DEF d, b
    <2>4. Good(ngx', ctx') /\ ctx' = d /\ ngx'.created = q.created
      BY <2>1, <2>3, HoldReturn_Good
    <2> QED BY <2>1, <2>2, <2>4 DEF ContextInv, NoContext, Owned
  <1> QED BY <1>1, <1>3, <1>4, <1>5, <1>6

LEMMA Handler_Inv ==
    ASSUME IInv, ngx_http_adfront_handler
    PROVE  IInv'
  <1> DEFINE q == [PopPosted(ngx) EXCEPT !.weh = "empty"]
  <1>1. ngx.live /\ ngx.posted # <<>>
    BY DEF ngx_http_adfront_handler, NextPosted
  <1>2. Good(q, ctx) /\ q.live /\ q.created = ngx.created
    <2>0. Sound(ngx) /\ ngx \in NgxRequest
      BY DEF IInv, Good, Sound, NgxRequestOK
    <2>1. Sound(PopPosted(ngx))
      BY <1>1, <2>0, PopPosted_Sound
    <2>2. Sound(q)
      BY <2>1, SetWeh_Sound DEF WriteHandlers
    <2>3. q.live = ngx.live /\ q.created = ngx.created
      BY <2>0 DEF PopPosted, NgxRequest
    <2> HIDE DEF q
    <2> QED BY <1>1, <2>2, <2>3 DEF IInv, Good
  <1>3. \/ /\ ctx.state = "NONE"
           /\ Return(q, Failed(ctx), "ERROR") /\ UNCHANGED client
        \/ ctx.state = "NONE" /\ plugin_init_request(q, ctx)
        \/ /\ ctx.state = "WAIT"
           /\ plugin_check_subrequest(q, ctx) /\ UNCHANGED client
        \/ /\ ctx.state = "DONE"
           /\ plugin_done_request(q, ctx) /\ UNCHANGED client
    BY DEF ngx_http_adfront_handler
  <1> HIDE DEF q
  <1>4. CASE /\ ctx.state = "NONE"
             /\ Return(q, Failed(ctx), "ERROR") /\ UNCHANGED client
    <2>1. /\ Good(q, Failed(ctx)) /\ Failed(ctx).state = ctx.state
          /\ Failed(ctx).plugin_ctx = ctx.plugin_ctx
          /\ Failed(ctx).news = ctx.news /\ Failed(ctx).deletes = ctx.deletes
      BY <1>2, Failed_Good
    <2>2. /\ Good(ngx', ctx') /\ ctx' = Failed(ctx)
          /\ ngx'.created = ngx.created
      BY <1>2, <1>4, <2>1, Return_Good DEF Writes
    <2>3. ContextInv(ctx') /\ Unstarted' /\ client' \in Client
      BY <1>4, <2>1, <2>2 DEF IInv, ContextInv, Unstarted, Owned, NoContext
    <2> QED BY <2>2, <2>3 DEF IInv
  <1>5. CASE ctx.state = "NONE" /\ plugin_init_request(q, ctx)
    <2>1. /\ NoContext(ctx) /\ client \in Client /\ q.created = 0
          /\ client.body # "reading"
      BY <1>2, <1>5 DEF IInv, ContextInv, Unstarted
    <2>2. /\ Good(ngx', ctx') /\ ContextInv(ctx') /\ client' \in Client
          /\ ctx'.state # "NONE"
          /\ client'.body = "reading" => ctx'.state = "INIT"
                                           /\ ngx'.created = 0
      BY <1>2, <1>5, <2>1, InitRequest_Good
    <2> QED BY <2>2 DEF IInv, Unstarted
  <1>6. CASE /\ ctx.state = "WAIT"
             /\ plugin_check_subrequest(q, ctx) /\ UNCHANGED client
    <2>1. Owned(ctx) /\ client.body # "reading"
      BY <1>6 DEF IInv, ContextInv, Unstarted
    <2>2. Called
      BY <1>2, <1>6, <2>1, CheckSubrequest_Good
    <2> QED BY <1>6, <2>1, <2>2 DEF Called, IInv, Unstarted
  <1>7. CASE /\ ctx.state = "DONE"
             /\ plugin_done_request(q, ctx) /\ UNCHANGED client
    <2>1. /\ Good(ngx', ctx')
          /\ ctx'.state = ctx.state /\ ctx'.plugin_ctx = ctx.plugin_ctx
          /\ ctx'.news = ctx.news /\ ctx'.deletes = ctx.deletes
      BY <1>2, <1>7, Write_Good DEF plugin_done_request
    <2>2. ContextInv(ctx') /\ Unstarted' /\ client' \in Client
      BY <1>7, <2>1 DEF IInv, ContextInv, Unstarted, Owned
    <2> QED BY <2>1, <2>2 DEF IInv
  <1> QED BY <1>3, <1>4, <1>5, <1>6, <1>7

-----------------------------------------------------------------------------
(* The steps that are not runs of the handler leave its context alone. *)
LEMMA Outside_Inv ==
    ASSUME IInv, Sound(ngx'), ngx'.created = ngx.created,
           ctx' = ctx \/ ctx' = Failed(ctx), UNCHANGED client
    PROVE  IInv'
  <1>1. /\ Good(ngx, ctx')
        /\ ctx'.state = ctx.state /\ ctx'.plugin_ctx = ctx.plugin_ctx
        /\ ctx'.news = ctx.news /\ ctx'.deletes = ctx.deletes
    BY Failed_Good DEF IInv
  <1>2. Good(ngx', ctx')
    BY <1>1 DEF Good
  <1>3. ContextInv(ctx') /\ Unstarted' /\ client' \in Client
    BY <1>1 DEF IInv, ContextInv, Unstarted, Owned, NoContext
  <1> QED BY <1>2, <1>3 DEF IInv

LEMMA RunMain_Inv ==
    ASSUME IInv, RunMain
    PROVE  IInv'
  <1> DEFINE q == PopPosted(ngx)
  <1>1. ngx.live /\ ngx.posted # <<>> /\ UNCHANGED client
    BY DEF RunMain, NextPosted
  <1>2. Sound(q) /\ q.live /\ q.created = ngx.created
    <2>1. Sound(ngx) /\ ngx \in NgxRequest
      BY DEF IInv, Good, Sound, NgxRequestOK
    <2>2. Sound(q)
      BY <1>1, <2>1, PopPosted_Sound
    <2>3. q.live = ngx.live /\ q.created = ngx.created
      BY <2>1 DEF PopPosted, NgxRequest
    <2> QED BY <1>1, <2>2, <2>3
  <1>3. \/ \E w \in WriteResults(q, FALSE) :
             /\ ngx' = ngx_http_writer(q, w)
             /\ ctx' = IF w = "ERROR" THEN Failed(ctx) ELSE ctx
        \/ ngx' = q /\ UNCHANGED ctx
        \/ ngx' = ngx_http_terminate_handler(q) /\ UNCHANGED ctx
    BY DEF RunMain
  <1> HIDE DEF q
  <1>4. CASE \E w \in WriteResults(q, FALSE) :
               /\ ngx' = ngx_http_writer(q, w)
               /\ ctx' = IF w = "ERROR" THEN Failed(ctx) ELSE ctx
    <2>1. PICK w \in WriteResults(q, FALSE) :
            /\ ngx' = ngx_http_writer(q, w)
            /\ ctx' = IF w = "ERROR" THEN Failed(ctx) ELSE ctx
      BY <1>4
    <2>2. w \in Writes
      BY DEF WriteResults, OutputResults, Writes
    <2>3. Sound(ngx') /\ ngx'.created = q.created
      BY <1>2, <2>1, <2>2, Writer_Sound
    <2> QED BY <1>1, <1>2, <2>1, <2>3, Outside_Inv
  <1>5. CASE ngx' = q /\ UNCHANGED ctx
    BY <1>1, <1>2, <1>5, Outside_Inv
  <1>6. CASE ngx' = ngx_http_terminate_handler(q) /\ UNCHANGED ctx
    <2>1. Sound(ngx')
      BY <1>2, <1>6, Terminate_Sound
    <2>2. ngx'.created = q.created
      BY <1>2, <1>6 DEF ngx_http_terminate_handler, Sound, NgxRequestOK,
                        NgxRequest
    <2> QED BY <1>1, <1>2, <1>6, <2>1, <2>2, Outside_Inv
  <1> QED BY <1>3, <1>4, <1>5, <1>6

(* A subrequest that waits for its server still holds its reference. *)
LEMMA Upstream_Sound ==
    ASSUME NEW q, Sound(q), NEW i \in 1..q.created, q.sub[i] = "posted"
    PROVE  LET p == [q EXCEPT !.sub[i] = "upstream"]
           IN  Sound(p) /\ p.created = q.created
  <1> DEFINE sub == [q.sub EXCEPT ![i] = "upstream"]
             p == [q EXCEPT !.sub = sub]
  <1>1. q \in NgxRequest /\ NgxRequestOK(q)
    BY DEF Sound, NgxRequestOK
  <1>2. sub \in Seq(SubStatus) /\ Len(sub) = q.created
    <2>1. q.sub \in Seq(SubStatus) /\ Len(q.sub) = q.created
      BY <1>1, Fields
    <2>2. "upstream" \in SubStatus
      BY DEF SubStatus
    <2> QED BY <2>1, <2>2, ExceptSeq
  <1>3. \A j \in 1..q.created :
          sub[j] = IF j = i THEN "upstream" ELSE q.sub[j]
    BY <1>1, Fields
  <1> HIDE DEF sub
  <1>4. /\ p \in NgxRequest /\ p.sub = sub
        /\ p.created = q.created /\ p.data = q.data
        /\ p.postponed = q.postponed /\ p.noup = q.noup
        /\ p.posted = q.posted /\ p.live = q.live
        /\ p.count = q.count /\ p.budget = q.budget
    BY <1>1, <1>2 DEF NgxRequest
  <1>5. p = [q EXCEPT !.sub[i] = "upstream"]
    BY <1>1 DEF NgxRequest, sub
  <1> HIDE DEF p
  <1>6. Outstanding(p) = Outstanding(q)
    BY <1>3, <1>4 DEF Outstanding
  <1>7. NgxRequestOK(p)
    BY <1>1, <1>2, <1>4 DEF NgxRequestOK
  <1>8. InOrder(p) /\ (p.live => Balanced(p))
    BY <1>4, <1>6 DEF Sound, InOrder, Balanced
  <1> QED BY <1>4, <1>5, <1>7, <1>8 DEF Sound

LEMMA NoUpstream_Sound ==
    ASSUME NEW q, Sound(q), NEW i \in 1..q.created
    PROVE  LET p == [q EXCEPT !.noup = @ \cup {i}]
           IN  /\ Sound(p) /\ p.created = q.created
               /\ p.sub = q.sub /\ p.live = q.live
  <1> DEFINE s == q.noup \cup {i}
             p == [q EXCEPT !.noup = s]
  <1>1. q \in NgxRequest /\ NgxRequestOK(q)
    BY DEF Sound, NgxRequestOK
  <1>2. s \subseteq 1..q.created /\ s \in SUBSET Nat
    BY <1>1, Fields
  <1> HIDE DEF s
  <1>3. /\ p \in NgxRequest /\ p.noup = s
        /\ p.created = q.created /\ p.sub = q.sub /\ p.data = q.data
        /\ p.postponed = q.postponed /\ p.posted = q.posted
        /\ p.live = q.live /\ p.count = q.count /\ p.budget = q.budget
    BY <1>1, <1>2 DEF NgxRequest
  <1> HIDE DEF p
  <1>4. Sound(p)
    BY <1>1, <1>2, <1>3, Fields, Sound_Frame
  <1> QED BY <1>3, <1>4 DEF p, s

\* The post handler, then the finalizer.
LEMMA SubrequestFinished_Sound ==
    ASSUME NEW q, Sound(q), q.live, NEW i \in 1..q.created,
           q.sub[i] # "done"
    PROVE  LET p == SubrequestFinished(q, i)
           IN  Sound(p) /\ p.created = q.created
  <1> DEFINE r == plugin_subrequest_post_handler(q)
  <1>1. Sound(r)
    BY SetWeh_Sound DEF plugin_subrequest_post_handler, WriteHandlers
  <1>2. r.live = q.live /\ r.created = q.created /\ r.sub = q.sub
    BY DEF plugin_subrequest_post_handler, Sound, NgxRequestOK, NgxRequest
  <1> HIDE DEF r
  <1>2a. r.live /\ i \in 1..r.created /\ r.sub[i] # "done"
    BY <1>2
  <1>3. /\ Sound(ngx_http_finalize_subrequest(r, i))
        /\ ngx_http_finalize_subrequest(r, i).created = r.created
    BY <1>1, <1>2a, FinalizeSubrequest_Sound
  <1> QED BY <1>2, <1>3 DEF SubrequestFinished, r

LEMMA RunSubrequest_Inv ==
    ASSUME IInv, NEW i \in 1..ngx.created, RunSubrequest(i)
    PROVE  IInv'
  <1> DEFINE q == PopPosted(ngx)
             n == [q EXCEPT !.noup = @ \cup {i}]
  <1>1. /\ ngx.live /\ ngx.posted # <<>> /\ UNCHANGED client
        /\ UNCHANGED ctx
    BY DEF RunSubrequest, NextPosted
  <1>2. /\ Sound(q) /\ q.live /\ q.created = ngx.created
        /\ q.sub = ngx.sub
    <2>1. Sound(ngx) /\ ngx \in NgxRequest
      BY DEF IInv, Good, Sound, NgxRequestOK
    <2>2. Sound(q)
      BY <1>1, <2>1, PopPosted_Sound
    <2>3. q.live = ngx.live /\ q.created = ngx.created /\ q.sub = ngx.sub
      BY <2>1 DEF PopPosted, NgxRequest
    <2> QED BY <1>1, <2>2, <2>3
  <1>3. \/ /\ ngx.sub[i] = "posted"
           /\ ngx' = [q EXCEPT !.sub[i] = "upstream"]
        \/ /\ ngx.sub[i] \in {"posted", "final"}
           /\ ngx' = SubrequestFinished(q, i)
        \/ ngx.sub[i] = "posted" /\ ngx' = SubrequestFinished(n, i)
    BY DEF RunSubrequest
  <1> HIDE DEF q
  <1>4. Sound(ngx') /\ ngx'.created = q.created
    <2>1. CASE /\ ngx.sub[i] = "posted"
               /\ ngx' = [q EXCEPT !.sub[i] = "upstream"]
      BY <1>2, <2>1, Upstream_Sound
    <2>2. CASE /\ ngx.sub[i] \in {"posted", "final"}
               /\ ngx' = SubrequestFinished(q, i)
      BY <1>2, <2>2, SubrequestFinished_Sound
    <2>3. CASE ngx.sub[i] = "posted" /\ ngx' = SubrequestFinished(n, i)
      <3>1. /\ Sound(n) /\ n.created = q.created
            /\ n.sub = q.sub /\ n.live = q.live
        BY <1>2, NoUpstream_Sound
      <3> HIDE DEF n
      <3> QED BY <1>2, <2>3, <3>1, SubrequestFinished_Sound
    <2> QED BY <1>3, <2>1, <2>2, <2>3
  <1> QED BY <1>1, <1>2, <1>4, Outside_Inv

LEMMA UpstreamDone_Inv ==
    ASSUME IInv, NEW i \in 1..ngx.created, UpstreamDone(i)
    PROVE  IInv'
  <1>1. /\ ngx.live /\ ngx.sub[i] = "upstream"
        /\ ngx' = SubrequestFinished(ngx, i) /\ UNCHANGED <<ctx, client>>
    BY DEF UpstreamDone, EventLoop
  <1>2. Sound(ngx') /\ ngx'.created = ngx.created
    BY <1>1, SubrequestFinished_Sound DEF IInv, Good
  <1> QED BY <1>1, <1>2, Outside_Inv

LEMMA ClientWritable_Inv ==
    ASSUME IInv, ClientWritable
    PROVE  IInv'
  <1>1. PICK w \in WriteResults(ngx, FALSE) :
          /\ ngx' = ngx_http_writer(ngx, w)
          /\ ctx' = IF w = "ERROR" THEN Failed(ctx) ELSE ctx
    BY DEF ClientWritable
  <1>2. w \in Writes /\ ngx.live /\ UNCHANGED client
    BY DEF ClientWritable, EventLoop, WriteResults, OutputResults, Writes
  <1>3. Sound(ngx') /\ ngx'.created = ngx.created
    BY <1>1, <1>2, Writer_Sound DEF IInv, Good
  <1> QED BY <1>1, <1>2, <1>3, Outside_Inv

LEMMA ClientGone_Inv ==
    ASSUME IInv, ClientGone
    PROVE  IInv'
  <1>1. /\ ngx' = ngx_http_terminate_request(ngx)
        /\ ctx' = Failed(ctx) /\ UNCHANGED client
    BY DEF ClientGone
  <1>2. Sound(ngx')
    BY <1>1, Terminate_Sound DEF IInv, Good
  <1>3. ngx'.created = ngx.created
    BY <1>1 DEF ngx_http_terminate_request, IInv, Good, Sound, NgxRequestOK,
                NgxRequest
  <1> QED BY <1>1, <1>2, <1>3, Outside_Inv

\* While the body is being read nothing else holds the request.
LEMMA BodyEvent_Inv ==
    ASSUME IInv, BodyEvent
    PROVE  IInv'
  <1>1. /\ ngx.live /\ Sound(ngx) /\ Good(ngx, ctx)
        /\ ctx.state = "INIT" /\ ngx.created = 0
    BY DEF BodyEvent, EventLoop, IInv, Unstarted, Good
  <1>2. \/ /\ ngx' = ngx_http_finalize_request(ngx, "DONE") /\ UNCHANGED ctx
           /\ client' = [client EXCEPT !.body = "read"]
        \/ /\ Return(ngx, Failed(ctx), "ERROR")
           /\ client' = [client EXCEPT !.body = "none"]
    BY DEF BodyEvent, plugin_post_body
  <1>3. client' \in Client /\ client'.body # "reading"
    BY <1>2 DEF IInv, Client
  <1>4. CASE ngx' = ngx_http_finalize_request(ngx, "DONE") /\ UNCHANGED ctx
    <2>1. Outstanding(ngx) = {}
      BY <1>1 DEF Outstanding
    <2>2. Sound(ngx') /\ ngx'.created = ngx.created
      BY <1>1, <1>4, <2>1, Close_Sound DEF ngx_http_finalize_request
    <2> QED BY <1>1, <1>3, <1>4, <2>2 DEF IInv, Good, Unstarted
  <1>5. CASE Return(ngx, Failed(ctx), "ERROR")
    <2>1. /\ Good(ngx, Failed(ctx)) /\ Failed(ctx).state = ctx.state
          /\ Failed(ctx).plugin_ctx = ctx.plugin_ctx
          /\ Failed(ctx).news = ctx.news /\ Failed(ctx).deletes = ctx.deletes
      BY <1>1, Failed_Good
    <2>2. Good(ngx', ctx') /\ ctx' = Failed(ctx)
      BY <1>1, <1>5, <2>1, Return_Good DEF Writes
    <2>3. ContextInv(ctx')
      BY <2>1, <2>2 DEF IInv, ContextInv, Owned, NoContext
    <2> QED BY <1>1, <1>3, <2>1, <2>2, <2>3 DEF IInv, Unstarted
  <1> QED BY <1>2, <1>4, <1>5

-----------------------------------------------------------------------------
(* IInv is inductive, and gives the invariants that the runs check. *)
LEMMA InitIInv == Init => IInv
  <1> SUFFICES ASSUME Init
               PROVE  IInv
    OBVIOUS
  <1>1. ngx = NewRequest /\ ctx = NewContext /\ client \in Client
        /\ client.body = "none"
    BY DEF Init, Client
  <1>2. Sound(ngx) /\ ngx.created = 0
    BY <1>1, NewRequest_Sound DEF NewRequest
  <1>3. /\ ctx \in Context /\ ctx.subrequests = <<>>
        /\ NoContext(ctx) /\ ctx.state = "NONE"
    BY <1>1 DEF NewContext, Context, States, PluginReturns, NoContext
  <1>4. ctx.subrequests \in Seq(1..ngx.created)
    BY <1>3, EmptySeq
  <1>5. ngx.created <= MaxSub
    BY <1>2, MaxSubAssumption
  <1> QED BY <1>1, <1>2, <1>3, <1>4, <1>5
          DEF IInv, Good, ContextInv, Unstarted, NoContext

LEMMA NextIInv == IInv /\ [Next]_vars => IInv'
  <1> SUFFICES ASSUME IInv, [Next]_vars
               PROVE  IInv'
    OBVIOUS
  <1>1. CASE RunPosted
    BY <1>1, Handler_Inv, RunMain_Inv, RunSubrequest_Inv DEF RunPosted
  <1>2. CASE \E i \in 1..ngx.created : UpstreamDone(i)
    BY <1>2, UpstreamDone_Inv
  <1>3. CASE ClientWritable
    BY <1>3, ClientWritable_Inv
  <1>4. CASE ClientGone
    BY <1>4, ClientGone_Inv
  <1>5. CASE BodyEvent
    BY <1>5, BodyEvent_Inv
  <1>6. CASE UNCHANGED vars
    BY <1>6 DEF vars, IInv, Good, Unstarted
  <1> QED BY <1>1, <1>2, <1>3, <1>4, <1>5, <1>6 DEF Next, Freed

LEMMA Inductive == Spec => []IInv
  BY InitIInv, NextIInv, PTL DEF Spec, Safety

(* Every state that a run of the handler leaves behind is well formed, in  *)
(* particular every subrequest that the handler waits for exists           *)
(* (plugin_start_subrequest, plugin_check_subrequest).                     *)
THEOREM TypeCorrect == Spec => []TypeOK
  <1>1. IInv => TypeOK
    BY DEF IInv, Good, Sound, TypeOK
  <1> QED BY <1>1, Inductive, PTL

(* r->main->count is one more than the subrequests that are not finalized, *)
(* however often ngx_http_adfront_handler is entered again, in every order *)
(* of completions and with every failure of plugin_start_subrequest: the   *)
(* request is freed neither too early nor, on this account, never.         *)
THEOREM CountBalanced == Spec => []CountBalance
  <1>1. IInv => CountBalance
    BY DEF IInv, Good, Sound, Balanced, CountBalance
  <1> QED BY <1>1, Inductive, PTL

(* The plugin's context is created at most once and deleted at most once,  *)
(* is there whenever the handler waits for subrequests and is gone when    *)
(* the result is on its way (plugin_create_ctx, plugin_destroy_ctx).       *)
THEOREM ContextHeldOnce == Spec => []ContextOnce
  <1>1. IInv => ContextOnce
    BY DEF IInv, ContextInv, Owned, ContextOnce
  <1> QED BY <1>1, Inductive, PTL

-----------------------------------------------------------------------------
(***************************************************************************)
(* The second invariant: the response, and who is to run the request next. *)
(***************************************************************************)
Finished(q) == \A i \in 1..q.created : SubDone(q, i)

InRound(c, i) == \E j \in DOMAIN c.subrequests : c.subrequests[j] = i

\* The response is made once, when everything is done; while the handler waits
\* it waits for all that is not.
ReplyInv(q, c) ==
    /\ q.sent + q.outq <= 1
    /\ c.state # "DONE" => q.sent = 0 /\ q.outq = 0
    /\ c.state = "DONE" => Finished(q)
    /\ c.state = "WAIT" => \A i \in 1..q.created : SubDone(q, i) \/ InRound(c, i)

Running(q) == q.live /\ q.weh # "terminate"

\* The active subrequest is in the queue or at its server.
ActiveInv(q, c) ==
    q.data # Main =>
        /\ c.state = "DONE" => Queued(q, q.data)
        /\ c.state # "DONE" => q.sub[q.data] \in {"posted", "upstream"}

\* Whoever is to be run is in the queue, and somebody is, unless something
\* else is waited for.
AwakeInv(q, c) ==
    /\ q.weh = "run_phases" => Queued(q, Main)
    /\ \A i \in 1..q.created : q.sub[i] = "posted" => Queued(q, i)
    /\ ActiveInv(q, c)
    /\ c.state = "NONE" => q.weh = "run_phases"
    /\ c.state = "INIT" => q.weh = "empty"
    /\ c.state = "WAIT" => \/ q.weh = "run_phases"
                           \/ q.weh = "empty" /\ ~AllDone(q, c.subrequests)
    /\ c.state # "ERROR"
    /\ c.state = "DONE" =>
         /\ q.weh = "empty" => q.data # Main
         /\ q.weh = "writer" /\ q.data = Main => Writable(q) /\ q.buffered

WakeInv(q, c) ==
    /\ q.live /\ q.weh = "terminate" => q.posted = <<Main>>
    /\ Running(q) => AwakeInv(q, c)

\* A request that is freed, or is about to be, without a failure is complete.
FreedInv(q, c, method) ==
    /\ c.state \in {"NONE", "INIT"} => c.calls = 0
    /\ c.state = "DONE" /\ ~c.fault => q.sent + q.outq = 1
    /\ q.weh = "terminate" => c.fault \/ method = "HEAD"
    /\ ~q.live => \/ c.fault \/ method = "HEAD" \/ c.calls = 0
                  \/ c.state = "DONE" /\ Complete(q)

Settled(q, c, method) ==
    ReplyInv(q, c) /\ WakeInv(q, c) /\ FreedInv(q, c, method)

\* What a run leaves behind, with k more calls of the plugin than c knows of.
Turn(c, k, method) ==
    /\ Settled(ngx', ctx', method)
    /\ ctx'.calls = c.calls + k
    /\ ctx'.state = "WAIT" => ngx'.live /\ ngx'.weh = "empty"

\* Nothing is outstanding and nothing has been sent: the plugin may be called.
Ready(q) ==
    /\ q.live /\ q.weh = "empty" /\ q.data = Main
    /\ q.sent = 0 /\ q.outq = 0 /\ Finished(q)

-----------------------------------------------------------------------------
LEMMA Failed_Frame ==
    ASSUME NEW c \in Context
    PROVE  LET d == Failed(c)
           IN  /\ d.fault /\ d.state = c.state /\ d.calls = c.calls
               /\ d.subrequests = c.subrequests
  BY DEF Failed, Context

LEMMA DestroyCtx_Frame ==
    ASSUME NEW c \in Context
    PROVE  LET d == plugin_destroy_ctx(c)
           IN  /\ d.fault = c.fault /\ d.state = c.state /\ d.calls = c.calls
               /\ d.subrequests = c.subrequests
  BY DEF plugin_destroy_ctx, Context

LEMMA SetState_Frame ==
    ASSUME NEW c \in Context, NEW s
    PROVE  LET d == [c EXCEPT !.state = s]
           IN  /\ d.fault = c.fault /\ d.state = s /\ d.calls = c.calls
               /\ d.subrequests = c.subrequests
  BY DEF Context

LEMMA Reply_Keeps ==
    ASSUME NEW q, NEW p, NEW c, ReplyInv(q, c), Keeps(p, q)
    PROVE  ReplyInv(p, c) /\ (Finished(q) => Finished(p))
  BY DEF ReplyInv, Keeps, Finished, SubDone

\* A request that is terminated has nothing more to wait for.
LEMMA Terminated_Settled ==
    ASSUME NEW q, NEW c, NEW m, NgxRequestOK(q), q.live, ReplyInv(q, c),
           c.fault \/ m = "HEAD",
           c.state \in {"NONE", "INIT"} => c.calls = 0,
           c.state = "DONE" /\ ~c.fault => q.sent + q.outq = 1
    PROVE  LET p == ngx_http_terminate_request(q)
           IN  /\ Settled(p, c, m) /\ p.live /\ p.weh = "terminate"
               /\ Keeps(p, q)
  <1> DEFINE p == ngx_http_terminate_request(q)
  <1>1. /\ Keeps(p, q) /\ p.live
        /\ p.weh = "terminate" /\ p.posted = <<Main>>
    BY Terminate_Frame
  <1> HIDE DEF p
  <1>2. ReplyInv(p, c)
    BY <1>1, Reply_Keeps
  <1>3. WakeInv(p, c)
    BY <1>1 DEF WakeInv, Running
  <1>4. FreedInv(p, c, m)
    BY <1>1 DEF FreedInv, Keeps
  <1> QED BY <1>1, <1>2, <1>3, <1>4 DEF Settled, p

LEMMA ErrorReturn_Settled ==
    ASSUME NEW q, NEW c, NEW m, NgxRequestOK(q), q.live, ReplyInv(q, c),
           c.fault \/ m = "HEAD",
           c.state \in {"NONE", "INIT"} => c.calls = 0,
           c.state = "DONE" /\ ~c.fault => q.sent + q.outq = 1,
           Return(q, c, "ERROR")
    PROVE  /\ Settled(ngx', ctx', m) /\ ctx' = c
           /\ ngx'.live /\ ngx'.weh = "terminate" /\ Keeps(ngx', q)
  <1>1. ngx' = ngx_http_terminate_request(q) /\ ctx' = c
    BY DEF Return, ngx_http_finalize_request
  <1> QED BY <1>1, Terminated_Settled

\* After a failure nothing has been sent.
LEMMA DestroyRequest_Turn ==
    ASSUME NEW q, NEW c, NEW m, Good(q, c), q.live, q.sent = 0, q.outq = 0,
           c.fault, plugin_destroy_request(q, c)
    PROVE  Turn(c, 0, m) /\ ctx'.state = "ERROR"
  <1> DEFINE e == [c EXCEPT !.state = "ERROR"]
             d == plugin_destroy_ctx(e)
  <1>1. c \in Context /\ NgxRequestOK(q)
    BY DEF Good, Sound
  <1>2. e \in Context /\ e.state = "ERROR" /\ e.calls = c.calls /\ e.fault
    BY <1>1, SetState_Frame DEF Context, States
  <1>3. Return(q, d, "ERROR")
    BY DEF plugin_destroy_request
  <1> HIDE DEF e
  <1>4. d.state = "ERROR" /\ d.calls = c.calls /\ d.fault
    BY <1>2, DestroyCtx_Frame
  <1> HIDE DEF d
  <1>5. ReplyInv(q, d)
    BY <1>4 DEF ReplyInv
  <1>6. Settled(ngx', ctx', m) /\ ctx' = d
    BY <1>1, <1>3, <1>4, <1>5, ErrorReturn_Settled
  <1>7. c.calls \in Nat
    BY <1>1, ContextFields
  <1> QED BY <1>4, <1>6, <1>7 DEF Turn

-----------------------------------------------------------------------------
(* The response is written, or waits. *)
\* What must hold of a request to which the response is given (in), or which
\* is to give it to the client.
Replying(q, c, in) ==
    /\ c.state = "DONE" /\ Finished(q)
    /\ q.sent + q.outq + (IF in THEN 1 ELSE 0) <= 1
    /\ ~c.fault => q.sent + q.outq + (IF in THEN 1 ELSE 0) = 1
    /\ q.data # Main => Queued(q, q.data)

LEMMA Replying_Filter ==
    ASSUME NEW q, NEW c, NEW in \in BOOLEAN, NEW w, NgxRequestOK(q),
           Replying(q, c, in)
    PROVE  LET p == ngx_http_output_filter(q, in, w)
           IN  /\ Replying(p, c, FALSE)
               /\ p.weh = q.weh /\ p.sent >= q.sent
               /\ p.data = Main => p.postponed = <<>> /\ p.outq = 0
  <1> DEFINE p == ngx_http_output_filter(q, in, w)
  <1>1. /\ p.created = q.created /\ p.sub = q.sub
        /\ p.sent + p.outq = q.sent + q.outq + (IF in THEN 1 ELSE 0)
        /\ \A r : Queued(q, r) => Queued(p, r)
        /\ p.data # Main => p.data = q.data \/ Queued(p, p.data)
        /\ q.data # Main => p.data = q.data
        /\ p.weh = q.weh /\ p.sent >= q.sent
        /\ p.data = Main => p.postponed = <<>> /\ p.outq = 0
    BY OutputFilter_Frame
  <1> HIDE DEF p
  <1>2. Finished(p)
    BY <1>1 DEF Replying, Finished, SubDone
  <1>3. p.data # Main => Queued(p, p.data)
    BY <1>1 DEF Replying
  <1>4. /\ p.sent + p.outq + 0 <= 1
        /\ ~c.fault => p.sent + p.outq + 0 = 1
    <2>1. q.sent \in Nat /\ q.outq \in Nat
      BY DEF NgxRequestOK, NgxRequest
    <2>2. CASE in
      BY <1>1, <2>1, <2>2 DEF Replying
    <2>3. CASE ~in
      BY <1>1, <2>1, <2>3 DEF Replying
    <2> QED BY <2>2, <2>3
  <1>5. Replying(p, c, FALSE)
    BY <1>2, <1>3, <1>4 DEF Replying
  <1> QED BY <1>1, <1>5 DEF p

\* Also when the whole of it has been taken by the client.
LEMMA Replied ==
    ASSUME NEW q, NEW c, NEW m, NEW rc \in {"OK", "AGAIN"}, Sound(q), q.live,
           Replying(q, c, FALSE), q.weh = "empty",
           q.data = Main => q.postponed = <<>> /\ q.outq = 0
    PROVE  LET p == ngx_http_finalize_request(q, rc)
           IN  Settled(p, c, m) /\ Keeps(p, q)
  <1> DEFINE p == ngx_http_finalize_request(q, rc)
  <1>1. NgxRequestOK(q)
    BY DEF Sound
  <1>2. /\ Keeps(p, q) /\ p.weh # "terminate"
        /\ \/ /\ p.live /\ p.posted = q.posted /\ p.data = q.data
              /\ p.postponed = q.postponed /\ p.buffered = q.buffered
              /\ \/ p.weh = "empty" /\ q.data # Main
                 \/ p.weh = "writer" /\ (q.data = Main => q.buffered)
           \/ Complete(p)
    BY FinalizeOK_Frame
  <1> HIDE DEF p
  <1>3. q.sent \in Nat /\ q.outq \in Nat
    BY <1>1 DEF NgxRequestOK, NgxRequest
  <1>4. ReplyInv(p, c)
    BY <1>2, <1>3 DEF Replying, ReplyInv, Keeps, Finished, SubDone
  <1>5. FreedInv(p, c, m)
    BY <1>2, <1>3 DEF Replying, FreedInv, Keeps, Complete
  <1>6. ASSUME Running(p)
        PROVE  AwakeInv(p, c)
    <2>1. /\ p.live /\ p.posted = q.posted /\ p.data = q.data
          /\ p.postponed = q.postponed /\ p.buffered = q.buffered
          /\ \/ p.weh = "empty" /\ q.data # Main
             \/ p.weh = "writer" /\ (q.data = Main => q.buffered)
      BY <1>2, <1>6 DEF Running, Complete
    <2>2. \A i \in 1..p.created : p.sub[i] # "posted"
      BY <1>2 DEF Replying, Finished, SubDone, Keeps
    <2>3. p.data # Main => Queued(p, p.data)
      BY <2>1 DEF Replying, Queued
    <2>4. p.weh = "writer" /\ p.data = Main => Writable(p) /\ p.buffered
      BY <2>1 DEF Writable
    <2> QED BY <2>1, <2>2, <2>3, <2>4 DEF Replying, AwakeInv, ActiveInv
  <1>7. WakeInv(p, c)
    BY <1>2, <1>6 DEF WakeInv
  <1> QED BY <1>2, <1>4, <1>5, <1>7 DEF Settled, p

LEMMA Write_Turn ==
    ASSUME NEW q, NEW c, NEW m, NEW in \in BOOLEAN, Good(q, c), q.live,
           q.weh = "empty", Replying(q, c, in), Write(q, c, in)
    PROVE  Turn(c, 0, m) /\ ctx'.state = "DONE" /\ ngx'.sent >= q.sent
  <1>1. PICK w \in WriteResults(q, in) :
          Return(ngx_http_output_filter(q, in, w),
                 IF w = "ERROR" THEN Failed(c) ELSE c, w)
    BY DEF Write
  <1>2. w \in Writes
    BY DEF WriteResults, OutputResults, Writes
  <1> DEFINE p == ngx_http_output_filter(q, in, w)
  <1>3. c \in Context /\ NgxRequestOK(q) /\ c.calls \in Nat
    BY ContextFields DEF Good, Sound
  <1>4. Sound(p) /\ p.live /\ p.created = q.created
    BY OutputFilter_Sound DEF Good
  <1>5. /\ p.weh = q.weh /\ p.sent >= q.sent
        /\ p.data = Main => p.postponed = <<>> /\ p.outq = 0
    BY <1>3, OutputFilter_Frame
  <1>6. Replying(p, c, FALSE)
    BY <1>3, Replying_Filter
  <1>7. Return(p, IF w = "ERROR" THEN Failed(c) ELSE c, w)
    BY <1>1
  <1> HIDE DEF p
  <1>8. NgxRequestOK(p) /\ p.sent \in Nat /\ p.outq \in Nat
    BY <1>4 DEF Sound, NgxRequestOK, NgxRequest
  <1>9. CASE w = "ERROR"
    <2> DEFINE d == Failed(c)
    <2>1. Return(p, d, "ERROR")
      BY <1>7, <1>9
    <2>2. d.fault /\ d.state = "DONE" /\ d.calls = c.calls
      BY <1>3, Failed_Frame DEF Replying
    <2> HIDE DEF d
    <2>3. ReplyInv(p, d)
      BY <1>6, <1>8, <2>2 DEF Replying, ReplyInv
    <2>4. Settled(ngx', ctx', m) /\ ctx' = d /\ Keeps(ngx', p)
      BY <1>4, <1>8, <2>1, <2>2, <2>3, ErrorReturn_Settled
    <2> QED BY <1>3, <1>5, <2>2, <2>4 DEF Turn, Keeps
  <1>10. CASE w \in {"OK", "AGAIN"}
    <2>1. ngx' = ngx_http_finalize_request(p, w) /\ ctx' = c
      BY <1>7, <1>10 DEF Return
    <2>2. Settled(ngx', ctx', m) /\ Keeps(ngx', p)
      BY <1>4, <1>5, <1>6, <1>10, <2>1, Replied
    <2>3. c.state = "DONE"
      BY DEF Replying
    <2> QED BY <1>3, <1>5, <2>1, <2>2, <2>3 DEF Turn, Keeps
  <1> QED BY <1>2, <1>9, <1>10 DEF Writes

\* ngx_http_writer, from the event loop or when the main request was posted.
LEMMA Writer_Settled ==
    ASSUME NEW q, NEW c, NEW m, NEW w \in Writes, Good(q, c), q.live,
           q.weh = "writer", Replying(q, c, FALSE)
    PROVE  LET p == ngx_http_writer(q, w)
               d == IF w = "ERROR" THEN Failed(c) ELSE c
           IN  Settled(p, d, m) /\ p.sent >= q.sent
  <1> DEFINE f == ngx_http_output_filter(q, FALSE, w)
             e == [f EXCEPT !.weh = "empty"]
             p == ngx_http_writer(q, w)
  <1>1. c \in Context /\ NgxRequestOK(q)
    BY DEF Good, Sound
  <1>2. Sound(f) /\ f.live
    BY OutputFilter_Sound DEF Good
  <1>3. /\ f.weh = q.weh /\ f.sent >= q.sent
        /\ f.data = Main => f.postponed = <<>> /\ f.outq = 0
    <2> HIDE DEF e, p
    <2> QED BY <1>1, Replying_Filter
  <1>4. Replying(f, c, FALSE)
    BY <1>1, Replying_Filter
  <1>5. p = IF w = "ERROR" THEN ngx_http_terminate_request(f)
            ELSE IF f.buffered \/ Postponed(f) THEN f
            ELSE ngx_http_finalize_request(e, "OK")
    BY DEF ngx_http_writer
  <1> HIDE DEF p, f
  <1>6. NgxRequestOK(f) /\ f.sent \in Nat /\ f.outq \in Nat
    BY <1>2 DEF Sound, NgxRequestOK, NgxRequest
  <1>7. CASE w = "ERROR"
    <2> DEFINE d == Failed(c)
    <2>1. d.fault /\ d.state = "DONE"
      BY <1>1, Failed_Frame DEF Replying
    <2> HIDE DEF d
    <2>2. ReplyInv(f, d)
      BY <1>4, <1>6, <2>1 DEF Replying, ReplyInv
    <2>3. Settled(p, d, m) /\ Keeps(p, f)
      BY <1>2, <1>5, <1>6, <1>7, <2>1, <2>2, Terminated_Settled
    <2> QED BY <1>3, <1>7, <2>3 DEF Keeps, d, p
  <1>8. CASE w # "ERROR" /\ (f.buffered \/ Postponed(f))
    <2>1. p = f
      BY <1>5, <1>8
    <2>2. ReplyInv(f, c)
      BY <1>4, <1>6 DEF Replying, ReplyInv
    <2>3. FreedInv(f, c, m)
      BY <1>2, <1>3, <1>4, <1>6 DEF Replying, FreedInv
    <2>4. AwakeInv(f, c)
      <3>1. \A i \in 1..f.created : f.sub[i] # "posted"
        BY <1>4 DEF Replying, Finished, SubDone
      <3>2. f.data = Main => Writable(f) /\ f.buffered
        BY <1>3, <1>8 DEF Writable, Postponed
      <3> QED BY <1>3, <1>4, <3>1, <3>2 DEF Replying, AwakeInv, ActiveInv
    <2>5. WakeInv(f, c)
      BY <1>3, <2>4 DEF WakeInv
    <2> QED BY <1>3, <1>8, <2>1, <2>2, <2>3, <2>5 DEF Settled, p
  <1>9. CASE w # "ERROR" /\ ~(f.buffered \/ Postponed(f))
    <2>1. p = ngx_http_finalize_request(e, "OK")
      BY <1>5, <1>9
    <2>2. Sound(e)
      BY <1>2, SetWeh_Sound DEF WriteHandlers
    <2>3. /\ Keeps(e, f) /\ e.live /\ e.data = f.data
          /\ e.postponed = f.postponed /\ e.weh = "empty"
          /\ e.posted = f.posted
      BY <1>2, <1>6, SetWeh_Frame
    <2> HIDE DEF e
    <2>4. Replying(e, c, FALSE)
      BY <1>4, <2>3 DEF Replying, Keeps, Finished, SubDone, Queued
    <2>5. Settled(p, c, m) /\ Keeps(p, e)
      BY <1>3, <2>1, <2>2, <2>3, <2>4, Replied DEF Keeps
    <2> QED BY <1>3, <1>9, <2>3, <2>5 DEF Keeps, p
  <1> QED BY <1>7, <1>8, <1>9

-----------------------------------------------------------------------------
(* The plugin is called: it answers, or asks for subrequests. *)
LEMMA FinalRequest_Turn ==
    ASSUME NEW q, NEW c, NEW m, m = client.method, Good(q, c), Ready(q),
           plugin_final_request(q, c)
    PROVE  Turn(c, 0, m)
  <1> DEFINE e == [c EXCEPT !.state = "DONE"]
             d == plugin_destroy_ctx(e)
             p == [q EXCEPT !.sent = @ + 1]
  <1>0. "DONE" \in States
    BY DEF States
  <1>1. /\ Good(q, e) /\ e.state = "DONE" /\ e.calls = c.calls
    BY <1>0, SetState_Good, SetState_Frame DEF Good
  <1>2. \/ Return(q, Failed(d), "ERROR")
        \/ m = "HEAD" /\ Return(p, d, "ERROR")
        \/ Write(q, d, TRUE)
    BY DEF plugin_final_request
  <1> HIDE DEF e
  <1>3. Good(q, d) /\ d.state = "DONE" /\ d.calls = c.calls
    BY <1>1, DestroyCtx_Good, DestroyCtx_Frame DEF Good
  <1> HIDE DEF d
  <1>4. /\ NgxRequestOK(q) /\ d \in Context /\ c.calls \in Nat
    BY <1>3, ContextFields DEF Good, Sound
  <1>5. CASE Return(q, Failed(d), "ERROR")
    <2> DEFINE f == Failed(d)
    <2>1. f.fault /\ f.state = "DONE" /\ f.calls = c.calls
      BY <1>3, <1>4, Failed_Frame
    <2>2. Return(q, f, "ERROR")
      BY <1>5
    <2> HIDE DEF f
    <2>3. ReplyInv(q, f)
      BY <2>1 DEF Ready, ReplyInv
    <2>4. Settled(ngx', ctx', m) /\ ctx' = f
      BY <1>4, <2>1, <2>2, <2>3, ErrorReturn_Settled DEF Ready
    <2> QED BY <1>4, <2>1, <2>4 DEF Turn
  <1>6. CASE m = "HEAD" /\ Return(p, d, "ERROR")
    <2>1. Good(p, d) /\ p.live
      BY <1>3, Sent_Good DEF Ready
    <2>2. /\ p.sent = 1 /\ p.outq = 0
          /\ p.created = q.created /\ p.sub = q.sub
      BY <1>4 DEF Ready, NgxRequestOK, NgxRequest
    <2>3. Return(p, d, "ERROR")
      BY <1>6
    <2> HIDE DEF p
    <2>4. ReplyInv(p, d)
      BY <1>3, <2>2 DEF Ready, ReplyInv, Finished, SubDone
    <2>5. NgxRequestOK(p)
      BY <2>1 DEF Good, Sound
    <2>6. Settled(ngx', ctx', m) /\ ctx' = d
      BY <1>3, <1>6, <2>1, <2>2, <2>3, <2>4, <2>5, ErrorReturn_Settled
    <2> QED BY <1>3, <1>4, <2>6 DEF Turn
  <1>7. CASE Write(q, d, TRUE)
    <2>1. Replying(q, d, TRUE)
      BY <1>3 DEF Ready, Replying
    <2>2. Turn(d, 0, m) /\ ctx'.state = "DONE"
      BY <1>3, <1>7, <2>1, Write_Turn DEF Ready
    <2> QED BY <1>3, <2>2 DEF Turn
  <1> QED BY <1>2, <1>5, <1>6, <1>7

LEMMA Started_Frame ==
    ASSUME NEW q, NEW c \in Context, NEW k
    PROVE  LET d == Started(c, q, k)
           IN  /\ d.state = "WAIT" /\ d.calls = c.calls /\ d.fault = c.fault
               /\ d.subrequests = [j \in 1..k |-> q.created + j]
  BY DEF Started, Context

\* The handler waits for the subrequests that it has just made.
LEMMA Started_Settled ==
    ASSUME NEW q, NEW c, NEW m, Good(q, c), Ready(q), NEW k \in Nat, k > 0
    PROVE  LET p == ngx_http_subrequest(q, k)
               d == Started(c, q, k)
           IN  Settled(p, d, m) /\ p.live /\ p.weh = "empty"
  <1> DEFINE p == ngx_http_subrequest(q, k)
             d == Started(c, q, k)
  <1>1. /\ NgxRequestOK(q) /\ q.created \in Nat /\ c \in Context
        /\ q.live /\ q.weh = "empty" /\ q.data = Main
        /\ q.sent = 0 /\ q.outq = 0
        /\ \A i \in 1..q.created : SubDone(q, i)
    BY Fields DEF Good, Sound, Ready, Finished
  <1>2. /\ p.created = q.created + k
        /\ p.sent = q.sent /\ p.outq = q.outq /\ p.weh = q.weh
        /\ p.live = q.live
        /\ \A i \in 1..p.created :
             p.sub[i] = IF i <= q.created THEN q.sub[i] ELSE "posted"
        /\ p.data = q.data \/ (k > 0 /\ p.data = q.created + 1)
        /\ \A r : Queued(q, r) => Queued(p, r)
        /\ \A r \in (q.created + 1)..(q.created + k) : Queued(p, r)
    BY <1>1, Subrequest_Frame
  <1>3. /\ d.state = "WAIT" /\ d.calls = c.calls /\ d.fault = c.fault
        /\ d.subrequests = [j \in 1..k |-> q.created + j]
    BY <1>1, Started_Frame
  <1> HIDE DEF p, d
  <1>4. \A i \in 1..p.created :
          \/ i \in 1..q.created /\ p.sub[i] = q.sub[i] /\ SubDone(q, i)
          \/ i \in (q.created + 1)..(q.created + k) /\ p.sub[i] = "posted"
    BY <1>1, <1>2
  <1>5. \A i \in 1..p.created : SubDone(p, i) \/ InRound(d, i)
    <2> SUFFICES ASSUME NEW i \in (q.created + 1)..(q.created + k)
                 PROVE  InRound(d, i)
      BY <1>4 DEF SubDone
    <2> DEFINE j == i - q.created
    <2>1. j \in 1..k /\ q.created + j = i
      BY <1>1
    <2> HIDE DEF j
    <2>2. j \in DOMAIN d.subrequests /\ d.subrequests[j] = i
      BY <1>3, <2>1
    <2> QED BY <2>2 DEF InRound
  <1>6. ReplyInv(p, d)
    BY <1>1, <1>2, <1>3, <1>5 DEF ReplyInv
  <1>7. q.created + 1 \in 1..p.created /\ p.sub[q.created + 1] = "posted"
    BY <1>1, <1>2
  <1>8. ~AllDone(p, d.subrequests)
    <2>1. 1 \in DOMAIN d.subrequests /\ d.subrequests[1] = q.created + 1
      BY <1>3
    <2> QED BY <1>7, <2>1 DEF AllDone, SubDone
  <1>9. \A i \in 1..p.created : p.sub[i] = "posted" => Queued(p, i)
    BY <1>2, <1>4 DEF SubDone
  <1>10. ActiveInv(p, d)
    BY <1>1, <1>2, <1>3, <1>7 DEF ActiveInv
  <1>11. AwakeInv(p, d)
    BY <1>1, <1>2, <1>3, <1>8, <1>9, <1>10 DEF AwakeInv
  <1>12. WakeInv(p, d)
    BY <1>1, <1>2, <1>11 DEF WakeInv
  <1>13. FreedInv(p, d, m)
    BY <1>1, <1>2, <1>3 DEF FreedInv
  <1> QED BY <1>1, <1>2, <1>6, <1>12, <1>13 DEF Settled, p, d

LEMMA StartSubrequest_Turn ==
    ASSUME NEW q, NEW c, NEW m, Good(q, c), Owned(c), Ready(q),
           plugin_start_subrequest(q, c)
    PROVE  Turn(c, 0, m)
  <1>0. /\ q.created \in Nat /\ MaxSub \in Nat /\ NgxRequestOK(q) /\ q.live
        /\ c \in Context /\ c.calls \in Nat
    BY Fields, MaxSubAssumption, ContextFields DEF Good, Sound, Ready
  <1>1. PICK n \in Rounds :
          /\ q.created + n <= MaxSub
          /\ \/ Return(HoldRequest(ngx_http_subrequest(q, n)),
                       Started(c, q, n), "DONE")
             \/ \E k \in 0..(n - 1) :
                  plugin_destroy_request(ngx_http_subrequest(q, k),
                                         Failed(Started(c, q, k)))
    BY DEF plugin_start_subrequest
  <1>2. n \in Nat /\ n > 0
    BY RoundsAssumption
  <1>3. CASE Return(HoldRequest(ngx_http_subrequest(q, n)),
                    Started(c, q, n), "DONE")
    <2> DEFINE p == ngx_http_subrequest(q, n)
               d == Started(c, q, n)
    <2>1. Sound(p) /\ p.live
      BY <1>0, <1>2, Subrequest_Sound DEF Good
    <2>2. /\ d.state = "WAIT" /\ d.calls = c.calls /\ d.fault = c.fault
          /\ d.subrequests = [j \in 1..n |-> q.created + j]
      BY <1>0, Started_Frame
    <2>3. Settled(p, d, m) /\ p.live /\ p.weh = "empty"
      BY <1>2, Started_Settled
    <2>4. Return(HoldRequest(p), d, "DONE")
      BY <1>3
    <2> HIDE DEF p, d
    <2>5. ngx' = p /\ ctx' = d
      BY <2>1, <2>4, HoldDone_Frame DEF Return, HoldRequest
    <2> QED BY <1>0, <2>2, <2>3, <2>5 DEF Turn
  <1>4. ASSUME NEW k \in 0..(n - 1),
               plugin_destroy_request(ngx_http_subrequest(q, k),
                                      Failed(Started(c, q, k)))
        PROVE  Turn(c, 0, m)
    <2> DEFINE p == ngx_http_subrequest(q, k)
               d == Started(c, q, k)
               f == Failed(d)
    <2>1. k \in Nat /\ q.created + k <= MaxSub
      BY <1>0, <1>1, <1>2
    <2>2. Good(p, d) /\ p.live
      BY <1>0, <2>1, Started_Good
    <2>3. /\ d.state = "WAIT" /\ d.calls = c.calls /\ d.fault = c.fault
          /\ d.subrequests = [j \in 1..k |-> q.created + j]
      BY <1>0, Started_Frame
    <2>4. p.sent = 0 /\ p.outq = 0
      BY <1>0, <2>1, Subrequest_Frame DEF Ready
    <2>5. plugin_destroy_request(p, f)
      BY <1>4
    <2> HIDE DEF p, d
    <2>6. Good(p, f) /\ f.fault /\ f.calls = c.calls
      BY <2>2, <2>3, Failed_Good, Failed_Frame DEF Good
    <2> HIDE DEF f
    <2>7. Turn(f, 0, m)
      BY <2>2, <2>4, <2>5, <2>6, DestroyRequest_Turn
    <2> QED BY <2>6, <2>7 DEF Turn
  <1> QED BY <1>1, <1>3, <1>4

\* The plugin has been called, or the request has failed before it was.
Ran(c, m) ==
    /\ ctx'.state \in {"WAIT", "DONE", "ERROR"}
    /\ Turn(c, 1, m) \/ (Turn(c, 0, m) /\ ctx'.state = "ERROR")

LEMMA CallPlugin_Turn ==
    ASSUME NEW q, NEW c, NEW m, m = client.method, Good(q, c), Owned(c),
           Ready(q), CallPlugin(q, c)
    PROVE  Turn(c, 1, m)
  <1> DEFINE Returned(rc) == [c EXCEPT !.calls = @ + 1, !.rc = rc]
  <1>1. \/ \E rc \in {"OK", "ERROR"} : plugin_final_request(q, Returned(rc))
        \/ plugin_start_subrequest(q, Returned("AGAIN"))
    BY DEF CallPlugin
  <1>2. ASSUME NEW rc \in PluginReturns
        PROVE  /\ Good(q, Returned(rc)) /\ Owned(Returned(rc))
               /\ Returned(rc).calls = c.calls + 1
    <2> DEFINE n == c.calls + 1
               d == [c EXCEPT !.calls = n, !.rc = rc]
    <2>1. c \in Context /\ n \in Nat
      BY ContextFields DEF Good
    <2>2. d = Returned(rc)
      OBVIOUS
    <2>a. n = c.calls + 1
      OBVIOUS
    <2> HIDE DEF n
    <2>3. /\ d \in Context /\ d.subrequests = c.subrequests
          /\ d.plugin_ctx = c.plugin_ctx /\ d.news = c.news
          /\ d.deletes = c.deletes /\ d.calls = n
      BY <2>1 DEF Context
    <2> HIDE DEF d
    <2>4. Good(q, d) /\ Owned(d)
      BY <2>3 DEF Good, Owned
    <2> QED BY <2>2, <2>3, <2>4, <2>a
  <1> HIDE DEF Returned
  <1>a. c.calls \in Nat
    BY ContextFields DEF Good
  <1>3. CASE \E rc \in {"OK", "ERROR"} : plugin_final_request(q, Returned(rc))
    <2>1. PICK rc \in {"OK", "ERROR"} : plugin_final_request(q, Returned(rc))
      BY <1>3
    <2>2. Good(q, Returned(rc)) /\ Returned(rc).calls = c.calls + 1
      BY <1>2 DEF PluginReturns
    <2>3. Turn(Returned(rc), 0, m)
      BY <2>1, <2>2, FinalRequest_Turn
    <2> QED BY <1>a, <2>2, <2>3 DEF Turn
  <1>4. CASE plugin_start_subrequest(q, Returned("AGAIN"))
    <2>1. /\ Good(q, Returned("AGAIN")) /\ Owned(Returned("AGAIN"))
          /\ Returned("AGAIN").calls = c.calls + 1
      BY <1>2 DEF PluginReturns
    <2>2. Turn(Returned("AGAIN"), 0, m)
      BY <1>4, <2>1, StartSubrequest_Turn
    <2> QED BY <1>a, <2>1, <2>2 DEF Turn
  <1> QED BY <1>1, <1>3, <1>4

LEMMA ProcessRequest_Turn ==
    ASSUME NEW q, NEW c, NEW m, m = client.method, Good(q, c), NoContext(c),
           Ready(q), plugin_process_request(q, c)
    PROVE  Ran(c, m)
  <1> DEFINE a == Allocated(c)
             d == plugin_create_ctx(c)
  <1>1. \/ plugin_destroy_request(q, Failed(a))
        \/ plugin_destroy_request(q, Failed(d))
        \/ CallPlugin(q, d)
    BY DEF plugin_process_request, Handle
  <1>2. Good(q, a) /\ a.calls = c.calls
    <2>1. /\ a \in Context /\ a.subrequests = c.subrequests
          /\ a.calls = c.calls /\ a.news = 1 /\ a.deletes = 0
      BY DEF Good, Context, NoContext, Allocated
    <2> QED BY <2>1 DEF Good
  <1>3. Good(q, d) /\ Owned(d) /\ d.calls = c.calls
    <2>a. a.news = 1 /\ a.deletes = 0 /\ a \in Context
      BY DEF Good, Context, NoContext, Allocated
    <2>0. d = [a EXCEPT !.plugin_ctx = TRUE]
      BY DEF plugin_create_ctx
    <2> HIDE DEF a, d
    <2>1. /\ d \in Context /\ d.subrequests = a.subrequests
          /\ d.plugin_ctx /\ d.news = 1 /\ d.deletes = 0
          /\ d.calls = a.calls
      BY <2>a, <2>0 DEF Context
    <2> QED BY <1>2, <2>1 DEF Good, Owned
  <1> HIDE DEF a, d
  <1>4. ASSUME NEW x \in {a, d}, plugin_destroy_request(q, Failed(x))
        PROVE  Ran(c, m)
    <2> DEFINE f == Failed(x)
    <2>1. Good(q, x) /\ x.calls = c.calls
      BY <1>2, <1>3
    <2>2. Good(q, f) /\ f.fault /\ f.calls = c.calls
      BY <2>1, Failed_Good, Failed_Frame DEF Good
    <2>3. plugin_destroy_request(q, f)
      BY <1>4
    <2> HIDE DEF f
    <2>4. Turn(f, 0, m) /\ ctx'.state = "ERROR"
      BY <2>2, <2>3, DestroyRequest_Turn DEF Ready
    <2> QED BY <2>2, <2>4 DEF Ran, Turn
  <1>5. CASE CallPlugin(q, d)
    <2>1. Turn(d, 1, m)
      BY <1>3, <1>5, CallPlugin_Turn
    <2>2. ctx'.state \in {"WAIT", "DONE", "ERROR"}
      BY <1>3, <1>5, CallPlugin_Good DEF Called, Ready
    <2> QED BY <1>3, <2>1, <2>2 DEF Ran, Turn
  <1> QED BY <1>1, <1>4, <1>5

-----------------------------------------------------------------------------
(* The runs of the handler. *)
\* A run that finds a subrequest outstanding leaves everything as it was.
LEMMA CheckSubrequest_Turn ==
    ASSUME NEW q, NEW c, NEW m, m = client.method, Good(q, c), Owned(c),
           c.state = "WAIT", q.live, q.weh = "empty",
           ReplyInv(q, c), ActiveInv(q, c), FreedInv(q, c, m),
           \A i \in 1..q.created : q.sub[i] = "posted" => Queued(q, i),
           plugin_check_subrequest(q, c)
    PROVE  /\ Settled(ngx', ctx', m)
           /\ \/ Ran(c, m) /\ Finished(q)
              \/ ngx' = q /\ ctx' = c
  <1>1. \/ ~AllDone(q, c.subrequests) /\ Return(HoldRequest(q), c, "DONE")
        \/ /\ AllDone(q, c.subrequests)
           /\ \/ plugin_destroy_request(q, Failed(c))
              \/ CallPlugin(q, c)
    BY DEF plugin_check_subrequest, PostSubHandle
  <1>2. CASE ~AllDone(q, c.subrequests) /\ Return(HoldRequest(q), c, "DONE")
    <2>1. ngx' = q /\ ctx' = c
      BY <1>2, HoldDone_Frame DEF Return, HoldRequest, Good
    <2>2. AwakeInv(q, c)
      BY <1>2 DEF AwakeInv
    <2>3. WakeInv(q, c)
      BY <2>2 DEF WakeInv
    <2> QED BY <2>1, <2>3 DEF Settled
  <1>3. CASE AllDone(q, c.subrequests)
    <2>1. Finished(q)
      BY <1>3 DEF ReplyInv, InRound, AllDone, Finished
    <2>2. q.data \in 0..q.created /\ q.created \in Nat
      BY Fields DEF Good, Sound, NgxRequestOK
    <2>3. q.data = Main
      BY <2>1, <2>2 DEF ActiveInv, Finished, SubDone, Main
    <2>4. Ready(q)
      BY <2>1, <2>3 DEF Ready, ReplyInv
    <2>5. CASE plugin_destroy_request(q, Failed(c))
      <3> DEFINE f == Failed(c)
      <3>1. Good(q, f) /\ f.fault /\ f.calls = c.calls
        BY Failed_Good, Failed_Frame DEF Good
      <3>2. plugin_destroy_request(q, f)
        BY <2>5
      <3> HIDE DEF f
      <3>3. Turn(f, 0, m) /\ ctx'.state = "ERROR"
        BY <2>4, <3>1, <3>2, DestroyRequest_Turn DEF Ready
      <3> QED BY <2>1, <3>1, <3>3 DEF Ran, Turn
    <2>6. CASE CallPlugin(q, c)
      <3>1. Turn(c, 1, m)
        BY <2>4, <2>6, CallPlugin_Turn
      <3>2. ctx'.state \in {"WAIT", "DONE", "ERROR"}
        BY <2>6, CallPlugin_Good DEF Called
      <3> QED BY <2>1, <3>1, <3>2 DEF Ran, Turn
    <2> QED BY <1>1, <1>3, <2>5, <2>6
  <1> QED BY <1>1, <1>2, <1>3

\* The body may have to be waited for.
LEMMA InitRequest_Turn ==
    ASSUME NEW q, NEW c, NEW m, m = client.method, client \in Client,
           Good(q, c), NoContext(c), c.calls = 0, Ready(q), q.created = 0,
           plugin_init_request(q, c)
    PROVE  /\ Settled(ngx', ctx', m) /\ client'.method = m
           /\ \/ Ran(c, m)
              \/ /\ ngx' = q /\ ctx'.state = "INIT" /\ ctx'.calls = c.calls
                 /\ client'.body = "reading"
  <1> DEFINE b == ngx_http_read_client_request_body(q)
             p == plugin_post_body(b)
             d == [c EXCEPT !.state = "INIT"]
  <1>0. Sound(q) /\ q.live /\ c \in Context
    BY DEF Good, Ready
  <1>1. \/ plugin_process_request(q, c) /\ UNCHANGED client
        \/ plugin_destroy_request(q, Failed(c)) /\ UNCHANGED client
        \/ /\ plugin_process_request(p, c)
           /\ client' = [client EXCEPT !.body = "read"]
        \/ /\ Return(b, d, "DONE")
           /\ client' = [client EXCEPT !.body = "reading"]
    BY DEF plugin_init_request
  <1>2. client'.method = m
    BY <1>1 DEF Client
  <1>3. CASE plugin_process_request(q, c)
    <2>1. Ran(c, m)
      BY <1>3, ProcessRequest_Turn
    <2> QED BY <1>2, <2>1 DEF Ran, Turn
  <1>4. CASE plugin_destroy_request(q, Failed(c))
    <2> DEFINE f == Failed(c)
    <2>1. Good(q, f) /\ f.fault /\ f.calls = c.calls
      BY Failed_Good, Failed_Frame DEF Good
    <2>2. plugin_destroy_request(q, f)
      BY <1>4
    <2> HIDE DEF f
    <2>3. Turn(f, 0, m) /\ ctx'.state = "ERROR"
      BY <2>1, <2>2, DestroyRequest_Turn DEF Ready
    <2> QED BY <1>2, <2>1, <2>3 DEF Ran, Turn
  <1>5. CASE plugin_process_request(p, c)
    <2>1. p = q
      BY <1>0, HoldDone_Frame
         DEF plugin_post_body, ngx_http_read_client_request_body
    <2> HIDE DEF p
    <2> QED BY <1>3, <1>5, <2>1
  <1>6. CASE /\ Return(b, d, "DONE")
             /\ client' = [client EXCEPT !.body = "reading"]
    <2>1. ngx' = q /\ ctx' = d
      BY <1>0, <1>6, HoldDone_Frame
         DEF Return, ngx_http_read_client_request_body
    <2>2. d.state = "INIT" /\ d.calls = c.calls /\ d.fault = c.fault
      BY <1>0, SetState_Frame
    <2>3. client'.body = "reading"
      BY <1>6 DEF Client
    <2> HIDE DEF d
    <2>4. ReplyInv(q, d)
      BY <2>2 DEF Ready, ReplyInv
    <2>5. AwakeInv(q, d)
      BY <2>2 DEF Ready, AwakeInv, ActiveInv
    <2>6. WakeInv(q, d) /\ FreedInv(q, d, m)
      BY <2>2, <2>5 DEF Ready, WakeInv, FreedInv
    <2> QED BY <1>2, <2>1, <2>2, <2>3, <2>4, <2>6 DEF Settled
  <1> QED BY <1>1, <1>3, <1>4, <1>5, <1>6

-----------------------------------------------------------------------------
(* The steps of the request. *)
\* While a run that NGX_DONE put off is waited for, the body is being read.
BodyInv == Running(ngx) /\ ctx.state = "INIT" => client.body = "reading"

XInv == IInv /\ Settled(ngx, ctx, client.method) /\ BodyInv

\* A step of the handler, for the contract of the plugin.
Inside ==
    /\ Running(ngx) /\ ctx.state \in {"NONE", "WAIT", "DONE"}
    /\ \/ ctx'.calls = ctx.calls /\ ~Running(ngx')
       \/ ctx'.calls = ctx.calls /\ ctx'.state = "ERROR"
       \/ /\ ctx'.calls = ctx.calls + 1
          /\ ctx.state = "NONE" \/ (ctx.state = "WAIT" /\ Finished(ngx))
          /\ ctx'.state \in {"WAIT", "DONE", "ERROR"}
          /\ ctx'.state = "WAIT" => Running(ngx') /\ ngx'.weh = "empty"
       \/ /\ ctx.state = "NONE" /\ ctx'.state = "INIT"
          /\ ctx'.calls = ctx.calls
       \/ /\ ctx.state = "WAIT" /\ ctx' = ctx /\ Running(ngx')
          /\ ngx'.created = ngx.created /\ ngx'.sub = ngx.sub
       \/ /\ ctx.state = "DONE" /\ ctx'.state = "DONE"
          /\ ctx'.calls = ctx.calls

LEMMA Handler_Settled ==
    ASSUME XInv, ngx_http_adfront_handler, NEW m, m = client.method
    PROVE  /\ Settled(ngx', ctx', m) /\ client'.method = m /\ BodyInv'
           /\ Inside /\ ngx'.sent >= ngx.sent
  <1> DEFINE p == PopPosted(ngx)
             q == [p EXCEPT !.weh = "empty"]
  <1>1. /\ ngx.live /\ ngx.posted # <<>> /\ ngx.weh = "run_phases"
        /\ Head(ngx.posted) = Main
    BY DEF ngx_http_adfront_handler, NextPosted
  <1>2. /\ Good(ngx, ctx) /\ Sound(ngx) /\ NgxRequestOK(ngx)
        /\ ctx \in Context /\ client \in Client
        /\ ContextInv(ctx) /\ Unstarted
        /\ ReplyInv(ngx, ctx) /\ WakeInv(ngx, ctx) /\ FreedInv(ngx, ctx, m)
    BY DEF XInv, IInv, Good, Sound, Settled
  <1>3. Running(ngx) /\ AwakeInv(ngx, ctx)
    BY <1>1, <1>2 DEF Running, WakeInv
  <1>4. Sound(q)
    <2>1. Sound(p)
      BY <1>1, <1>2, PopPosted_Sound
    <2> HIDE DEF p
    <2> QED BY <2>1, SetWeh_Sound DEF WriteHandlers
  <1>5. /\ Keeps(q, ngx) /\ q.live /\ q.data = ngx.data
        /\ q.weh = "empty"
        /\ \A r : Queued(ngx, r) /\ r # Main => Queued(q, r)
    <2>1. /\ Keeps(p, ngx) /\ p.live = ngx.live /\ p.data = ngx.data
          /\ p.postponed = ngx.postponed /\ p.buffered = ngx.buffered
          /\ p.weh = ngx.weh
          /\ \A r : Queued(ngx, r) /\ r # Head(ngx.posted) => Queued(p, r)
      BY <1>1, <1>2, PopPosted_Frame
    <2>2. NgxRequestOK(p)
      BY <1>1, <1>2, PopPosted_Sound DEF Sound
    <2> HIDE DEF p
    <2>3. /\ Keeps(q, p) /\ q.live = p.live /\ q.data = p.data
          /\ q.postponed = p.postponed /\ q.buffered = p.buffered
          /\ q.weh = "empty" /\ q.posted = p.posted
      BY <2>2, SetWeh_Frame
    <2> HIDE DEF q
    <2> QED BY <1>1, <2>1, <2>3 DEF Keeps, Queued
  <1>6. \/ /\ ctx.state = "NONE"
           /\ Return(q, Failed(ctx), "ERROR") /\ UNCHANGED client
        \/ ctx.state = "NONE" /\ plugin_init_request(q, ctx)
        \/ /\ ctx.state = "WAIT"
           /\ plugin_check_subrequest(q, ctx) /\ UNCHANGED client
        \/ /\ ctx.state = "DONE"
           /\ plugin_done_request(q, ctx) /\ UNCHANGED client
    BY DEF ngx_http_adfront_handler
  <1> HIDE DEF p, q
  <1>7. Good(q, ctx) /\ NgxRequestOK(q) /\ ReplyInv(q, ctx)
    BY <1>2, <1>4, <1>5, Reply_Keeps DEF Good, Sound, Keeps
  <1>8. /\ q.sent \in Nat /\ ngx.sent = q.sent /\ ctx.calls \in Nat
        /\ q.created \in Nat /\ q.data \in 0..q.created
    BY <1>2, <1>5, <1>7, Fields, ContextFields DEF Keeps, NgxRequestOK
  <1>9. IInv'
    BY Handler_Inv DEF XInv
  <1>10. ngx'.sent \in Nat /\ ctx'.calls \in Nat /\ ngx'.live \in BOOLEAN
    BY <1>9, Fields, ContextFields DEF IInv, Good, Sound
  <1>11. ctx.state \in {"NONE", "WAIT"} => ngx.sent = 0 /\ ngx.outq = 0
    BY <1>2 DEF ReplyInv
  <1>12. ASSUME Ran(ctx, m),
                ctx.state = "NONE" \/ (ctx.state = "WAIT" /\ Finished(ngx))
         PROVE  /\ Settled(ngx', ctx', m) /\ BodyInv'
                /\ Inside /\ ngx'.sent >= ngx.sent
    <2>1. Settled(ngx', ctx', m)
      BY <1>12 DEF Ran, Turn
    <2>2. BodyInv' /\ ctx'.state \in {"WAIT", "DONE", "ERROR"}
      BY <1>12 DEF BodyInv, Ran
    <2>3. ngx'.sent >= ngx.sent
      BY <1>10, <1>11, <1>12
    <2>4. CASE Turn(ctx, 1, m)
      BY <1>3, <1>12, <2>1, <2>2, <2>3, <2>4 DEF Turn, Inside, Running
    <2>5. CASE Turn(ctx, 0, m) /\ ctx'.state = "ERROR"
      BY <1>3, <1>8, <1>12, <2>1, <2>2, <2>3, <2>5 DEF Turn, Inside
    <2> QED BY <1>12, <2>4, <2>5 DEF Ran
  <1>13. CASE /\ ctx.state = "NONE"
              /\ Return(q, Failed(ctx), "ERROR") /\ UNCHANGED client
    <2> DEFINE f == Failed(ctx)
    <2>1. f.fault /\ f.state = "NONE" /\ f.calls = ctx.calls
      BY <1>2, <1>13, Failed_Frame
    <2>2. Return(q, f, "ERROR")
      BY <1>13
    <2> HIDE DEF f
    <2>3. ReplyInv(q, f)
      BY <1>7, <1>13, <2>1 DEF ReplyInv
    <2>4. f.calls = 0
      BY <1>2, <1>13, <2>1 DEF FreedInv
    <2>5. /\ Settled(ngx', ctx', m) /\ ctx' = f
          /\ ngx'.live /\ ngx'.weh = "terminate" /\ Keeps(ngx', q)
      BY <1>5, <1>7, <2>1, <2>2, <2>3, <2>4, ErrorReturn_Settled
    <2>6. BodyInv' /\ ~Running(ngx')
      BY <2>1, <2>5 DEF BodyInv, Running
    <2> QED BY <1>3, <1>8, <1>13, <2>1, <2>5, <2>6 DEF Keeps, Inside
  <1>14. CASE ctx.state = "NONE" /\ plugin_init_request(q, ctx)
    <2>1. /\ NoContext(ctx) /\ q.created = 0 /\ ctx.calls = 0
          /\ client.body # "reading"
      BY <1>2, <1>5, <1>14 DEF ContextInv, Unstarted, FreedInv, Keeps
    <2>2. Ready(q)
      BY <1>5, <1>8, <1>11, <1>14, <2>1 DEF Ready, Finished, Keeps, Main
    <2>3. /\ Settled(ngx', ctx', m) /\ client'.method = m
          /\ \/ Ran(ctx, m)
             \/ /\ ngx' = q /\ ctx'.state = "INIT" /\ ctx'.calls = ctx.calls
                /\ client'.body = "reading"
      BY <1>2, <1>7, <1>14, <2>1, <2>2, InitRequest_Turn
    <2>4. CASE Ran(ctx, m)
      BY <1>12, <1>14, <2>3, <2>4
    <2>5. CASE /\ ngx' = q /\ ctx'.state = "INIT"
               /\ ctx'.calls = ctx.calls /\ client'.body = "reading"
      <3>1. BodyInv'
        BY <2>5 DEF BodyInv
      <3> QED BY <1>3, <1>8, <1>14, <2>3, <2>5, <3>1 DEF Inside
    <2> QED BY <2>3, <2>4, <2>5
  <1>15. CASE /\ ctx.state = "WAIT"
              /\ plugin_check_subrequest(q, ctx) /\ UNCHANGED client
    <2>1. Owned(ctx)
      BY <1>2, <1>15 DEF ContextInv
    <2>2. ActiveInv(q, ctx) /\ FreedInv(q, ctx, m)
      BY <1>2, <1>3, <1>5, <1>15 DEF AwakeInv, ActiveInv, FreedInv, Keeps
    <2>3. \A i \in 1..q.created : q.sub[i] = "posted" => Queued(q, i)
      <3>1. \A i \in 1..q.created : i # Main
        BY <1>8 DEF Main
      <3> QED BY <1>3, <1>5, <3>1 DEF AwakeInv, Keeps
    <2>4. /\ Settled(ngx', ctx', m)
          /\ \/ Ran(ctx, m) /\ Finished(q)
             \/ ngx' = q /\ ctx' = ctx
      BY <1>5, <1>7, <1>15, <2>1, <2>2, <2>3, CheckSubrequest_Turn
    <2>5. CASE Ran(ctx, m) /\ Finished(q)
      <3>1. Finished(ngx)
        BY <1>5, <2>5 DEF Finished, Keeps, SubDone
      <3> QED BY <1>12, <1>15, <2>5, <3>1
    <2>6. CASE ngx' = q /\ ctx' = ctx
      <3>1. BodyInv' /\ Running(ngx')
        BY <1>5, <1>15, <2>6 DEF BodyInv, Running
      <3> QED BY <1>3, <1>5, <1>8, <1>15, <2>4, <2>6, <3>1 DEF Inside, Keeps
    <2> QED BY <2>4, <2>5, <2>6
  <1>16. CASE /\ ctx.state = "DONE"
              /\ plugin_done_request(q, ctx) /\ UNCHANGED client
    <2>1. Replying(q, ctx, FALSE)
      <3>1. q.data # Main => Queued(q, q.data)
        BY <1>3, <1>5, <1>16 DEF AwakeInv, ActiveInv
      <3>2. Finished(q) /\ q.sent + q.outq <= 1
        BY <1>7, <1>16 DEF ReplyInv
      <3>3. ~ctx.fault => q.sent + q.outq = 1
        BY <1>2, <1>5, <1>16 DEF FreedInv, Keeps
      <3>4. q.outq \in Nat
        BY <1>7, Fields
      <3> QED BY <1>8, <1>16, <3>1, <3>2, <3>3, <3>4 DEF Replying
    <2>2. Write(q, ctx, FALSE)
      BY <1>16 DEF plugin_done_request
    <2>3. Turn(ctx, 0, m) /\ ctx'.state = "DONE" /\ ngx'.sent >= q.sent
      BY <1>5, <1>7, <2>1, <2>2, Write_Turn
    <2>4. BodyInv'
      BY <2>3 DEF BodyInv
    <2> QED BY <1>3, <1>8, <1>16, <2>3, <2>4 DEF Turn, Inside
  <1> QED BY <1>6, <1>13, <1>14, <1>15, <1>16

\* A step of nginx: the handler is not run and the plugin not called.
Aside ==
    /\ ctx'.state = ctx.state /\ ctx'.calls = ctx.calls
    /\ ctx'.subrequests = ctx.subrequests
    /\ Running(ngx') => Running(ngx)
    /\ ngx'.created = ngx.created
    /\ \/ \A k \in 1..ngx.created : SubDone(ngx', k) <=> SubDone(ngx, k)
       \/ \E i \in 1..ngx.created :
            /\ SubDone(ngx', i)
            /\ \A k \in 1..ngx.created \ {i} : ngx'.sub[k] = ngx.sub[k]

\* Only the response is written by the writer.
LEMMA WriterDue ==
    ASSUME NEW q, NEW c, NEW m, NgxRequestOK(q), q.live, q.weh = "writer",
           c \in Context, Settled(q, c, m)
    PROVE  Replying(q, c, FALSE)
  <1>1. AwakeInv(q, c) /\ ReplyInv(q, c) /\ FreedInv(q, c, m)
    BY DEF Settled, WakeInv, Running
  <1>2. c.state = "DONE"
    BY <1>1, ContextFields DEF AwakeInv, States
  <1>3. q.data # Main => Queued(q, q.data)
    BY <1>1, <1>2 DEF AwakeInv, ActiveInv
  <1>4. Finished(q) /\ q.sent + q.outq <= 1
    BY <1>1, <1>2 DEF ReplyInv
  <1>5. ~c.fault => q.sent + q.outq = 1
    BY <1>1, <1>2 DEF FreedInv
  <1>6. q.sent \in Nat /\ q.outq \in Nat
    BY Fields
  <1> QED BY <1>2, <1>3, <1>4, <1>5, <1>6 DEF Replying

\* What the writer does to the request, seen from outside.
LEMMA Writer_Frame ==
    ASSUME NEW q, Sound(q), q.live, NEW w \in Writes
    PROVE  LET p == ngx_http_writer(q, w)
           IN  p.created = q.created /\ p.sub = q.sub
  <1> DEFINE f == ngx_http_output_filter(q, FALSE, w)
             e == [f EXCEPT !.weh = "empty"]
             p == ngx_http_writer(q, w)
  <1>1. Sound(f) /\ f.created = q.created /\ f.sub = q.sub
    BY OutputFilter_Sound
  <1>2. p = IF w = "ERROR" THEN ngx_http_terminate_request(f)
            ELSE IF f.buffered \/ Postponed(f) THEN f
            ELSE ngx_http_finalize_request(e, "OK")
    BY DEF ngx_http_writer
  <1> HIDE DEF f, p
  <1>3. NgxRequestOK(f)
    BY <1>1 DEF Sound
  <1>4. ASSUME p = ngx_http_terminate_request(f)
       PROVE  p.created = q.created /\ p.sub = q.sub
    BY <1>1, <1>3, <1>4, Terminate_Frame DEF Keeps
  <1>5. ASSUME p = f
       PROVE  p.created = q.created /\ p.sub = q.sub
    BY <1>1, <1>5
  <1>6. ASSUME p = ngx_http_finalize_request(e, "OK")
       PROVE  p.created = q.created /\ p.sub = q.sub
    <2>1. e.created = f.created /\ e.sub = f.sub /\ e \in NgxRequest
      BY <1>3 DEF NgxRequestOK, NgxRequest, WriteHandlers
    <2> HIDE DEF e
    <2>2. /\ p.created = e.created /\ p.sub = e.sub
      BY <1>6, <2>1
         DEF ngx_http_finalize_request, ngx_http_close_request, NgxRequest
    <2> QED BY <1>1, <2>1, <2>2
  <1> QED BY <1>2, <1>4, <1>5, <1>6 DEF p

\* The writer's step, after the request has been taken from the queue or not.
LEMMA WriterStep_Settled ==
    ASSUME NEW q, NEW m, NEW w \in Writes, Good(q, ctx), q.live,
           q.weh = "writer", Replying(q, ctx, FALSE), Running(ngx),
           Keeps(q, ngx), ngx' = ngx_http_writer(q, w),
           ctx' = IF w = "ERROR" THEN Failed(ctx) ELSE ctx
    PROVE  Settled(ngx', ctx', m) /\ Aside /\ ngx'.sent >= ngx.sent
  <1>1. Settled(ngx', ctx', m) /\ ngx'.sent >= q.sent
    BY Writer_Settled
  <1>2. ngx'.created = q.created /\ ngx'.sub = q.sub
    BY Writer_Frame DEF Good
  <1>3. /\ ctx'.state = ctx.state /\ ctx'.calls = ctx.calls
        /\ ctx'.subrequests = ctx.subrequests
    BY Failed_Frame DEF Good
  <1> QED BY <1>1, <1>2, <1>3 DEF Aside, Keeps, SubDone

LEMMA RunMain_Settled ==
    ASSUME XInv, RunMain, NEW m, m = client.method
    PROVE  Settled(ngx', ctx', m) /\ Aside /\ ngx'.sent >= ngx.sent
  <1> DEFINE q == PopPosted(ngx)
  <1>1. /\ ngx.live /\ ngx.posted # <<>> /\ Head(ngx.posted) = Main
    BY DEF RunMain, NextPosted
  <1>2. /\ Good(ngx, ctx) /\ Sound(ngx) /\ NgxRequestOK(ngx)
        /\ ctx \in Context /\ Settled(ngx, ctx, m)
        /\ ReplyInv(ngx, ctx) /\ WakeInv(ngx, ctx) /\ FreedInv(ngx, ctx, m)
    BY DEF XInv, IInv, Good, Sound, Settled
  <1>3. Sound(q)
    BY <1>1, <1>2, PopPosted_Sound
  <1>4. /\ Keeps(q, ngx) /\ q.live = ngx.live /\ q.data = ngx.data
        /\ q.postponed = ngx.postponed /\ q.buffered = ngx.buffered
        /\ q.weh = ngx.weh
        /\ \A r : Queued(ngx, r) /\ r # Head(ngx.posted) => Queued(q, r)
    BY <1>1, <1>2, PopPosted_Frame
  <1>5. \/ /\ ngx.weh = "writer"
           /\ \E w \in WriteResults(q, FALSE) :
                /\ ngx' = ngx_http_writer(q, w)
                /\ ctx' = IF w = "ERROR" THEN Failed(ctx) ELSE ctx
        \/ ngx.weh = "empty" /\ ngx' = q /\ ctx' = ctx
        \/ /\ ngx.weh = "terminate"
           /\ ngx' = ngx_http_terminate_handler(q) /\ ctx' = ctx
    BY DEF RunMain
  <1> HIDE DEF q
  <1>6. Good(q, ctx) /\ NgxRequestOK(q)
    BY <1>2, <1>3, <1>4 DEF Good, Sound, Keeps
  <1>7. CASE ngx.weh = "writer" /\ \E w \in WriteResults(q, FALSE) :
               /\ ngx' = ngx_http_writer(q, w)
               /\ ctx' = IF w = "ERROR" THEN Failed(ctx) ELSE ctx
    <2>1. PICK w \in WriteResults(q, FALSE) :
            /\ ngx' = ngx_http_writer(q, w)
            /\ ctx' = IF w = "ERROR" THEN Failed(ctx) ELSE ctx
      BY <1>7
    <2>2. w \in Writes
      BY DEF WriteResults, OutputResults, Writes
    <2>3. Replying(ngx, ctx, FALSE)
      BY <1>1, <1>2, <1>7, WriterDue
    <2>4. Replying(q, ctx, FALSE)
      BY <1>1, <1>4, <2>3 DEF Replying, Keeps, Finished, SubDone
    <2> QED BY <1>1, <1>4, <1>6, <1>7, <2>1, <2>2, <2>4, WriterStep_Settled
            DEF Running
  <1>8. CASE ngx.weh = "empty" /\ ngx' = q /\ ctx' = ctx
    <2>1. AwakeInv(ngx, ctx)
      BY <1>1, <1>2, <1>8 DEF WakeInv, Running
    <2>2. \A i \in 1..q.created : q.sub[i] = "posted" => Queued(q, i)
      <3>1. \A i \in 1..q.created : i # Main
        BY <1>6, Fields DEF Main
      <3> QED BY <1>1, <1>4, <2>1, <3>1 DEF AwakeInv, Keeps
    <2>3. ActiveInv(q, ctx)
      BY <1>1, <1>4, <2>1 DEF AwakeInv, ActiveInv, Keeps
    <2>4. AwakeInv(q, ctx)
      BY <1>4, <1>8, <2>1, <2>2, <2>3
         DEF AwakeInv, Keeps, Writable, AllDone, SubDone
    <2>5. WakeInv(q, ctx)
      BY <1>4, <1>8, <2>4 DEF WakeInv
    <2>6. ReplyInv(q, ctx)
      BY <1>2, <1>4, Reply_Keeps
    <2>7. FreedInv(q, ctx, m)
      BY <1>1, <1>2, <1>4, <1>8 DEF FreedInv, Keeps
    <2>8. ngx.sent \in Nat
      BY <1>2, Fields
    <2> QED BY <1>1, <1>4, <1>8, <2>5, <2>6, <2>7, <2>8
            DEF Settled, Aside, Running, Keeps, SubDone
  <1>9. CASE /\ ngx.weh = "terminate"
             /\ ngx' = ngx_http_terminate_handler(q) /\ ctx' = ctx
    <2> DEFINE p == ngx_http_terminate_handler(q)
    <2>1. /\ p.created = q.created /\ p.sub = q.sub
          /\ p.sent = q.sent /\ p.outq = q.outq /\ ~p.live
      BY <1>6 DEF ngx_http_terminate_handler, NgxRequestOK, NgxRequest
    <2>2. ngx' = p /\ ctx' = ctx
      BY <1>9
    <2> HIDE DEF p
    <2>3. Keeps(p, ngx)
      BY <1>4, <2>1 DEF Keeps
    <2>4. ReplyInv(p, ctx)
      BY <1>2, <2>3, Reply_Keeps
    <2>5. WakeInv(p, ctx)
      BY <2>1 DEF WakeInv, Running
    <2>6. FreedInv(p, ctx, m)
      BY <1>2, <1>9, <2>3 DEF FreedInv, Keeps
    <2>7. ngx.sent \in Nat
      BY <1>2, Fields
    <2> QED BY <2>1, <2>2, <2>3, <2>4, <2>5, <2>6, <2>7
            DEF Settled, Aside, Running, Keeps, SubDone
  <1> QED BY <1>5, <1>7, <1>8, <1>9

LEMMA NoUpstream_Frame ==
    ASSUME NEW q, NgxRequestOK(q), NEW i
    PROVE  LET p == [q EXCEPT !.noup = @ \cup {i}]
           IN  /\ Keeps(p, q) /\ p.live = q.live /\ p.data = q.data
               /\ p.weh = q.weh /\ p.posted = q.posted
  BY DEF NgxRequestOK, NgxRequest, Keeps

\* A subrequest that is done has posted its parent, whose turn it is.
LEMMA SubrequestFinished_Settled ==
    ASSUME NEW q, NEW c, NEW m, Sound(q), q.live,
           NEW i \in 1..q.created, q.sub[i] # "done",
           c.state \in {"WAIT", "DONE"}, ReplyInv(q, c), FreedInv(q, c, m),
           \A k \in 1..q.created : k # i /\ q.sub[k] = "posted" => Queued(q, k),
           q.data # i => ActiveInv(q, c)
    PROVE  LET p == SubrequestFinished(q, i)
           IN  /\ Settled(p, c, m) /\ p.sent = q.sent
               /\ p.created = q.created /\ SubDone(p, i)
               /\ \A k \in 1..q.created \ {i} : p.sub[k] = q.sub[k]
  <1> DEFINE r == plugin_subrequest_post_handler(q)
             p == ngx_http_finalize_subrequest(r, i)
  <1>1. Sound(r)
    BY SetWeh_Sound DEF plugin_subrequest_post_handler, WriteHandlers
  <1>2. /\ Keeps(r, q) /\ r.live = q.live /\ r.data = q.data
        /\ r.postponed = q.postponed /\ r.buffered = q.buffered
        /\ r.weh = "run_phases" /\ r.posted = q.posted
    BY SetWeh_Frame DEF plugin_subrequest_post_handler, Sound
  <1>3. p = SubrequestFinished(q, i)
    BY DEF SubrequestFinished
  <1> HIDE DEF r
  <1>4. NgxRequestOK(r) /\ r.live /\ i \in 1..r.created /\ r.sub[i] # "done"
    BY <1>1, <1>2 DEF Sound, Keeps
  <1>5. /\ p.live
        /\ p.created = r.created /\ p.sent = r.sent /\ p.weh = r.weh
        /\ p.posted = Append(r.posted, Main)
        /\ p.sub[i] \in {"final", "done"}
        /\ \A k \in 1..r.created \ {i} : p.sub[k] = r.sub[k]
    BY <1>1, <1>4, FinalizeSubrequest_Sound
  <1>6. /\ p.outq = r.outq /\ p.sent = r.sent
        /\ p.buffered = r.buffered /\ p.live = r.live
        /\ p.data = IF r.data = i THEN Main ELSE r.data
    BY <1>4, FinalizeSubrequest_Frame
  <1> HIDE DEF p
  <1>7. Queued(p, Main) /\ \A x : Queued(q, x) => Queued(p, x)
    <2>1. Main \in Nat
      BY DEF Main
    <2>2. Queued(p, Main) /\ \A x : Queued(r, x) => Queued(p, x)
      BY <1>4, <1>5, <2>1, Append_Queued
    <2> QED BY <1>2, <2>2 DEF Queued
  <1>8. /\ p.created = q.created /\ p.sent = q.sent /\ p.outq = q.outq
        /\ p.weh = "run_phases" /\ SubDone(p, i)
        /\ \A k \in 1..q.created \ {i} : p.sub[k] = q.sub[k]
        /\ p.data = IF q.data = i THEN Main ELSE q.data
    BY <1>2, <1>5, <1>6 DEF Keeps, SubDone
  <1>9. ReplyInv(p, c)
    BY <1>8 DEF ReplyInv, Finished, SubDone
  <1>10. \A k \in 1..p.created : p.sub[k] = "posted" => Queued(p, k)
    BY <1>7, <1>8 DEF SubDone
  <1>11. ActiveInv(p, c)
    <2>1. q.data \in 0..q.created /\ q.created \in Nat
      BY Fields DEF Sound, NgxRequestOK
    <2> SUFFICES ASSUME p.data # Main
                 PROVE  ActiveInv(p, c)
      BY DEF ActiveInv
    <2>2. p.data = q.data /\ q.data # i /\ q.data # Main
      BY <1>8
    <2>3. q.data \in 1..q.created \ {i}
      BY <2>1, <2>2 DEF Main
    <2> QED BY <1>7, <1>8, <2>2, <2>3 DEF ActiveInv
  <1>12. AwakeInv(p, c)
    BY <1>7, <1>8, <1>10, <1>11 DEF AwakeInv
  <1>13. WakeInv(p, c)
    BY <1>8, <1>12 DEF WakeInv
  <1>14. FreedInv(p, c, m)
    BY <1>5, <1>8 DEF FreedInv
  <1> QED BY <1>3, <1>8, <1>9, <1>13, <1>14 DEF Settled

\* Subrequests exist only after the plugin has asked for them.
LEMMA Asked ==
    ASSUME XInv, Running(ngx), ngx.created # 0
    PROVE  ctx.state \in {"WAIT", "DONE"}
  <1>1. ctx.state # "NONE"
    BY DEF XInv, IInv, Unstarted
  <1>2. ctx.state # "INIT"
    BY DEF XInv, IInv, Unstarted, BodyInv
  <1>3. ctx.state # "ERROR"
    BY DEF XInv, Settled, WakeInv, AwakeInv
  <1> QED BY <1>1, <1>2, <1>3, ContextFields DEF XInv, IInv, Good, States

LEMMA RunSubrequest_Settled ==
    ASSUME XInv, NEW i \in 1..ngx.created, RunSubrequest(i),
           NEW m, m = client.method
    PROVE  Settled(ngx', ctx', m) /\ Aside /\ ngx'.sent >= ngx.sent
  <1> DEFINE q == PopPosted(ngx)
             n == [q EXCEPT !.noup = @ \cup {i}]
             u == [q EXCEPT !.sub[i] = "upstream"]
  <1>1. /\ ngx.live /\ ngx.posted # <<>> /\ Head(ngx.posted) = i
        /\ ctx' = ctx
    BY DEF RunSubrequest, NextPosted
  <1>2. /\ Good(ngx, ctx) /\ Sound(ngx) /\ NgxRequestOK(ngx)
        /\ ReplyInv(ngx, ctx) /\ WakeInv(ngx, ctx) /\ FreedInv(ngx, ctx, m)
        /\ ngx.created \in Nat /\ ngx.sent \in Nat
    BY Fields DEF XInv, IInv, Good, Sound, Settled
  <1>3. Sound(q)
    BY <1>1, <1>2, PopPosted_Sound
  <1>4. /\ Keeps(q, ngx) /\ q.live = ngx.live /\ q.data = ngx.data
        /\ q.postponed = ngx.postponed /\ q.buffered = ngx.buffered
        /\ q.weh = ngx.weh
        /\ \A r : Queued(ngx, r) /\ r # Head(ngx.posted) => Queued(q, r)
    BY <1>1, <1>2, PopPosted_Frame
  <1>5. i # Main
    BY DEF Main
  <1>6. Running(ngx) /\ AwakeInv(ngx, ctx)
    <2>1. ngx.posted # <<Main>>
      BY <1>1, <1>5
    <2> QED BY <1>1, <1>2, <2>1 DEF WakeInv, Running
  <1>7. ctx.state \in {"WAIT", "DONE"}
    BY <1>2, <1>6, Asked
  <1>8. \/ ngx.sub[i] = "posted" /\ ngx' = u
        \/ /\ ngx.sub[i] \in {"posted", "final"}
           /\ ngx' = SubrequestFinished(q, i)
        \/ ngx.sub[i] = "posted" /\ ngx' = SubrequestFinished(n, i)
    BY DEF RunSubrequest
  <1>9. ReplyInv(q, ctx) /\ FreedInv(q, ctx, m)
    BY <1>1, <1>2, <1>4, <1>6, Reply_Keeps DEF FreedInv, Keeps, Running
  <1>10. \A k \in 1..ngx.created :
           k # i /\ ngx.sub[k] = "posted" => Queued(q, k)
    BY <1>1, <1>4, <1>6 DEF AwakeInv
  <1>11. ngx.data # i => ActiveInv(q, ctx)
    BY <1>1, <1>4, <1>6 DEF AwakeInv, ActiveInv, Keeps
  <1> HIDE DEF q
  <1>12. CASE ngx.sub[i] = "posted" /\ ngx' = u
    <2>1. ctx.state = "WAIT"
      BY <1>2, <1>7, <1>12 DEF ReplyInv, Finished, SubDone
    <2>2. /\ u.created = q.created /\ u.sent = q.sent /\ u.outq = q.outq
          /\ u.live = q.live /\ u.weh = q.weh /\ u.posted = q.posted
          /\ u.data = q.data
          /\ u.sub = [q.sub EXCEPT ![i] = "upstream"]
      BY <1>3 DEF Sound, NgxRequestOK, NgxRequest
    <2>3. /\ u.sub[i] = "upstream"
          /\ \A k \in 1..ngx.created \ {i} : u.sub[k] = ngx.sub[k]
      BY <1>2, <1>4, <2>2, Fields DEF Keeps
    <2>4. \A k \in 1..ngx.created : SubDone(u, k) <=> SubDone(ngx, k)
      BY <1>12, <2>3 DEF SubDone
    <2> HIDE DEF u
    <2>5. ReplyInv(u, ctx)
      BY <1>2, <1>4, <2>1, <2>2, <2>4 DEF ReplyInv, Keeps
    <2>6. \A k \in 1..u.created : u.sub[k] = "posted" => Queued(u, k)
      BY <1>4, <1>10, <2>2, <2>3 DEF Keeps, Queued
    <2>7. ActiveInv(u, ctx)
      <3>1. ngx.data \in 0..ngx.created
        BY <1>2 DEF NgxRequestOK
      <3>2. ngx.data # Main => ngx.data \in 1..ngx.created
        BY <1>2, <3>1 DEF Main
      <3> QED BY <1>4, <1>6, <2>1, <2>2, <2>3, <3>2 DEF AwakeInv, ActiveInv
    <2>8. ~AllDone(ngx, ctx.subrequests) => ~AllDone(u, ctx.subrequests)
      <3>1. \A j \in DOMAIN ctx.subrequests :
              ctx.subrequests[j] \in 1..ngx.created
        BY <1>2, ElementOfSeq, LenProperties DEF Good
      <3> QED BY <2>4, <3>1 DEF AllDone
    <2>9. u.weh = "run_phases" => Queued(u, Main)
      <3>1. ngx.weh = "run_phases" => Queued(q, Main)
        BY <1>1, <1>4, <1>5, <1>6 DEF AwakeInv
      <3> QED BY <1>4, <2>2, <3>1 DEF Queued
    <2>10. AwakeInv(u, ctx)
      BY <1>4, <1>6, <2>1, <2>2, <2>6, <2>7, <2>8, <2>9 DEF AwakeInv
    <2>11. WakeInv(u, ctx)
      BY <1>4, <1>6, <2>2, <2>10 DEF WakeInv, Running
    <2>12. FreedInv(u, ctx, m)
      BY <1>9, <1>1, <1>4, <2>1, <2>2 DEF FreedInv
    <2>13. Settled(u, ctx, m)
      BY <2>5, <2>11, <2>12 DEF Settled
    <2> QED BY <1>1, <1>2, <1>4, <1>6, <1>12, <2>2, <2>4, <2>13
            DEF Aside, Keeps
  <1>13. ASSUME NEW p, Sound(p), Keeps(p, q), p.live = q.live,
                p.data = q.data, p.weh = q.weh, p.posted = q.posted,
                ngx.sub[i] # "done", ngx' = SubrequestFinished(p, i)
         PROVE  Settled(ngx', ctx', m) /\ Aside /\ ngx'.sent >= ngx.sent
    <2>1. p.created = ngx.created /\ p.sub = ngx.sub /\ p.sent = ngx.sent
      BY <1>4, <1>13 DEF Keeps
    <2>2. ReplyInv(p, ctx) /\ FreedInv(p, ctx, m)
      BY <1>1, <1>4, <1>6, <1>9, <1>13, Reply_Keeps
         DEF FreedInv, Keeps, Running
    <2>3. \A k \in 1..p.created :
            k # i /\ p.sub[k] = "posted" => Queued(p, k)
      BY <1>10, <1>13, <2>1 DEF Queued
    <2>4. p.data # i => ActiveInv(p, ctx)
      BY <1>4, <1>11, <1>13 DEF ActiveInv, Keeps, Queued
    <2>5. /\ Settled(ngx', ctx, m) /\ ngx'.sent = p.sent
          /\ ngx'.created = p.created /\ SubDone(ngx', i)
          /\ \A k \in 1..p.created \ {i} : ngx'.sub[k] = p.sub[k]
      <3>1. p.live /\ i \in 1..p.created /\ p.sub[i] # "done"
        BY <1>1, <1>4, <1>13, <2>1
      <3> QED BY <1>7, <1>13, <2>2, <2>3, <2>4, <3>1,
                 SubrequestFinished_Settled
    <2> QED BY <1>1, <1>2, <1>6, <2>1, <2>5 DEF Aside
  <1>14. CASE /\ ngx.sub[i] \in {"posted", "final"}
              /\ ngx' = SubrequestFinished(q, i)
    BY <1>3, <1>13, <1>14 DEF Keeps
  <1>15. CASE ngx.sub[i] = "posted" /\ ngx' = SubrequestFinished(n, i)
    <2>1. /\ Keeps(n, q) /\ n.live = q.live /\ n.data = q.data
          /\ n.weh = q.weh /\ n.posted = q.posted
      BY <1>3, NoUpstream_Frame DEF Sound
    <2>2. Sound(n)
      BY <1>2, <1>3, <1>4, NoUpstream_Sound DEF Keeps
    <2> HIDE DEF n
    <2> QED BY <1>13, <1>15, <2>1, <2>2
  <1> QED BY <1>8, <1>12, <1>14, <1>15

LEMMA UpstreamDone_Settled ==
    ASSUME XInv, NEW i \in 1..ngx.created, UpstreamDone(i),
           NEW m, m = client.method
    PROVE  Settled(ngx', ctx', m) /\ Aside /\ ngx'.sent >= ngx.sent
  <1>1. /\ ngx.live /\ ngx.posted = <<>> /\ ngx.sub[i] = "upstream"
        /\ ngx' = SubrequestFinished(ngx, i) /\ ctx' = ctx
    BY DEF UpstreamDone, EventLoop
  <1>2. /\ Sound(ngx) /\ ngx.created \in Nat /\ ngx.sent \in Nat
        /\ ReplyInv(ngx, ctx) /\ WakeInv(ngx, ctx) /\ FreedInv(ngx, ctx, m)
    BY Fields DEF XInv, IInv, Good, Sound, Settled
  <1>3. Running(ngx) /\ AwakeInv(ngx, ctx)
    <2>1. ngx.posted # <<Main>>
      BY <1>1
    <2> QED BY <1>1, <1>2, <2>1 DEF WakeInv, Running
  <1>4. ctx.state \in {"WAIT", "DONE"}
    BY <1>2, <1>3, Asked
  <1>5. /\ Settled(ngx', ctx, m) /\ ngx'.sent = ngx.sent
        /\ ngx'.created = ngx.created /\ SubDone(ngx', i)
        /\ \A k \in 1..ngx.created \ {i} : ngx'.sub[k] = ngx.sub[k]
    BY <1>1, <1>2, <1>3, <1>4, SubrequestFinished_Settled DEF AwakeInv
  <1> QED BY <1>1, <1>2, <1>3, <1>5 DEF Aside

LEMMA ClientWritable_Settled ==
    ASSUME XInv, ClientWritable, NEW m, m = client.method
    PROVE  Settled(ngx', ctx', m) /\ Aside /\ ngx'.sent >= ngx.sent
  <1>1. PICK w \in WriteResults(ngx, FALSE) :
          /\ ngx' = ngx_http_writer(ngx, w)
          /\ ctx' = IF w = "ERROR" THEN Failed(ctx) ELSE ctx
    BY DEF ClientWritable
  <1>2. w \in Writes /\ ngx.live /\ ngx.weh = "writer"
    BY DEF ClientWritable, EventLoop, WriteResults, OutputResults, Writes
  <1>3. /\ Good(ngx, ctx) /\ NgxRequestOK(ngx) /\ ctx \in Context
        /\ Settled(ngx, ctx, m)
    BY DEF XInv, IInv, Good, Sound
  <1>4. Replying(ngx, ctx, FALSE)
    BY <1>2, <1>3, WriterDue
  <1>5. Keeps(ngx, ngx) /\ Running(ngx)
    BY <1>2 DEF Keeps, Running
  <1> QED BY <1>1, <1>2, <1>3, <1>4, <1>5, WriterStep_Settled

LEMMA ClientGone_Settled ==
    ASSUME XInv, ClientGone, NEW m, m = client.method
    PROVE  Settled(ngx', ctx', m) /\ Aside /\ ngx'.sent >= ngx.sent
  <1> DEFINE d == Failed(ctx)
             p == ngx_http_terminate_request(ngx)
  <1>1. ngx' = p /\ ctx' = d /\ ngx.live
    BY DEF ClientGone, EventLoop
  <1>2. /\ NgxRequestOK(ngx) /\ ctx \in Context /\ ngx.sent \in Nat
        /\ ReplyInv(ngx, ctx) /\ FreedInv(ngx, ctx, m)
    BY Fields DEF XInv, IInv, Good, Sound, Settled
  <1>3. /\ d.fault /\ d.state = ctx.state /\ d.calls = ctx.calls
        /\ d.subrequests = ctx.subrequests
    BY <1>2, Failed_Frame
  <1> HIDE DEF d
  <1>4. ReplyInv(ngx, d)
    BY <1>2, <1>3 DEF ReplyInv, InRound
  <1>5. d.state \in {"NONE", "INIT"} => d.calls = 0
    BY <1>2, <1>3 DEF FreedInv
  <1>6. Settled(p, d, m) /\ p.live /\ p.weh = "terminate" /\ Keeps(p, ngx)
    BY <1>1, <1>2, <1>3, <1>4, <1>5, Terminated_Settled
  <1> HIDE DEF p
  <1> QED BY <1>1, <1>2, <1>3, <1>6 DEF Aside, Keeps, Running, SubDone

LEMMA BodyEvent_Settled ==
    ASSUME XInv, BodyEvent, NEW m, m = client.method
    PROVE  /\ Settled(ngx', ctx', m) /\ Aside /\ ngx'.sent >= ngx.sent
           /\ client'.method = m /\ ~Running(ngx')
  <1>1. /\ ngx.live /\ Sound(ngx) /\ NgxRequestOK(ngx) /\ ctx \in Context
        /\ ctx.state = "INIT" /\ ngx.created = 0 /\ client \in Client
        /\ ReplyInv(ngx, ctx) /\ FreedInv(ngx, ctx, m)
        /\ WakeInv(ngx, ctx) /\ ngx.posted = <<>>
    BY DEF BodyEvent, EventLoop, XInv, IInv, Unstarted, Good, Sound, Settled
  <1>2. /\ \/ ngx' = ngx_http_close_request(ngx) /\ ctx' = ctx
           \/ Return(ngx, Failed(ctx), "ERROR")
        /\ client'.method = m
    BY <1>1 DEF BodyEvent, plugin_post_body, ngx_http_finalize_request, Client
  <1>3. ngx.sent \in Nat
    BY <1>1, Fields
  <1>4. ngx.weh # "terminate"
    <2>1. <<>> # <<Main>>
      OBVIOUS
    <2> QED BY <1>1, <2>1 DEF WakeInv
  <1>5. CASE ngx' = ngx_http_close_request(ngx) /\ ctx' = ctx
    <2>1. Outstanding(ngx) = {}
      BY <1>1 DEF Outstanding
    <2>2. /\ Keeps(ngx', ngx) /\ ~ngx'.live /\ ngx'.buffered = ngx.buffered
          /\ ngx'.weh = ngx.weh
      BY <1>1, <1>5, <2>1, Close_Frame
    <2>3. ReplyInv(ngx', ctx)
      BY <1>1, <2>2, Reply_Keeps
    <2>4. WakeInv(ngx', ctx) /\ FreedInv(ngx', ctx, m)
      BY <1>1, <1>4, <2>2 DEF WakeInv, FreedInv, Running
    <2> QED BY <1>1, <1>2, <1>3, <1>5, <2>2, <2>3, <2>4
            DEF Settled, Aside, Keeps, Running, SubDone
  <1>6. CASE Return(ngx, Failed(ctx), "ERROR")
    <2> DEFINE d == Failed(ctx)
    <2>1. /\ d.fault /\ d.state = "INIT" /\ d.calls = ctx.calls
          /\ d.subrequests = ctx.subrequests
      BY <1>1, Failed_Frame
    <2>2. Return(ngx, d, "ERROR")
      BY <1>6
    <2> HIDE DEF d
    <2>3. ReplyInv(ngx, d) /\ d.calls = 0
      BY <1>1, <2>1 DEF ReplyInv, FreedInv
    <2>4. /\ Settled(ngx', ctx', m) /\ ctx' = d
          /\ ngx'.live /\ ngx'.weh = "terminate" /\ Keeps(ngx', ngx)
      BY <1>1, <2>1, <2>2, <2>3, ErrorReturn_Settled
    <2> QED BY <1>1, <1>2, <1>3, <2>1, <2>4
            DEF Aside, Keeps, Running, SubDone
  <1> QED BY <1>2, <1>5, <1>6

-----------------------------------------------------------------------------
(* XInv is inductive. *)
LEMMA InitXInv == Init => XInv
  <1> SUFFICES ASSUME Init
               PROVE  XInv
    OBVIOUS
  <1>1. ngx = NewRequest /\ ctx = NewContext
    BY DEF Init
  <1>2. /\ ngx.live /\ ngx.weh = "run_phases" /\ ngx.data = Main
        /\ ngx.created = 0 /\ ngx.sent = 0 /\ ngx.outq = 0
        /\ ngx.posted = <<Main>>
    BY <1>1 DEF NewRequest
  <1>3. ctx.state = "NONE" /\ ctx.calls = 0 /\ ~ctx.fault
    BY <1>1 DEF NewContext
  <1>4. Queued(ngx, Main)
    <2>1. Len(<<Main>>) = 1 /\ <<Main>>[1] = Main
      OBVIOUS
    <2> QED BY <1>2, <2>1 DEF Queued
  <1>5. ReplyInv(ngx, ctx) /\ BodyInv
    BY <1>2, <1>3 DEF ReplyInv, BodyInv
  <1>6. AwakeInv(ngx, ctx)
    BY <1>2, <1>3, <1>4 DEF AwakeInv, ActiveInv
  <1>7. WakeInv(ngx, ctx) /\ FreedInv(ngx, ctx, client.method)
    BY <1>2, <1>3, <1>6 DEF WakeInv, FreedInv
  <1> QED BY <1>5, <1>7, InitIInv DEF XInv, Settled

\* A step is one of the handler, or one of nginx.
LEMMA Step ==
    ASSUME XInv, Next, ~UNCHANGED vars
    PROVE  XInv' /\ (Inside \/ Aside) /\ ngx'.sent >= ngx.sent
  <1> DEFINE m == client.method
  <1>1. IInv'
    BY NextIInv DEF XInv
  <1>2. ASSUME Settled(ngx', ctx', m), client' = client, Aside
        PROVE  XInv'
    <2>1. BodyInv'
      BY <1>2 DEF XInv, BodyInv, Aside
    <2>2. client'.method = m
      BY <1>2
    <2> HIDE DEF m
    <2>3. Settled(ngx', ctx', client'.method)
      BY <1>2, <2>2
    <2> QED BY <1>1, <2>1, <2>3 DEF XInv
  <1> HIDE DEF m
  <1>m. m = client.method
    BY DEF m
  <1>3. CASE ngx_http_adfront_handler
    <2>1. /\ Settled(ngx', ctx', m) /\ client'.method = m /\ BodyInv'
          /\ Inside /\ ngx'.sent >= ngx.sent
      BY <1>3, <1>m, Handler_Settled
    <2>2. Settled(ngx', ctx', client'.method)
      BY <2>1
    <2> QED BY <1>1, <2>1, <2>2 DEF XInv
  <1>4. CASE RunMain
    <2>1. client' = client
      BY <1>4 DEF RunMain
    <2> QED BY <1>2, <1>4, <1>m, <2>1, RunMain_Settled
  <1>5. ASSUME NEW i \in 1..ngx.created, RunSubrequest(i)
        PROVE  XInv' /\ Aside /\ ngx'.sent >= ngx.sent
    <2>1. client' = client
      BY <1>5 DEF RunSubrequest
    <2> QED BY <1>2, <1>5, <1>m, <2>1, RunSubrequest_Settled
  <1>6. ASSUME NEW i \in 1..ngx.created, UpstreamDone(i)
        PROVE  XInv' /\ Aside /\ ngx'.sent >= ngx.sent
    <2>1. client' = client
      BY <1>6 DEF UpstreamDone
    <2> QED BY <1>2, <1>6, <1>m, <2>1, UpstreamDone_Settled
  <1>7. CASE ClientWritable
    <2>1. client' = client
      BY <1>7 DEF ClientWritable
    <2> QED BY <1>2, <1>7, <1>m, <2>1, ClientWritable_Settled
  <1>8. CASE ClientGone
    <2>1. client' = client
      BY <1>8 DEF ClientGone
    <2> QED BY <1>2, <1>8, <1>m, <2>1, ClientGone_Settled
  <1>9. CASE BodyEvent
    <2>1. /\ Settled(ngx', ctx', m) /\ Aside /\ ngx'.sent >= ngx.sent
          /\ client'.method = m /\ ~Running(ngx')
      BY <1>9, <1>m, BodyEvent_Settled
    <2>2. Settled(ngx', ctx', client'.method) /\ BodyInv'
      BY <2>1 DEF BodyInv
    <2> QED BY <1>1, <2>1, <2>2 DEF XInv
  <1> QED BY <1>3, <1>4, <1>5, <1>6, <1>7, <1>8, <1>9
          DEF Next, RunPosted, Freed

LEMMA NextXInv == XInv /\ [Next]_vars => XInv'
  <1> SUFFICES ASSUME XInv, [Next]_vars
               PROVE  XInv'
    OBVIOUS
  <1>1. CASE UNCHANGED vars
    BY <1>1 DEF vars, XInv, IInv, Good, Unstarted, BodyInv
  <1>2. CASE ~UNCHANGED vars
    BY <1>2, Step
  <1> QED BY <1>1, <1>2

LEMMA SecondInductive == Spec => []XInv
  BY InitXInv, NextXInv, PTL DEF Spec, Safety

(* Between two events a request that lives waits for its body, for a       *)
(* server, or for its client while it has the right to write: every run of *)
(* ngx_http_adfront_handler that returned NGX_DONE is followed by another, *)
(* because plugin_subrequest_post_handler has set the write event handler  *)
(* of a parent that is posted, whatever the order of the completions.      *)
THEOREM NeverLost == Spec => []NeverStuck
  <1>1. ASSUME XInv
        PROVE  NeverStuck
    <2> SUFFICES ASSUME EventLoop(ngx)
                 PROVE  \/ client.body = "reading"
                        \/ \E i \in 1..ngx.created : ngx.sub[i] = "upstream"
                        \/ ngx.weh = "writer" /\ ngx.buffered /\ Writable(ngx)
      BY DEF NeverStuck
    <2>1. /\ ngx.live /\ ngx.posted = <<>> /\ WakeInv(ngx, ctx)
          /\ NgxRequestOK(ngx) /\ ctx \in Context
          /\ ctx.subrequests \in Seq(1..ngx.created)
      BY <1>1 DEF EventLoop, XInv, Settled, IInv, Good, Sound
    <2>2. Running(ngx) /\ AwakeInv(ngx, ctx)
      <3>1. ngx.posted # <<Main>>
        BY <2>1
      <3> QED BY <2>1, <3>1 DEF WakeInv, Running
    <2>3. \A r : ~Queued(ngx, r)
      BY <2>1 DEF Queued
    <2>4. CASE ctx.state = "INIT"
      BY <1>1, <2>2, <2>4 DEF XInv, BodyInv
    <2>5. CASE ctx.state = "WAIT"
      <3>1. ~AllDone(ngx, ctx.subrequests)
        BY <2>2, <2>3, <2>5 DEF AwakeInv
      <3>2. PICK j \in DOMAIN ctx.subrequests :
              ~SubDone(ngx, ctx.subrequests[j])
        BY <3>1 DEF AllDone
      <3>3. ctx.subrequests[j] \in 1..ngx.created
        BY <2>1, <3>2, ElementOfSeq, LenProperties
      <3>4. ngx.sub[ctx.subrequests[j]] \in SubStatus
        BY <2>1, <3>3, Fields
      <3>5. ngx.sub[ctx.subrequests[j]] # "posted"
        BY <2>2, <2>3, <3>3 DEF AwakeInv
      <3> QED BY <3>2, <3>3, <3>4, <3>5 DEF SubDone, SubStatus
    <2>6. CASE ctx.state = "DONE"
      <3>1. ngx.data = Main
        BY <2>2, <2>3, <2>6 DEF AwakeInv, ActiveInv
      <3>2. ngx.weh \in WriteHandlers
        BY <2>1 DEF NgxRequestOK, NgxRequest
      <3> QED BY <2>2, <2>3, <2>6, <3>1, <3>2
              DEF AwakeInv, Running, WriteHandlers
    <2>7. ctx.state \in {"INIT", "WAIT", "DONE"}
      BY <2>1, <2>2, <2>3, ContextFields DEF AwakeInv, States
    <2> QED BY <2>4, <2>5, <2>6, <2>7
  <1> QED BY <1>1, SecondInductive, PTL

(* A request without a failure, of whatever plugin and whatever client, is *)
(* freed only when its response is out and its subrequests are finalized   *)
(* (plugin_final_request, plugin_done_request and nginx's own writer).     *)
THEOREM CompleteWhenFreed == Spec => []FreedComplete
  <1>1. ASSUME XInv
        PROVE  FreedComplete
    <2> SUFFICES ASSUME ~ngx.live, ~ctx.fault, ctx.calls > 0,
                        client.method # "HEAD"
                 PROVE  /\ ngx.sent = 1 /\ ~ngx.buffered
                        /\ Outstanding(ngx) = {}
                        /\ ctx.news = 1 /\ ctx.deletes = 1
      BY DEF FreedComplete
    <2>1. ctx.state = "DONE" /\ Complete(ngx) /\ ngx.sent + ngx.outq = 1
      BY <1>1 DEF XInv, Settled, FreedInv
    <2>2. /\ ctx.deletes = 1 /\ ctx.deletes <= ctx.news /\ ctx.news <= 1
          /\ ctx.news \in Nat /\ ngx.sent \in Nat
      BY <1>1, <2>1, Fields, ContextFields
         DEF XInv, IInv, ContextInv, Good, Sound
    <2> QED BY <2>1, <2>2 DEF Complete
  <1> QED BY <1>1, SecondInductive, PTL

(* The response reaches the client once, and only after every subrequest   *)
(* of every round is done.                                                 *)
THEOREM AnsweredOnce == Spec => AnsweredAfterAll
  <1>1. ASSUME XInv, [Next]_vars
        PROVE  [ngx'.sent # ngx.sent =>
                  /\ ngx.sent = 0
                  /\ ngx'.sent = 1
                  /\ \A i \in 1..ngx'.created : SubDone(ngx', i)]_vars
    <2> SUFFICES ASSUME ~UNCHANGED vars, ngx'.sent # ngx.sent
                 PROVE  /\ ngx.sent = 0
                        /\ ngx'.sent = 1
                        /\ \A i \in 1..ngx'.created : SubDone(ngx', i)
      OBVIOUS
    <2>1. XInv' /\ ngx'.sent >= ngx.sent
      BY <1>1, Step
    <2>2. /\ ngx.sent \in Nat /\ ngx'.sent \in Nat /\ ngx'.outq \in Nat
      BY <1>1, <2>1, Fields DEF XInv, IInv, Good, Sound
    <2>3. ReplyInv(ngx', ctx')
      BY <2>1 DEF XInv, Settled
    <2>4. ngx.sent = 0 /\ ngx'.sent = 1
      BY <2>1, <2>2, <2>3 DEF ReplyInv
    <2>5. Finished(ngx')
      BY <2>3, <2>4 DEF ReplyInv
    <2> QED BY <2>4, <2>5 DEF Finished
  <1> QED BY <1>1, SecondInductive, PTL DEF Spec, Safety, AnsweredAfterAll

-----------------------------------------------------------------------------
(***************************************************************************)
(* What is left to be done.  Each operator of nginx is shown to leave no   *)
(* more of it than it found, but for a handler or a run that it adds.      *)
(***************************************************************************)
LEMMA Parts ==
    ASSUME NEW q, NgxRequestOK(q), q.created <= MaxSub
    PROVE  /\ q.created \in Nat /\ MaxSub - q.created \in Nat
           /\ Len(q.postponed) \in Nat /\ Len(q.posted) \in Nat
           /\ IsFiniteSet(Busy(q)) /\ Cardinality(Busy(q)) \in Nat
           /\ IsFiniteSet(QueuedSubs(q)) /\ Cardinality(QueuedSubs(q)) \in Nat
           /\ Due(q.weh) \in 0..2 /\ Work(q) \in Nat
  <1>1. /\ q.created \in Nat /\ MaxSub - q.created \in Nat
        /\ Len(q.postponed) \in Nat /\ Len(q.posted) \in Nat
    BY Fields, LenProperties, MaxSubAssumption
  <1>2. IsFiniteSet(Busy(q)) /\ Cardinality(Busy(q)) \in Nat
    <2>0. 1 \in Int /\ q.created \in Int
      BY <1>1
    <2>1. IsFiniteSet(1..q.created)
      BY <2>0, FS_Interval
    <2>2. Busy(q) \in SUBSET (1..q.created)
      BY DEF Busy
    <2>3. IsFiniteSet(Busy(q))
      BY <2>1, <2>2, FS_Subset
    <2> QED BY <2>3, FS_CardinalityType
  <1>3. IsFiniteSet(QueuedSubs(q)) /\ Cardinality(QueuedSubs(q)) \in Nat
    <2>0. 1 \in Int /\ Len(q.posted) \in Int
      BY <1>1
    <2>1. IsFiniteSet(1..Len(q.posted))
      BY <2>0, FS_Interval
    <2>2. QueuedSubs(q) \in SUBSET (1..Len(q.posted))
      BY DEF QueuedSubs
    <2>3. IsFiniteSet(QueuedSubs(q))
      BY <2>1, <2>2, FS_Subset
    <2> QED BY <2>3, FS_CardinalityType
  <1>4. Due(q.weh) \in 0..2
    BY DEF Due
  <1>5. Work(q) \in Nat
    <2> DEFINE b == Cardinality(Busy(q))
               s == Cardinality(QueuedSubs(q))
               d == Due(q.weh)
               m == MaxSub - q.created
               o == Len(q.postponed)
               n == Len(q.posted)
    <2>1. b \in Nat /\ s \in Nat /\ d \in Nat /\ m \in Nat /\ o \in Nat /\ n \in Nat
      BY <1>1, <1>2, <1>3, <1>4
    <2>2. Work(q) = 13 * m + 5 * o + 4 * b + 3 * s + n + d
      BY DEF Work
    <2> HIDE DEF b, s, d, m, o, n
    <2> QED BY <2>1, <2>2
  <1> QED BY <1>1, <1>2, <1>3, <1>4, <1>5

\* Another run is posted.
LEMMA Posted_Append ==
    ASSUME NEW q, NgxRequestOK(q), NEW p, NEW x \in Nat,
           p.posted = Append(q.posted, x)
    PROVE  /\ Len(p.posted) = Len(q.posted) + 1
           /\ Cardinality(QueuedSubs(p)) =
                Cardinality(QueuedSubs(q)) + (IF x = Main THEN 0 ELSE 1)
  <1> DEFINE n == Len(q.posted)
  <1>1. q.posted \in Seq(Nat) /\ n \in Nat
    BY LenProperties DEF NgxRequestOK, NgxRequest
  <1>2. /\ Len(p.posted) = n + 1
        /\ p.posted[n + 1] = x
        /\ \A k \in 1..n : p.posted[k] = q.posted[k]
    BY <1>1, AppendProperties
  <1>3. IsFiniteSet(QueuedSubs(q)) /\ Cardinality(QueuedSubs(q)) \in Nat
    <2>1. 1 \in Int /\ n \in Int /\ QueuedSubs(q) \in SUBSET (1..n)
      BY <1>1 DEF QueuedSubs
    <2>2. IsFiniteSet(1..n)
      BY <2>1, FS_Interval
    <2>3. IsFiniteSet(QueuedSubs(q))
      BY <2>1, <2>2, FS_Subset
    <2> QED BY <2>3, FS_CardinalityType
  <1>4. n + 1 \notin QueuedSubs(q)
    BY <1>1 DEF QueuedSubs
  <1>5. CASE x = Main
    <2>1. QueuedSubs(p) = QueuedSubs(q)
      BY <1>1, <1>2, <1>5 DEF QueuedSubs
    <2> QED BY <1>2, <1>3, <1>5, <2>1
  <1>6. CASE x # Main
    <2>1. QueuedSubs(p) = QueuedSubs(q) \cup {n + 1}
      BY <1>1, <1>2, <1>6 DEF QueuedSubs
    <2>2. Cardinality(QueuedSubs(p)) = Cardinality(QueuedSubs(q)) + 1
      BY <1>3, <1>4, <2>1, FS_AddElement
    <2> QED BY <1>2, <1>6, <2>2
  <1> QED BY <1>5, <1>6

\* The next run is taken from the queue.
LEMMA Posted_Tail ==
    ASSUME NEW q, NgxRequestOK(q), q.posted # <<>>, NEW p,
           p.posted = Tail(q.posted)
    PROVE  /\ Len(p.posted) = Len(q.posted) - 1
           /\ Cardinality(QueuedSubs(p)) =
                Cardinality(QueuedSubs(q)) - (IF Head(q.posted) = Main THEN 0 ELSE 1)
  <1> DEFINE n == Len(q.posted)
             S == QueuedSubs(q) \ {1}
  <1>1. q.posted \in Seq(Nat) /\ n \in Nat /\ n > 0
    <2>1. q.posted \in Seq(Nat)
      BY DEF NgxRequestOK, NgxRequest
    <2> QED BY <2>1, LenProperties, EmptySeq
  <1>2. /\ Len(p.posted) = n - 1 /\ Head(q.posted) = q.posted[1]
        /\ \A k \in 1..(n - 1) : p.posted[k] = q.posted[k + 1]
    BY <1>1, HeadTailProperties
  <1>3. IsFiniteSet(QueuedSubs(q)) /\ Cardinality(QueuedSubs(q)) \in Nat
    <2>1. 1 \in Int /\ n \in Int /\ QueuedSubs(q) \in SUBSET (1..n)
      BY <1>1 DEF QueuedSubs
    <2>2. IsFiniteSet(1..n)
      BY <2>1, FS_Interval
    <2>3. IsFiniteSet(QueuedSubs(q))
      BY <2>1, <2>2, FS_Subset
    <2> QED BY <2>3, FS_CardinalityType
  <1>4. /\ IsFiniteSet(S)
        /\ Cardinality(S) = Cardinality(QueuedSubs(q))
                              - (IF Head(q.posted) = Main THEN 0 ELSE 1)
    <2>1. 1 \in QueuedSubs(q) <=> Head(q.posted) # Main
      BY <1>1, <1>2 DEF QueuedSubs
    <2>2. /\ IsFiniteSet(S)
          /\ Cardinality(S) = IF 1 \in QueuedSubs(q)
                              THEN Cardinality(QueuedSubs(q)) - 1
                              ELSE Cardinality(QueuedSubs(q))
      BY <1>3, FS_RemoveElement
    <2> QED BY <1>3, <2>1, <2>2
  <1>5. Cardinality(QueuedSubs(p)) = Cardinality(S)
    <2> DEFINE f == [k \in S |-> k - 1]
    <2>1. \A k \in S : k \in 2..n /\ q.posted[k] # Main
      BY <1>1 DEF QueuedSubs
    <2>2. \A k \in QueuedSubs(p) :
            k \in 1..(n - 1) /\ k + 1 \in S /\ (k + 1) - 1 = k
      BY <1>1, <1>2 DEF QueuedSubs
    <2>3. \A k \in S : k - 1 \in QueuedSubs(p)
      BY <1>1, <1>2, <2>1 DEF QueuedSubs
    <2> HIDE DEF S
    <2>4. f \in Bijection(S, QueuedSubs(p))
      <3>1. f \in [S -> QueuedSubs(p)]
        BY <2>3
      <3>2. \A a, b \in S : f[a] = f[b] => a = b
        BY <2>1
      <3>3. \A t \in QueuedSubs(p) : \E k \in S : f[k] = t
        BY <2>2
      <3> QED BY <3>1, <3>2, <3>3 DEF Bijection, Injection, Surjection, IsInjective
    <2>5. ExistsBijection(S, QueuedSubs(p))
      BY <2>4 DEF ExistsBijection
    <2> QED BY <1>4, <2>5, FS_Bijection
  <1> QED BY <1>2, <1>4, <1>5

\* k more runs are posted, of new subrequests.
LEMMA Posted_Ids ==
    ASSUME NEW q, NgxRequestOK(q), NEW p, NEW k \in Nat,
           Len(p.posted) = Len(q.posted) + k,
           \A j \in 1..Len(q.posted) : p.posted[j] = q.posted[j],
           \A j \in (Len(q.posted) + 1)..(Len(q.posted) + k) : p.posted[j] # Main
    PROVE  Cardinality(QueuedSubs(p)) = Cardinality(QueuedSubs(q)) + k
  <1> DEFINE n == Len(q.posted)
             S == (n + 1)..(n + k)
  <1>1. n \in Nat
    BY LenProperties DEF NgxRequestOK, NgxRequest
  <1>2. IsFiniteSet(QueuedSubs(q)) /\ Cardinality(QueuedSubs(q)) \in Nat
    <2>1. 1 \in Int /\ n \in Int /\ QueuedSubs(q) \in SUBSET (1..n)
      BY <1>1 DEF QueuedSubs
    <2>2. IsFiniteSet(1..n)
      BY <2>1, FS_Interval
    <2>3. IsFiniteSet(QueuedSubs(q))
      BY <2>1, <2>2, FS_Subset
    <2> QED BY <2>3, FS_CardinalityType
  <1>3. IsFiniteSet(S) /\ Cardinality(S) = k
    <2>1. n + 1 \in Int /\ n + k \in Int
      BY <1>1
    <2>2. /\ IsFiniteSet(S)
          /\ Cardinality(S) = IF n + 1 > n + k THEN 0 ELSE (n + k) - (n + 1) + 1
      BY <2>1, FS_Interval
    <2>3. (IF n + 1 > n + k THEN 0 ELSE (n + k) - (n + 1) + 1) = k
      BY <1>1
    <2> QED BY <2>2, <2>3
  <1>4. QueuedSubs(p) = QueuedSubs(q) \cup S
    BY <1>1 DEF QueuedSubs
  <1>5. QueuedSubs(q) \cap S = {}
    BY <1>1 DEF QueuedSubs
  <1> HIDE DEF S, n
  <1>6. Cardinality(QueuedSubs(q) \cup S) =
          Cardinality(QueuedSubs(q)) + Cardinality(S)
            - Cardinality(QueuedSubs(q) \cap S)
    BY <1>2, <1>3, FS_Union
  <1>7. Cardinality(QueuedSubs(q) \cap S) = 0
    BY <1>5, FS_EmptySet
  <1> QED BY <1>2, <1>3, <1>4, <1>6, <1>7

\* What is left does not depend on the response, the counters, or who is
\* active; of the write handler it counts the run that is due.
LEMMA Work_Same ==
    ASSUME NEW q, NEW p, NgxRequestOK(q), q.created <= MaxSub,
           p.created = q.created, p.sub = q.sub, p.posted = q.posted,
           p.postponed = q.postponed
    PROVE  Work(p) = Work(q) - Due(q.weh) + Due(p.weh)
  <1>1. Busy(p) = Busy(q) /\ QueuedSubs(p) = QueuedSubs(q)
    BY DEF Busy, QueuedSubs
  <1>2. Due(p.weh) \in Nat
    BY DEF Due
  <1> DEFINE w == 13 * (MaxSub - q.created) + 5 * Len(q.postponed)
                    + 4 * Cardinality(Busy(q)) + 3 * Cardinality(QueuedSubs(q))
                    + Len(q.posted)
  <1>3. Work(q) = w + Due(q.weh) /\ Work(p) = w + Due(p.weh)
    BY <1>1 DEF Work
  <1>4. Work(q) \in Nat /\ Due(q.weh) \in Nat
    BY Parts
  <1>5. w \in Nat
    <2> DEFINE b == Cardinality(Busy(q))
               s == Cardinality(QueuedSubs(q))
               m == MaxSub - q.created
               o == Len(q.postponed)
               n == Len(q.posted)
    <2>1. b \in Nat /\ s \in Nat /\ m \in Nat /\ o \in Nat /\ n \in Nat
      BY Parts
    <2>2. w = 13 * m + 5 * o + 4 * b + 3 * s + n
      OBVIOUS
    <2> HIDE DEF b, s, m, o, n, w
    <2> QED BY <2>1, <2>2
  <1> HIDE DEF w
  <1> QED BY <1>2, <1>3, <1>4, <1>5

\* A posted run is taken.
LEMMA Pop_Work ==
    ASSUME NEW q, NgxRequestOK(q), q.created <= MaxSub, q.posted # <<>>
    PROVE  Work(PopPosted(q)) =
             Work(q) - (IF Head(q.posted) = Main THEN 1 ELSE 4)
  <1> DEFINE p == PopPosted(q)
             b == Cardinality(Busy(q))
             s == Cardinality(QueuedSubs(q))
             t == Cardinality(QueuedSubs(p))
             d == Due(q.weh)
             m == MaxSub - q.created
             o == Len(q.postponed)
             n == Len(q.posted)
             one == IF Head(q.posted) = Main THEN 0 ELSE 1
  <1>1. /\ p.posted = Tail(q.posted) /\ p.created = q.created /\ p.sub = q.sub
        /\ p.postponed = q.postponed /\ p.weh = q.weh
    BY DEF PopPosted, NgxRequestOK, NgxRequest
  <1> HIDE DEF p
  <1>2. Busy(p) = Busy(q)
    BY <1>1 DEF Busy
  <1>3. Len(p.posted) = n - 1 /\ t = s - one
    BY <1>1, Posted_Tail
  <1>4. b \in Nat /\ s \in Nat /\ d \in Nat /\ m \in Nat /\ o \in Nat /\ n \in Nat
    BY Parts
  <1>5. Work(q) = 13 * m + 5 * o + 4 * b + 3 * s + n + d
    BY DEF Work
  <1>6. Work(p) = 13 * m + 5 * o + 4 * b + 3 * t + Len(p.posted) + d
    BY <1>1, <1>2 DEF Work
  <1>7. one \in {0, 1} /\ (IF Head(q.posted) = Main THEN 1 ELSE 4) = 1 + 3 * one
    OBVIOUS
  <1> HIDE DEF b, s, t, d, m, o, n, one
  <1>8. Work(p) = Work(q) - (1 + 3 * one)
    BY <1>3, <1>4, <1>5, <1>6, <1>7
  <1> QED BY <1>7, <1>8 DEF p

\* New subrequests are what may still be asked for, less as many.
LEMMA Subrequest_Work ==
    ASSUME NEW q, Sound(q), q.live, NEW k \in Nat, q.created + k <= MaxSub
    PROVE  Work(ngx_http_subrequest(q, k)) = Work(q)
  <1> DEFINE p == ngx_http_subrequest(q, k)
             new == [j \in 1..k |-> q.created + j]
  <1>1. /\ NgxRequestOK(q) /\ q.created \in Nat
        /\ q.posted \in Seq(Nat) /\ q.postponed \in Seq(Nat)
        /\ Len(q.posted) \in Nat /\ Len(q.postponed) \in Nat
    BY LenProperties DEF Sound, NgxRequestOK, NgxRequest
  <1>2. /\ p.created = q.created + k /\ p.weh = q.weh
        /\ p.posted = q.posted \o new /\ p.postponed = q.postponed \o new
    BY <1>1 DEF ngx_http_subrequest, NgxRequestOK, NgxRequest
  <1>3. \A i \in 1..p.created :
          p.sub[i] = IF i <= q.created THEN q.sub[i] ELSE "posted"
    BY <1>1, Subrequest_Frame
  <1>4. new \in Seq(Nat) /\ Len(new) = k /\ \A j \in 1..k : new[j] = q.created + j
    <2>1. new \in [1..k -> Nat]
      BY <1>1
    <2>2. new \in Seq(Nat) /\ Len(new) = k
      BY <2>1, SeqDef
    <2> QED BY <2>2
  <1> HIDE DEF p, new
  <1>5. \A s \in Seq(Nat) :
          /\ Len(s \o new) = Len(s) + k
          /\ \A j \in 1..(Len(s) + k) :
               (s \o new)[j] = IF j <= Len(s) THEN s[j] ELSE new[j - Len(s)]
    <2>1. new \in Seq(Nat) /\ Len(new) = k
      BY <1>4
    <2>2. \A s \in Seq(Nat) :
            /\ Len(s \o new) = Len(s) + Len(new)
            /\ \A j \in 1..(Len(s) + Len(new)) :
                 (s \o new)[j] = IF j <= Len(s) THEN s[j]
                                 ELSE new[j - Len(s)]
      BY <2>1, ConcatProperties
    <2> QED BY <2>1, <2>2
  <1>6. /\ Len(p.posted) = Len(q.posted) + k
        /\ \A j \in 1..(Len(q.posted) + k) :
             p.posted[j] = IF j <= Len(q.posted) THEN q.posted[j]
                           ELSE new[j - Len(q.posted)]
        /\ Len(p.postponed) = Len(q.postponed) + k
    BY <1>1, <1>2, <1>5
  <1>7. Cardinality(QueuedSubs(p)) = Cardinality(QueuedSubs(q)) + k
    <2>1. \A j \in 1..Len(q.posted) : p.posted[j] = q.posted[j]
      BY <1>1, <1>6
    <2>2. ASSUME NEW j \in (Len(q.posted) + 1)..(Len(q.posted) + k)
          PROVE  p.posted[j] # Main
      <3>1. /\ j \in 1..(Len(q.posted) + k) /\ ~(j <= Len(q.posted))
            /\ j - Len(q.posted) \in 1..k
        BY <1>1
      <3>2. p.posted[j] = q.created + (j - Len(q.posted))
        BY <1>4, <1>6, <3>1
      <3> QED BY <1>1, <3>1, <3>2 DEF Main
    <2> QED BY <1>1, <1>6, <2>1, <2>2, Posted_Ids
  <1>8. Cardinality(Busy(p)) = Cardinality(Busy(q)) + k
    <2> DEFINE S == (q.created + 1)..(q.created + k)
    <2>1. Busy(p) = Busy(q) \cup S /\ Busy(q) \cap S = {}
      BY <1>1, <1>2, <1>3 DEF Busy
    <2>2. IsFiniteSet(S) /\ Cardinality(S) = k
      <3>1. q.created + 1 \in Int /\ q.created + k \in Int
        BY <1>1
      <3>2. /\ IsFiniteSet(S)
            /\ Cardinality(S) = IF q.created + 1 > q.created + k THEN 0
                                ELSE (q.created + k) - (q.created + 1) + 1
        BY <3>1, FS_Interval
      <3>3. ASSUME NEW c \in Nat
            PROVE  (IF c + 1 > c + k THEN 0 ELSE (c + k) - (c + 1) + 1) = k
        OBVIOUS
      <3> QED BY <1>1, <3>2, <3>3
    <2>3. q.created <= MaxSub
      BY <1>1, MaxSubAssumption
    <2>4. IsFiniteSet(Busy(q)) /\ Cardinality(Busy(q)) \in Nat
      BY <1>1, <2>3, Parts
    <2> HIDE DEF S
    <2>5. Cardinality(Busy(q) \cup S) =
            Cardinality(Busy(q)) + Cardinality(S) - Cardinality(Busy(q) \cap S)
      BY <2>2, <2>4, FS_Union
    <2>6. Cardinality(Busy(q) \cap S) = 0
      BY <2>1, FS_EmptySet
    <2> QED BY <2>1, <2>2, <2>4, <2>5, <2>6
  <1> DEFINE b == Cardinality(Busy(q))
             s == Cardinality(QueuedSubs(q))
             d == Due(q.weh)
             m == MaxSub - q.created
             o == Len(q.postponed)
             n == Len(q.posted)
  <1>9. b \in Nat /\ s \in Nat /\ d \in Nat /\ m \in Nat /\ o \in Nat /\ n \in Nat
    BY <1>1, Parts, MaxSubAssumption
  <1>10. Work(q) = 13 * m + 5 * o + 4 * b + 3 * s + n + d
    BY DEF Work
  <1>11. Work(p) = 13 * (MaxSub - (q.created + k)) + 5 * (o + k) + 4 * (b + k)
                     + 3 * (s + k) + (n + k) + d
    BY <1>2, <1>6, <1>7, <1>8 DEF Work
  <1>12. MaxSub - (q.created + k) = m - k
    BY <1>1, MaxSubAssumption
  <1> HIDE DEF b, s, d, m, o, n
  <1>13. Work(p) = Work(q)
    BY <1>9, <1>10, <1>11, <1>12
  <1> QED BY <1>13 DEF p

\* A subrequest is finalized: its parent is posted, and one that had not been
\* answered is waited for no longer.
LEMMA FinalizeSubrequest_Work ==
    ASSUME NEW q, Sound(q), q.live, q.created <= MaxSub,
           NEW i \in 1..q.created, q.sub[i] # "done"
    PROVE  Work(ngx_http_finalize_subrequest(q, i)) <=
             Work(q) + (IF i \in Busy(q) THEN -3 ELSE 1)
  <1> DEFINE p == ngx_http_finalize_subrequest(q, i)
  <1>1. /\ Sound(p) /\ p.created = q.created /\ p.weh = q.weh
        /\ p.posted = Append(q.posted, Main)
        /\ p.sub[i] \in {"final", "done"}
        /\ \A j \in 1..q.created \ {i} : p.sub[j] = q.sub[j]
    BY FinalizeSubrequest_Sound
  <1>2. NgxRequestOK(q) /\ NgxRequestOK(p)
    BY <1>1 DEF Sound
  <1>3. p.postponed = q.postponed
          \/ (q.postponed # <<>> /\ p.postponed = Tail(q.postponed))
    BY <1>2 DEF ngx_http_finalize_subrequest, NgxRequestOK, NgxRequest
  <1> HIDE DEF p
  <1>4. Len(p.postponed) <= Len(q.postponed)
    <2>1. q.postponed \in Seq(Nat)
      BY <1>2 DEF NgxRequestOK, NgxRequest
    <2>2. q.postponed # <<>> => Len(Tail(q.postponed)) = Len(q.postponed) - 1
      BY <2>1, HeadTailProperties
    <2>3. Len(q.postponed) \in Nat
      BY <2>1, LenProperties
    <2>4. CASE p.postponed = q.postponed
      <3>1. Len(p.postponed) = Len(q.postponed)
        BY <2>4
      <3> QED BY <2>3, <3>1
    <2>5. CASE q.postponed # <<>> /\ p.postponed = Tail(q.postponed)
      <3>1. Len(p.postponed) = Len(Tail(q.postponed))
        BY <2>5
      <3> QED BY <2>2, <2>3, <2>5, <3>1
    <2> QED BY <1>3, <2>4, <2>5
  <1>5. /\ Len(p.posted) = Len(q.posted) + 1
        /\ Cardinality(QueuedSubs(p)) = Cardinality(QueuedSubs(q))
    <2>1. Main \in Nat
      BY DEF Main
    <2>2. /\ Len(p.posted) = Len(q.posted) + 1
          /\ Cardinality(QueuedSubs(p)) =
               Cardinality(QueuedSubs(q)) + (IF Main = Main THEN 0 ELSE 1)
      BY <1>1, <1>2, <2>1, Posted_Append
    <2>3. Cardinality(QueuedSubs(q)) \in Nat
      BY <1>2, Parts
    <2> QED BY <2>2, <2>3
  <1>6. /\ IsFiniteSet(Busy(q)) /\ Cardinality(Busy(q)) \in Nat
    BY <1>2, Parts
  <1>7. Cardinality(Busy(p)) =
          Cardinality(Busy(q)) - (IF i \in Busy(q) THEN 1 ELSE 0)
    <2>1. Busy(p) = Busy(q) \ {i}
      BY <1>1 DEF Busy
    <2>2. Cardinality(Busy(q) \ {i}) = IF i \in Busy(q)
                                       THEN Cardinality(Busy(q)) - 1
                                       ELSE Cardinality(Busy(q))
      BY <1>6, FS_RemoveElement
    <2> QED BY <1>6, <2>1, <2>2
  <1> DEFINE b == Cardinality(Busy(q))
             s == Cardinality(QueuedSubs(q))
             d == Due(q.weh)
             m == MaxSub - q.created
             o == Len(q.postponed)
             r == Len(p.postponed)
             n == Len(q.posted)
             one == IF i \in Busy(q) THEN 1 ELSE 0
  <1>8. b \in Nat /\ s \in Nat /\ d \in Nat /\ m \in Nat /\ o \in Nat /\ n \in Nat
    BY <1>2, Parts
  <1>9. r \in Nat
    BY <1>1, <1>2, Parts
  <1>10. Work(q) = 13 * m + 5 * o + 4 * b + 3 * s + n + d
    BY DEF Work
  <1>11. Work(p) = 13 * m + 5 * r + 4 * (b - one) + 3 * s + (n + 1) + d
    BY <1>1, <1>5, <1>7 DEF Work
  <1>12. one \in {0, 1} /\ (IF i \in Busy(q) THEN -3 ELSE 1) = 1 - 4 * one
    OBVIOUS
  <1> HIDE DEF b, s, d, m, o, r, n, one
  <1>13. r <= o
    BY <1>4 DEF r, o
  <1>14. Work(p) <= Work(q) + (1 - 4 * one)
    BY <1>8, <1>9, <1>10, <1>11, <1>12, <1>13
  <1> QED BY <1>12, <1>14 DEF p

\* The response is written, or a subrequest in front of it is posted.
LEMMA OutputFilter_Work ==
    ASSUME NEW q, NgxRequestOK(q), q.created <= MaxSub, NEW in \in BOOLEAN, NEW w
    PROVE  LET p == ngx_http_output_filter(q, in, w)
           IN  /\ Work(p) <= Work(q)
               /\ q.data = Main /\ q.postponed # <<>> => Work(p) = Work(q) - 1
  <1> DEFINE p == ngx_http_output_filter(q, in, w)
             h == IF in THEN q.outq + 1 ELSE q.outq
             new == Head(q.postponed)
  <1>1. Work(q) \in Nat
    BY Parts
  <1>2. ASSUME p.created = q.created, p.sub = q.sub, p.posted = q.posted,
               p.postponed = q.postponed, p.weh = q.weh
        PROVE  Work(p) = Work(q)
    <2> HIDE DEF p
    <2>1. Work(p) = Work(q) - Due(q.weh) + Due(p.weh)
      BY <1>2, Work_Same
    <2>2. Due(q.weh) \in Nat
      BY DEF Due
    <2> QED BY <1>1, <1>2, <2>1, <2>2
  <1>3. CASE q.data # Main
    <2>1. p = [q EXCEPT !.outq = h]
      BY <1>3 DEF ngx_http_output_filter
    <2> HIDE DEF h
    <2>2. /\ p.created = q.created /\ p.sub = q.sub /\ p.posted = q.posted
          /\ p.postponed = q.postponed /\ p.weh = q.weh
      BY <2>1 DEF NgxRequestOK, NgxRequest
    <2> QED BY <1>1, <1>2, <1>3, <2>2
  <1>4. CASE q.data = Main /\ q.postponed = <<>>
    <2>1. p = [[q EXCEPT !.outq = h] EXCEPT !.sent = q.sent + h,
                                            !.outq = 0,
                                            !.buffered = (w = "AGAIN")]
      BY <1>4 DEF ngx_http_output_filter, NgxRequestOK, NgxRequest
    <2> HIDE DEF h
    <2>2. /\ p.created = q.created /\ p.sub = q.sub /\ p.posted = q.posted
          /\ p.postponed = q.postponed /\ p.weh = q.weh
      BY <2>1 DEF NgxRequestOK, NgxRequest
    <2> QED BY <1>1, <1>2, <1>4, <2>2
  <1>5. CASE q.data = Main /\ q.postponed # <<>>
    <2>1. p = [[q EXCEPT !.outq = h] EXCEPT !.data = new,
                                            !.postponed = Tail(@),
                                            !.posted = Append(@, new)]
      BY <1>5 DEF ngx_http_output_filter
    <2>2. new \in 1..q.created /\ q.created \in Nat
      BY <1>5, Fields, HeadTailProperties
    <2> HIDE DEF h, new
    <2>3. /\ p.created = q.created /\ p.sub = q.sub /\ p.weh = q.weh
          /\ p.posted = Append(q.posted, new)
          /\ p.postponed = Tail(q.postponed)
      BY <2>1 DEF NgxRequestOK, NgxRequest
    <2> HIDE DEF p
    <2>4. Len(p.postponed) = Len(q.postponed) - 1
      <3>1. q.postponed \in Seq(Nat)
        BY DEF NgxRequestOK, NgxRequest
      <3>2. Len(Tail(q.postponed)) = Len(q.postponed) - 1
        BY <1>5, <3>1, HeadTailProperties
      <3> QED BY <2>3, <3>2
    <2>5. /\ Len(p.posted) = Len(q.posted) + 1
          /\ Cardinality(QueuedSubs(p)) = Cardinality(QueuedSubs(q)) + 1
      <3>1. new \in Nat /\ new # Main
        BY <2>2 DEF Main
      <3>2. /\ Len(p.posted) = Len(q.posted) + 1
            /\ Cardinality(QueuedSubs(p)) =
                 Cardinality(QueuedSubs(q)) + (IF new = Main THEN 0 ELSE 1)
        BY <2>3, <3>1, Posted_Append
      <3> QED BY <3>1, <3>2
    <2>6. Busy(p) = Busy(q)
      BY <2>3 DEF Busy
    <2> DEFINE b == Cardinality(Busy(q))
               s == Cardinality(QueuedSubs(q))
               d == Due(q.weh)
               m == MaxSub - q.created
               o == Len(q.postponed)
               n == Len(q.posted)
    <2>7. b \in Nat /\ s \in Nat /\ d \in Nat /\ m \in Nat /\ o \in Nat /\ n \in Nat
      BY Parts
    <2>8. Work(q) = 13 * m + 5 * o + 4 * b + 3 * s + n + d
      BY DEF Work
    <2>9. Work(p) = 13 * m + 5 * (o - 1) + 4 * b + 3 * (s + 1) + (n + 1) + d
      BY <2>3, <2>4, <2>5, <2>6 DEF Work
    <2> HIDE DEF b, s, d, m, o, n
    <2>10. Work(p) = Work(q) - 1
      BY <2>7, <2>8, <2>9
    <2> QED BY <1>1, <2>10 DEF p
  <1> QED BY <1>3, <1>4, <1>5

-----------------------------------------------------------------------------
(***************************************************************************)
(* The end of a run of the handler, which has been taken from the queue    *)
(* and disarmed: it may leave the write handler armed, and nothing else    *)
(* that was not there.                                                     *)
(***************************************************************************)
Spent(q) == Rank(ngx') \in 0..(3 + Work(q))

\* What a run of the handler is given.
Taken(q) == Sound(q) /\ q.live /\ q.weh = "empty" /\ q.created <= MaxSub

LEMMA Terminate_Rank ==
    ASSUME NEW q, NgxRequestOK(q), NEW p, p = ngx_http_terminate_request(q)
    PROVE  Rank(p) \in 0..1
  <1>1. p.weh = "terminate"
    BY Terminate_Frame
  <1> QED BY <1>1 DEF Rank

\* The request is finalized with what has been written.
LEMMA Finalize_Rank ==
    ASSUME NEW q, NgxRequestOK(q), q.created <= MaxSub, q.weh = "empty",
           NEW rc \in Writes, NEW p, p = ngx_http_finalize_request(q, rc)
    PROVE  /\ Rank(p) \in 0..(3 + Work(q))
           /\ rc # "ERROR" /\ ~(q.buffered \/ Postponed(q)) =>
                Rank(p) \in 0..(2 + Work(q))
  <1>1. Work(q) \in Nat
    BY Parts
  <1>2. CASE rc = "ERROR"
    <2>1. p = ngx_http_terminate_request(q)
      BY <1>2 DEF ngx_http_finalize_request
    <2>2. Rank(p) \in 0..1
      BY <2>1, Terminate_Rank
    <2> QED BY <1>1, <1>2, <2>2
  <1>3. ASSUME p.created = q.created, p.sub = q.sub, p.posted = q.posted,
               p.postponed = q.postponed, p.weh \in {"empty", "writer"}
        PROVE  /\ Rank(p) \in 0..(3 + Work(q))
               /\ p.weh = "empty" => Rank(p) \in 0..(2 + Work(q))
    <2>1. Work(p) = Work(q) - Due(q.weh) + Due(p.weh)
      BY <1>3, Work_Same
    <2>2. Due(q.weh) = 0 /\ Due(p.weh) = IF p.weh = "empty" THEN 0 ELSE 1
      BY <1>3 DEF Due
    <2>3. Rank(p) = 0 \/ Rank(p) = 2 + Work(p)
      BY <1>3 DEF Rank
    <2>4. p.weh = "empty" => Work(p) = Work(q)
      BY <1>1, <2>1, <2>2
    <2>5. Work(p) \in Nat /\ Work(p) <= 1 + Work(q)
      BY <1>1, <2>1, <2>2
    <2> QED BY <1>1, <2>3, <2>4, <2>5
  <1>4. CASE rc # "ERROR" /\ (q.buffered \/ Postponed(q))
    <2>1. p = [q EXCEPT !.weh = "writer"]
      BY <1>4 DEF ngx_http_finalize_request, Writes
    <2>2. /\ p.created = q.created /\ p.sub = q.sub /\ p.posted = q.posted
          /\ p.postponed = q.postponed /\ p.weh = "writer"
      BY <2>1, SetWeh_Frame DEF Keeps
    <2> QED BY <1>3, <1>4, <2>2
  <1>5. CASE rc # "ERROR" /\ ~(q.buffered \/ Postponed(q)) /\ q.data # Main
    <2>1. p = q
      BY <1>5 DEF ngx_http_finalize_request, Writes
    <2> QED BY <1>3, <1>5, <2>1
  <1>6. CASE rc # "ERROR" /\ ~(q.buffered \/ Postponed(q)) /\ q.data = Main
    <2>1. p = ngx_http_close_request([q EXCEPT !.weh = "empty"])
      BY <1>6 DEF ngx_http_finalize_request, Writes
    <2>2. /\ p.created = q.created /\ p.sub = q.sub /\ p.posted = q.posted
          /\ p.postponed = q.postponed /\ p.weh = "empty"
      BY <2>1 DEF ngx_http_close_request, NgxRequestOK, NgxRequest
    <2> QED BY <1>3, <1>6, <2>2
  <1> QED BY <1>2, <1>4, <1>5, <1>6

LEMMA Taken_OK ==
    ASSUME NEW q, Taken(q)
    PROVE  NgxRequestOK(q) /\ Work(q) \in Nat
  <1>1. NgxRequestOK(q) /\ q.created <= MaxSub
    BY DEF Taken, Sound
  <1> QED BY <1>1, Parts

\* The request is kept for an event.
LEMMA Hold_Spent ==
    ASSUME NEW q, NEW c, Taken(q), Return(HoldRequest(q), c, "DONE")
    PROVE  Spent(q)
  <1>1. ngx' = q
    BY HoldDone_Frame DEF Return, HoldRequest, Taken
  <1>2. Work(q) \in Nat
    BY Taken_OK
  <1>3. Rank(q) = 2 + Work(q)
    BY DEF Rank, Taken
  <1> QED BY <1>1, <1>2, <1>3 DEF Spent

\* The request is given up.
LEMMA Error_Spent ==
    ASSUME NEW q, NEW p, NEW c, Work(q) \in Nat, NgxRequestOK(p),
           Return(p, c, "ERROR")
    PROVE  Spent(q)
  <1>1. ngx' = ngx_http_terminate_request(p)
    BY DEF Return, ngx_http_finalize_request
  <1>2. Rank(ngx') \in 0..1
    BY <1>1, Terminate_Rank
  <1> QED BY <1>2 DEF Spent

LEMMA DestroyRequest_Spent ==
    ASSUME NEW q, NEW p, NEW c, Work(q) \in Nat, NgxRequestOK(p),
           plugin_destroy_request(p, c)
    PROVE  Spent(q)
  BY Error_Spent DEF plugin_destroy_request

LEMMA Write_Spent ==
    ASSUME NEW q, NEW c, NEW in \in BOOLEAN, Taken(q), Write(q, c, in)
    PROVE  Spent(q)
  <1>1. PICK w \in WriteResults(q, in) :
          Return(ngx_http_output_filter(q, in, w),
                 IF w = "ERROR" THEN Failed(c) ELSE c, w)
    BY DEF Write
  <1>2. w \in Writes
    BY DEF WriteResults, OutputResults, Writes
  <1> DEFINE p == ngx_http_output_filter(q, in, w)
  <1>3. NgxRequestOK(q) /\ Work(q) \in Nat
    BY Taken_OK
  <1>4. Sound(p) /\ p.created = q.created
    BY <1>2, OutputFilter_Sound DEF Taken
  <1>5. p.weh = "empty"
    BY <1>3, OutputFilter_Frame DEF Taken
  <1>6. Work(p) <= Work(q)
    BY <1>3, OutputFilter_Work DEF Taken
  <1>7. ngx' = ngx_http_finalize_request(p, w)
    BY <1>1 DEF Return
  <1> HIDE DEF p
  <1>8. NgxRequestOK(p) /\ p.created <= MaxSub /\ Work(p) \in Nat
    <2>1. NgxRequestOK(p) /\ p.created <= MaxSub
      BY <1>4 DEF Sound, Taken
    <2> QED BY <2>1, Parts
  <1>9. Rank(ngx') \in 0..(3 + Work(p))
    BY <1>2, <1>5, <1>7, <1>8, Finalize_Rank
  <1> QED BY <1>3, <1>6, <1>8, <1>9 DEF Spent

LEMMA FinalRequest_Spent ==
    ASSUME NEW q, NEW c, Taken(q), plugin_final_request(q, c)
    PROVE  Spent(q)
  <1> DEFINE d == plugin_destroy_ctx([c EXCEPT !.state = "DONE"])
             n == q.sent + 1
             p == [q EXCEPT !.sent = n]
  <1>1. NgxRequestOK(q) /\ Work(q) \in Nat
    BY Taken_OK
  <1>2. \/ Return(q, Failed(d), "ERROR")
        \/ Return(p, d, "ERROR")
        \/ Write(q, d, TRUE)
    BY DEF plugin_final_request
  <1> HIDE DEF d
  <1>3. NgxRequestOK(p)
    <2>1. n \in Nat
      BY <1>1, Fields
    <2> HIDE DEF n
    <2> QED BY <1>1, <2>1 DEF NgxRequestOK, NgxRequest
  <1> HIDE DEF p
  <1>4. ASSUME Return(q, Failed(d), "ERROR") PROVE Spent(q)
    BY <1>1, <1>4, Error_Spent
  <1>5. ASSUME Return(p, d, "ERROR") PROVE Spent(q)
    BY <1>1, <1>3, <1>5, Error_Spent
  <1>6. ASSUME Write(q, d, TRUE) PROVE Spent(q)
    BY <1>6, Write_Spent
  <1> QED BY <1>2, <1>4, <1>5, <1>6

\* What a round of subrequests brings is less than what asking for it takes.
LEMMA StartSubrequest_Spent ==
    ASSUME NEW q, NEW c, Taken(q), plugin_start_subrequest(q, c)
    PROVE  Spent(q)
  <1>1. NgxRequestOK(q) /\ Work(q) \in Nat /\ q.created \in Nat /\ MaxSub \in Nat
    BY Taken_OK, Fields, MaxSubAssumption
  <1>2. PICK n \in Rounds :
          /\ q.created + n <= MaxSub
          /\ \/ Return(HoldRequest(ngx_http_subrequest(q, n)),
                       Started(c, q, n), "DONE")
             \/ \E k \in 0..(n - 1) :
                  plugin_destroy_request(ngx_http_subrequest(q, k),
                                         Failed(Started(c, q, k)))
    BY DEF plugin_start_subrequest
  <1>3. n \in Nat
    BY RoundsAssumption
  <1>4. ASSUME NEW k \in Nat, q.created + k <= MaxSub
        PROVE  /\ Taken(ngx_http_subrequest(q, k))
               /\ Work(ngx_http_subrequest(q, k)) = Work(q)
    <2> DEFINE p == ngx_http_subrequest(q, k)
    <2>1. /\ Sound(p) /\ p.live /\ p.created = q.created + k
          /\ p.weh = q.weh
      BY Subrequest_Sound DEF Taken
    <2>2. Work(p) = Work(q)
      BY <1>4, Subrequest_Work DEF Taken
    <2> HIDE DEF p
    <2>3. Taken(p)
      BY <1>4, <2>1 DEF Taken
    <2> QED BY <2>2, <2>3 DEF p
  <1>5. CASE Return(HoldRequest(ngx_http_subrequest(q, n)),
                    Started(c, q, n), "DONE")
    <2> DEFINE p == ngx_http_subrequest(q, n)
               d == Started(c, q, n)
    <2>1. Taken(p) /\ Work(p) = Work(q)
      BY <1>2, <1>3, <1>4
    <2>2. Return(HoldRequest(p), d, "DONE")
      BY <1>5
    <2> HIDE DEF p, d
    <2>3. Spent(p)
      BY <2>1, <2>2, Hold_Spent
    <2> QED BY <2>1, <2>3 DEF Spent
  <1>6. ASSUME NEW k \in 0..(n - 1),
               plugin_destroy_request(ngx_http_subrequest(q, k),
                                      Failed(Started(c, q, k)))
        PROVE  Spent(q)
    <2> DEFINE p == ngx_http_subrequest(q, k)
               d == Failed(Started(c, q, k))
    <2>1. k \in Nat /\ q.created + k <= MaxSub
      BY <1>1, <1>2, <1>3
    <2>2. Taken(p)
      BY <1>4, <2>1
    <2>3. plugin_destroy_request(p, d)
      BY <1>6
    <2> HIDE DEF p, d
    <2>4. NgxRequestOK(p)
      BY <2>2, Taken_OK
    <2> QED BY <1>1, <2>3, <2>4, DestroyRequest_Spent
  <1> QED BY <1>2, <1>5, <1>6

LEMMA CallPlugin_Spent ==
    ASSUME NEW q, NEW c, Taken(q), CallPlugin(q, c)
    PROVE  Spent(q)
  <1> DEFINE Returned(rc) == [c EXCEPT !.calls = @ + 1, !.rc = rc]
  <1>1. \/ \E rc \in {"OK", "ERROR"} : plugin_final_request(q, Returned(rc))
        \/ plugin_start_subrequest(q, Returned("AGAIN"))
    BY DEF CallPlugin
  <1> HIDE DEF Returned
  <1>2. ASSUME NEW rc, plugin_final_request(q, Returned(rc)) PROVE Spent(q)
    BY <1>2, FinalRequest_Spent
  <1>3. ASSUME plugin_start_subrequest(q, Returned("AGAIN")) PROVE Spent(q)
    BY <1>3, StartSubrequest_Spent
  <1> QED BY <1>1, <1>2, <1>3

LEMMA ProcessRequest_Spent ==
    ASSUME NEW q, NEW c, Taken(q), plugin_process_request(q, c)
    PROVE  Spent(q)
  <1> DEFINE a == Failed(Allocated(c))
             d == plugin_create_ctx(c)
             e == Failed(d)
  <1>1. \/ plugin_destroy_request(q, a)
        \/ plugin_destroy_request(q, e)
        \/ CallPlugin(q, d)
    BY DEF plugin_process_request, Handle
  <1> HIDE DEF a, d, e
  <1>2. NgxRequestOK(q) /\ Work(q) \in Nat
    BY Taken_OK
  <1> QED BY <1>1, <1>2, DestroyRequest_Spent, CallPlugin_Spent

LEMMA CheckSubrequest_Spent ==
    ASSUME NEW q, NEW c, Taken(q), plugin_check_subrequest(q, c)
    PROVE  Spent(q)
  <1> DEFINE d == Failed(c)
  <1>1. \/ Return(HoldRequest(q), c, "DONE")
        \/ plugin_destroy_request(q, d)
        \/ CallPlugin(q, c)
    BY DEF plugin_check_subrequest, PostSubHandle
  <1> HIDE DEF d
  <1>2. NgxRequestOK(q) /\ Work(q) \in Nat
    BY Taken_OK
  <1> QED BY <1>1, <1>2, Hold_Spent, DestroyRequest_Spent, CallPlugin_Spent

LEMMA InitRequest_Spent ==
    ASSUME NEW q, NEW c, Taken(q), plugin_init_request(q, c)
    PROVE  Spent(q)
  <1> DEFINE b == ngx_http_read_client_request_body(q)
             p == plugin_post_body(b)
             d == [c EXCEPT !.state = "INIT"]
             f == Failed(c)
  <1>1. \/ plugin_process_request(q, c)
        \/ plugin_destroy_request(q, f)
        \/ plugin_process_request(p, c)
        \/ Return(b, d, "DONE")
    BY DEF plugin_init_request
  <1>2. p = q
    BY HoldDone_Frame
       DEF Taken, plugin_post_body, ngx_http_read_client_request_body
  <1>3. b = HoldRequest(q)
    BY DEF HoldRequest, ngx_http_read_client_request_body
  <1> HIDE DEF p, b, d, f
  <1>4. NgxRequestOK(q) /\ Work(q) \in Nat
    BY Taken_OK
  <1>5. \/ plugin_process_request(q, c)
        \/ plugin_destroy_request(q, f)
        \/ Return(HoldRequest(q), d, "DONE")
    BY <1>1, <1>2, <1>3
  <1> QED BY <1>4, <1>5, ProcessRequest_Spent, DestroyRequest_Spent, Hold_Spent

-----------------------------------------------------------------------------
(* The steps of the request. *)
\* What makes a step count: it leaves less work, and may only start the
\* reading of the body when it leaves less by two.
LEMMA Nearer ==
    ASSUME XInv, Running(ngx),
           \/ /\ Rank(ngx') \in 0..(1 + Work(ngx))
              /\ client'.body = "reading" => client.body = "reading"
           \/ Rank(ngx') \in 0..Work(ngx)
    PROVE  Left' \in 0..(Left - 1)
  <1> DEFINE r == IF ngx.live /\ client.body = "reading" THEN 1 ELSE 0
             s == IF ngx'.live /\ client'.body = "reading" THEN 1 ELSE 0
  <1>1. NgxRequestOK(ngx) /\ ngx.created <= MaxSub
    BY DEF XInv, IInv, Good, Sound
  <1>2. Work(ngx) \in Nat
    BY <1>1, Parts
  <1>3. Rank(ngx) = 2 + Work(ngx)
    BY DEF Running, Rank
  <1>4. Left = Rank(ngx) + r /\ Left' = Rank(ngx') + s
    BY DEF Left
  <1>5. r \in 0..1 /\ s \in 0..1
    OBVIOUS
  <1>6. (client'.body = "reading" => client.body = "reading") => s <= r
    BY DEF Running
  <1> HIDE DEF r, s
  <1>7. CASE Rank(ngx') \in 0..(1 + Work(ngx)) /\ s <= r
    BY <1>2, <1>3, <1>4, <1>5, <1>7
  <1>8. CASE Rank(ngx') \in 0..Work(ngx)
    BY <1>2, <1>3, <1>4, <1>5, <1>8
  <1> QED BY <1>6, <1>7, <1>8

\* Before a run of the handler the request is as the invariant says.
LEMMA Handler_Left ==
    ASSUME XInv, ngx_http_adfront_handler
    PROVE  Left' \in 0..(Left - 1)
  <1> DEFINE p == PopPosted(ngx)
             q == [p EXCEPT !.weh = "empty"]
             c == Failed(ctx)
  <1>1. /\ ngx.live /\ ngx.posted # <<>> /\ Head(ngx.posted) = Main
        /\ ngx.weh = "run_phases"
    BY DEF ngx_http_adfront_handler, NextPosted
  <1>2. /\ Sound(ngx) /\ NgxRequestOK(ngx) /\ ngx.created <= MaxSub
    BY DEF XInv, IInv, Good, Sound
  <1>3. Sound(p) /\ p.live /\ p.created = ngx.created /\ p.weh = ngx.weh
    BY <1>1, <1>2, PopPosted_Sound, PopPosted_Frame DEF Keeps
  <1>4. Work(p) = Work(ngx) - 1 /\ Work(ngx) \in Nat
    <2>1. Work(p) = Work(ngx) - (IF Head(ngx.posted) = Main THEN 1 ELSE 4)
      BY <1>1, <1>2, Pop_Work
    <2> HIDE DEF p
    <2> QED BY <1>1, <1>2, <2>1, Parts
  <1>5. \/ Return(q, c, "ERROR")
        \/ plugin_init_request(q, ctx)
        \/ plugin_check_subrequest(q, ctx)
        \/ plugin_done_request(q, ctx)
    BY DEF ngx_http_adfront_handler
  <1> HIDE DEF p, c
  <1>6. NgxRequestOK(p)
    BY <1>3 DEF Sound
  <1>7. /\ q.created = p.created /\ q.sub = p.sub /\ q.posted = p.posted
        /\ q.postponed = p.postponed /\ q.weh = "empty" /\ q.live = p.live
    BY <1>6, SetWeh_Frame DEF Keeps
  <1>8. Sound(q)
    BY <1>3, SetWeh_Sound DEF WriteHandlers
  <1> HIDE DEF q
  <1>9. Taken(q)
    BY <1>2, <1>3, <1>7, <1>8 DEF Taken
  <1>10. Work(q) = Work(ngx) - 3
    <2>1. p.created <= MaxSub
      BY <1>2, <1>3
    <2>2. Work(q) = Work(p) - Due(p.weh) + Due(q.weh)
      BY <1>6, <1>7, <2>1, Work_Same
    <2>3. Due(p.weh) = 2 /\ Due(q.weh) = 0
      BY <1>1, <1>3, <1>7 DEF Due
    <2> QED BY <1>4, <2>2, <2>3
  <1>11. NgxRequestOK(q) /\ Work(q) \in Nat
    BY <1>9, Taken_OK
  <1>12. Spent(q)
    <2>1. CASE Return(q, c, "ERROR")
      BY <1>11, <2>1, Error_Spent
    <2>2. CASE plugin_init_request(q, ctx)
      BY <1>9, <2>2, InitRequest_Spent
    <2>3. CASE plugin_check_subrequest(q, ctx)
      BY <1>9, <2>3, CheckSubrequest_Spent
    <2>4. CASE plugin_done_request(q, ctx)
      BY <1>9, <2>4, Write_Spent DEF plugin_done_request
    <2> QED BY <1>5, <2>1, <2>2, <2>3, <2>4
  <1>13. Rank(ngx') \in 0..Work(ngx)
    BY <1>4, <1>10, <1>11, <1>12 DEF Spent
  <1>14. Running(ngx)
    BY <1>1 DEF Running
  <1> QED BY <1>13, <1>14, Nearer

\* The writer, but for a socket that takes nothing more, ends the request, or
\* leaves its place to a subrequest, unless it has not the right to write.
LEMMA Writer_Rank ==
    ASSUME NEW q, Sound(q), q.live, q.created <= MaxSub, q.weh = "writer",
           NEW w \in Writes, NEW p, p = ngx_http_writer(q, w)
    PROVE  /\ Rank(p) \in 0..(2 + Work(q))
           /\ w # "AGAIN" => p = q \/ Rank(p) \in 0..(1 + Work(q))
  <1> DEFINE f == ngx_http_output_filter(q, FALSE, w)
             e == [f EXCEPT !.weh = "empty"]
  <1>1. NgxRequestOK(q)
    BY DEF Sound
  <1>2. Sound(f) /\ f.created = q.created /\ f.weh = "writer" /\ f.live
    <2>1. Sound(f) /\ f.created = q.created
      BY OutputFilter_Sound
    <2>2. f.weh = q.weh /\ f.live = q.live
      BY <1>1, OutputFilter_Frame
    <2> QED BY <2>1, <2>2
  <1>3. /\ Work(f) <= Work(q)
        /\ q.data = Main /\ q.postponed # <<>> => Work(f) = Work(q) - 1
    BY <1>1, OutputFilter_Work
  <1>4. /\ q.data # Main => f = q
        /\ q.data = Main /\ q.postponed = <<>> =>
             /\ f.postponed = <<>> /\ f.outq = 0 /\ f.buffered = (w = "AGAIN")
    <2>1. q.data # Main => f = [q EXCEPT !.outq = q.outq]
      BY DEF ngx_http_output_filter
    <2>2. [q EXCEPT !.outq = q.outq] = q
      BY <1>1 DEF NgxRequestOK, NgxRequest
    <2>3. CASE q.data = Main /\ q.postponed = <<>>
      <3>1. f = [q EXCEPT !.sent = q.sent + q.outq, !.outq = 0,
                          !.buffered = (w = "AGAIN")]
        BY <1>1, <2>3 DEF ngx_http_output_filter, NgxRequestOK, NgxRequest
      <3> HIDE DEF f
      <3> QED BY <1>1, <2>3, <3>1 DEF NgxRequestOK, NgxRequest
    <2> QED BY <2>1, <2>2, <2>3
  <1>5. p = IF w = "ERROR" THEN ngx_http_terminate_request(f)
            ELSE IF f.buffered \/ Postponed(f) THEN f
            ELSE ngx_http_finalize_request(e, "OK")
    BY DEF ngx_http_writer
  <1> HIDE DEF f
  <1>6. NgxRequestOK(f) /\ f.created <= MaxSub
    BY <1>2 DEF Sound
  <1>7. Work(q) \in Nat /\ Work(f) \in Nat
    BY <1>1, <1>6, Parts
  <1>8. CASE w = "ERROR"
    <2>1. p = ngx_http_terminate_request(f)
      BY <1>5, <1>8
    <2>2. Rank(p) \in 0..1
      BY <1>6, <2>1, Terminate_Rank
    <2> QED BY <1>7, <2>2
  <1>9. CASE w # "ERROR" /\ (f.buffered \/ Postponed(f))
    <2>1. p = f
      BY <1>5, <1>9
    <2>2. Rank(p) = 2 + Work(f)
      BY <1>2, <2>1 DEF Rank
    <2>3. w # "AGAIN" => ~(q.data = Main /\ q.postponed = <<>>)
      <3> SUFFICES ASSUME w # "AGAIN", q.data = Main, q.postponed = <<>>
                   PROVE  FALSE
        OBVIOUS
      <3>1. f.postponed = <<>> /\ f.outq = 0 /\ f.buffered = (w = "AGAIN")
        BY <1>4
      <3>2. ~f.buffered
        BY <3>1
      <3>3. ~Postponed(f)
        BY <3>1 DEF Postponed
      <3> QED BY <1>9, <3>2, <3>3
    <2> QED BY <1>3, <1>4, <1>7, <2>1, <2>2, <2>3
  <1>10. CASE w # "ERROR" /\ ~(f.buffered \/ Postponed(f))
    <2>1. p = ngx_http_finalize_request(e, "OK")
      BY <1>5, <1>10
    <2>2. /\ e.created = f.created /\ e.sub = f.sub /\ e.posted = f.posted
          /\ e.postponed = f.postponed /\ e.weh = "empty"
          /\ e.outq = f.outq /\ e.buffered = f.buffered
      BY <1>6, SetWeh_Frame DEF Keeps
    <2>3. Sound(e)
      BY <1>2, SetWeh_Sound DEF WriteHandlers
    <2> HIDE DEF e
    <2>4. NgxRequestOK(e) /\ e.created <= MaxSub
      BY <1>6, <2>2, <2>3 DEF Sound
    <2>5. Work(e) = Work(f) - Due(f.weh) + Due(e.weh)
      BY <1>6, <2>2, Work_Same
    <2>6. Due(f.weh) = 1 /\ Due(e.weh) = 0
      BY <1>2, <2>2 DEF Due
    <2>7. ~(e.buffered \/ Postponed(e))
      BY <1>10, <2>2 DEF Postponed
    <2>8. "OK" \in Writes /\ "OK" # "ERROR"
      BY DEF Writes
    <2>9. Rank(p) \in 0..(2 + Work(e))
      BY <2>1, <2>2, <2>4, <2>7, <2>8, Finalize_Rank
    <2>10. Work(e) <= Work(q) - 1
      BY <1>3, <1>7, <2>5, <2>6
    <2>11. Work(e) \in Nat
      BY <2>4, Parts
    <2> QED BY <1>7, <2>9, <2>10, <2>11
  <1> QED BY <1>8, <1>9, <1>10

LEMMA RunMain_Left ==
    ASSUME XInv, RunMain
    PROVE  Left' \in 0..(Left - 1)
  <1> DEFINE q == PopPosted(ngx)
  <1>1. /\ ngx.live /\ ngx.posted # <<>> /\ Head(ngx.posted) = Main
        /\ UNCHANGED client
    BY DEF RunMain, NextPosted
  <1>2. /\ Sound(ngx) /\ NgxRequestOK(ngx) /\ ngx.created <= MaxSub
    BY DEF XInv, IInv, Good, Sound
  <1>3. Sound(q) /\ q.live /\ q.created = ngx.created /\ q.weh = ngx.weh
    BY <1>1, <1>2, PopPosted_Sound, PopPosted_Frame DEF Keeps
  <1>4. Work(q) = Work(ngx) - 1 /\ Work(ngx) \in Nat /\ Work(q) \in Nat
    <2>1. Work(q) = Work(ngx) - (IF Head(ngx.posted) = Main THEN 1 ELSE 4)
      BY <1>1, <1>2, Pop_Work
    <2> HIDE DEF q
    <2>2. NgxRequestOK(q) /\ q.created <= MaxSub
      BY <1>2, <1>3 DEF Sound
    <2> QED BY <1>1, <1>2, <2>1, <2>2, Parts
  <1>5. \/ /\ ngx.weh = "writer"
           /\ \E w \in WriteResults(q, FALSE) : ngx' = ngx_http_writer(q, w)
        \/ ngx.weh = "empty" /\ ngx' = q
        \/ ngx.weh = "terminate" /\ ngx' = ngx_http_terminate_handler(q)
    BY DEF RunMain
  <1> HIDE DEF q
  <1>6. ASSUME Running(ngx), Rank(ngx') \in 0..(2 + Work(q))
        PROVE  Left' \in 0..(Left - 1)
    <2>1. Rank(ngx') \in 0..(1 + Work(ngx))
      BY <1>4, <1>6
    <2> QED BY <1>1, <1>6, <2>1, Nearer
  <1>7. CASE /\ ngx.weh = "writer"
             /\ \E w \in WriteResults(q, FALSE) : ngx' = ngx_http_writer(q, w)
    <2>1. PICK w \in WriteResults(q, FALSE) : ngx' = ngx_http_writer(q, w)
      BY <1>7
    <2>2. w \in Writes
      BY DEF WriteResults, OutputResults, Writes
    <2>3. q.weh = "writer" /\ q.created <= MaxSub
      BY <1>2, <1>3, <1>7
    <2>4. Rank(ngx') \in 0..(2 + Work(q))
      BY <1>3, <2>1, <2>2, <2>3, Writer_Rank
    <2>5. Running(ngx)
      BY <1>1, <1>7 DEF Running
    <2> QED BY <1>6, <2>4, <2>5
  <1>8. CASE ngx.weh = "empty" /\ ngx' = q
    <2>1. Rank(ngx') = 2 + Work(q)
      BY <1>3, <1>8 DEF Rank
    <2>2. Running(ngx)
      BY <1>1, <1>8 DEF Running
    <2> QED BY <1>4, <1>6, <2>1, <2>2
  <1>9. CASE ngx.weh = "terminate" /\ ngx' = ngx_http_terminate_handler(q)
    <2>1. ~ngx'.live
      BY <1>3, <1>9 DEF ngx_http_terminate_handler, Sound, NgxRequestOK,
                        NgxRequest
    <2>2. Left' = 0
      BY <2>1 DEF Left, Rank
    <2>3. Left \in {1, 2}
      BY <1>1, <1>9 DEF Left, Rank
    <2> QED BY <2>2, <2>3
  <1> QED BY <1>5, <1>7, <1>8, <1>9

\* A subrequest that is finalized makes one run of its parent due.
LEMMA SubrequestFinished_Work ==
    ASSUME NEW q, Sound(q), q.live, q.created <= MaxSub,
           NEW i \in 1..q.created, q.sub[i] # "done",
           NEW p, p = SubrequestFinished(q, i)
    PROVE  /\ Rank(p) \in 0..(5 + Work(q))
           /\ i \in Busy(q) => Rank(p) \in 0..(1 + Work(q))
  <1> DEFINE r == plugin_subrequest_post_handler(q)
  <1>1. NgxRequestOK(q)
    BY DEF Sound
  <1>2. /\ r.created = q.created /\ r.sub = q.sub /\ r.posted = q.posted
        /\ r.postponed = q.postponed /\ r.weh = "run_phases"
        /\ r.live = q.live
    BY <1>1, SetWeh_Frame DEF plugin_subrequest_post_handler, Keeps
  <1>3. Sound(r)
    BY SetWeh_Sound DEF plugin_subrequest_post_handler, WriteHandlers
  <1>4. p = ngx_http_finalize_subrequest(r, i)
    BY DEF SubrequestFinished
  <1> HIDE DEF r
  <1>5. Busy(r) = Busy(q)
    BY <1>2 DEF Busy
  <1>6. Work(q) \in Nat /\ Work(r) \in Nat /\ Work(r) <= Work(q) + 2
    <2>1. Work(r) = Work(q) - Due(q.weh) + Due(r.weh)
      BY <1>1, <1>2, Work_Same
    <2>2. Due(q.weh) \in 0..2 /\ Due(r.weh) = 2
      BY <1>2 DEF Due
    <2>3. Work(q) \in Nat
      BY <1>1, Parts
    <2>4. NgxRequestOK(r) /\ r.created <= MaxSub
      BY <1>2, <1>3 DEF Sound
    <2>5. Work(r) \in Nat
      BY <2>4, Parts
    <2> QED BY <2>1, <2>2, <2>3, <2>5
  <1>7. r.live /\ r.created <= MaxSub /\ i \in 1..r.created /\ r.sub[i] # "done"
    BY <1>2
  <1>8. Work(p) <= Work(r) + (IF i \in Busy(r) THEN -3 ELSE 1)
    BY <1>3, <1>4, <1>7, FinalizeSubrequest_Work
  <1>9. Sound(p) /\ p.created = r.created
    BY <1>3, <1>4, <1>7, FinalizeSubrequest_Sound
  <1>10. NgxRequestOK(p) /\ p.created <= MaxSub
    BY <1>7, <1>9 DEF Sound
  <1>11. Work(p) \in Nat
    BY <1>10, Parts
  <1>12. /\ Work(p) <= 3 + Work(q)
         /\ i \in Busy(q) => Work(p) <= Work(q) - 1
    BY <1>5, <1>6, <1>8, <1>11
  <1>13. Rank(p) \in {0, 1, 2 + Work(p)}
    BY DEF Rank
  <1>14. i \in Busy(q) => Rank(p) \in 0..(1 + Work(q))
    BY <1>6, <1>11, <1>12, <1>13
  <1> QED BY <1>6, <1>11, <1>12, <1>13, <1>14

\* While a subrequest is queued or at its server, the request is not being
\* terminated.
LEMMA NotTerminated ==
    ASSUME XInv, ngx.live, ngx.posted # <<Main>>
    PROVE  Running(ngx)
  BY DEF XInv, Settled, WakeInv, Running

LEMMA RunSubrequest_Left ==
    ASSUME XInv, NEW i \in 1..ngx.created, RunSubrequest(i)
    PROVE  Left' \in 0..(Left - 1)
  <1> DEFINE q == PopPosted(ngx)
             n == [q EXCEPT !.noup = @ \cup {i}]
             u == [q EXCEPT !.sub[i] = "upstream"]
  <1>1. /\ ngx.live /\ ngx.posted # <<>> /\ Head(ngx.posted) = i
        /\ client' = client
    BY DEF RunSubrequest, NextPosted
  <1>2. /\ Sound(ngx) /\ NgxRequestOK(ngx) /\ ngx.created <= MaxSub
    BY DEF XInv, IInv, Good, Sound
  <1>3. /\ Sound(q) /\ q.live /\ q.created = ngx.created /\ q.sub = ngx.sub
    BY <1>1, <1>2, PopPosted_Sound, PopPosted_Frame DEF Keeps
  <1>4. i # Main
    BY DEF Main
  <1>5. Running(ngx)
    <2>1. ngx.posted # <<Main>>
      BY <1>1, <1>4
    <2> QED BY <1>1, <2>1, NotTerminated
  <1>6. Work(q) = Work(ngx) - 4 /\ Work(ngx) \in Nat /\ Work(q) \in Nat
    <2>1. Work(q) = Work(ngx) - (IF Head(ngx.posted) = Main THEN 1 ELSE 4)
      BY <1>1, <1>2, Pop_Work
    <2> HIDE DEF q
    <2>2. NgxRequestOK(q) /\ q.created <= MaxSub
      BY <1>2, <1>3 DEF Sound
    <2> QED BY <1>1, <1>2, <1>4, <2>1, <2>2, Parts
  <1>7. \/ ngx.sub[i] = "posted" /\ ngx' = u
        \/ /\ ngx.sub[i] \in {"posted", "final"}
           /\ ngx' = SubrequestFinished(q, i)
        \/ ngx.sub[i] = "posted" /\ ngx' = SubrequestFinished(n, i)
    BY DEF RunSubrequest
  <1> HIDE DEF q
  <1>8. NgxRequestOK(q) /\ q.created <= MaxSub
    BY <1>2, <1>3 DEF Sound
  <1>9. CASE ngx.sub[i] = "posted" /\ ngx' = u
    <2>1. /\ u.created = q.created /\ u.posted = q.posted
          /\ u.postponed = q.postponed /\ u.weh = q.weh
          /\ u.sub = [q.sub EXCEPT ![i] = "upstream"]
      BY <1>8 DEF NgxRequestOK, NgxRequest
    <2>2. /\ u.sub[i] = "upstream"
          /\ \A k \in 1..q.created \ {i} : u.sub[k] = q.sub[k]
      BY <1>3, <1>8, <2>1, Fields
    <2> HIDE DEF u
    <2>3. Busy(u) = Busy(q) /\ QueuedSubs(u) = QueuedSubs(q)
      BY <1>3, <1>9, <2>1, <2>2 DEF Busy, QueuedSubs
    <2>4. Work(u) = Work(q)
      BY <2>1, <2>3 DEF Work
    <2>5. Rank(u) \in {0, 1, 2 + Work(u)}
      BY DEF Rank
    <2>6. Rank(ngx') \in 0..Work(ngx)
      BY <1>6, <1>9, <2>4, <2>5
    <2> QED BY <1>5, <2>6, Nearer
  <1>10. ASSUME NEW p, Sound(p), p.created = q.created, p.sub = q.sub,
                p.live, Work(p) = Work(q),
                ngx.sub[i] \in {"posted", "final"},
                ngx' = SubrequestFinished(p, i)
         PROVE  Left' \in 0..(Left - 1)
    <2>1. i \in 1..p.created /\ p.sub[i] # "done" /\ p.created <= MaxSub
      BY <1>3, <1>8, <1>10
    <2>2. Rank(ngx') \in 0..(5 + Work(p))
      BY <1>10, <2>1, SubrequestFinished_Work
    <2>3. Rank(ngx') \in 0..(1 + Work(ngx))
      BY <1>6, <1>10, <2>2
    <2> QED BY <1>1, <1>5, <2>3, Nearer
  <1>11. CASE /\ ngx.sub[i] \in {"posted", "final"}
              /\ ngx' = SubrequestFinished(q, i)
    BY <1>3, <1>10, <1>11
  <1>12. CASE ngx.sub[i] = "posted" /\ ngx' = SubrequestFinished(n, i)
    <2>1. /\ Sound(n) /\ n.created = q.created /\ n.sub = q.sub
          /\ n.live = q.live
      BY <1>3, NoUpstream_Sound
    <2>2. /\ n.posted = q.posted /\ n.postponed = q.postponed
          /\ n.weh = q.weh
      BY <1>8 DEF NgxRequestOK, NgxRequest
    <2> HIDE DEF n
    <2>3. Work(n) = Work(q)
      <3>1. Busy(n) = Busy(q) /\ QueuedSubs(n) = QueuedSubs(q)
        BY <2>1, <2>2 DEF Busy, QueuedSubs
      <3> QED BY <2>1, <2>2, <3>1 DEF Work
    <2> QED BY <1>3, <1>10, <1>12, <2>1, <2>3
  <1> QED BY <1>7, <1>9, <1>11, <1>12

LEMMA UpstreamDone_Left ==
    ASSUME XInv, NEW i \in 1..ngx.created, UpstreamDone(i)
    PROVE  Left' \in 0..(Left - 1)
  <1>1. /\ ngx.live /\ ngx.posted = <<>> /\ ngx.sub[i] = "upstream"
        /\ ngx' = SubrequestFinished(ngx, i) /\ client' = client
    BY DEF UpstreamDone, EventLoop
  <1>2. Sound(ngx) /\ ngx.created <= MaxSub
    BY DEF XInv, IInv, Good
  <1>3. i \in Busy(ngx)
    BY <1>1 DEF Busy
  <1>4. Rank(ngx') \in 0..(1 + Work(ngx))
    BY <1>1, <1>2, <1>3, SubrequestFinished_Work
  <1>5. Running(ngx)
    <2>1. ngx.posted # <<Main>>
      BY <1>1
    <2> QED BY <1>1, <2>1, NotTerminated
  <1> QED BY <1>1, <1>4, <1>5, Nearer

LEMMA ClientWritable_Left ==
    ASSUME XInv, ClientWritable, ~UNCHANGED vars
    PROVE  Left' \in 0..(Left - 1)
  <1>1. PICK w \in WriteResults(ngx, FALSE) \ {"AGAIN"} :
          /\ ngx' = ngx_http_writer(ngx, w)
          /\ ctx' = IF w = "ERROR" THEN Failed(ctx) ELSE ctx
    BY DEF ClientWritable
  <1>2. /\ w \in Writes /\ w # "AGAIN" /\ ngx.live /\ ngx.weh = "writer"
        /\ client' = client
    BY DEF ClientWritable, EventLoop, WriteResults, OutputResults, Writes
  <1>3. Sound(ngx) /\ NgxRequestOK(ngx) /\ ngx.created <= MaxSub
    BY DEF XInv, IInv, Good, Sound
  <1>4. Running(ngx)
    BY <1>2 DEF Running
  <1>5. Work(ngx) \in Nat
    BY <1>3, Parts
  <1>6. ngx' = ngx \/ Rank(ngx') \in 0..(1 + Work(ngx))
    BY <1>1, <1>2, <1>3, Writer_Rank
  <1>7. CASE w = "ERROR"
    <2>1. ngx'.weh = "terminate"
      <3> DEFINE f == ngx_http_output_filter(ngx, FALSE, w)
      <3>1. ngx' = ngx_http_terminate_request(f)
        BY <1>1, <1>7 DEF ngx_http_writer
      <3>2. Sound(f)
        BY <1>2, <1>3, OutputFilter_Sound
      <3> HIDE DEF f
      <3>3. NgxRequestOK(f)
        BY <3>2 DEF Sound
      <3> QED BY <3>1, <3>3, Terminate_Frame
    <2>2. ngx' # ngx
      BY <1>2, <2>1
    <2> QED BY <1>2, <1>4, <1>6, <2>2, Nearer
  <1>8. CASE w # "ERROR"
    <2>1. ctx' = ctx
      BY <1>1, <1>8
    <2>2. ngx' # ngx
      BY <1>2, <2>1 DEF vars
    <2> QED BY <1>2, <1>4, <1>6, <2>2, Nearer
  <1> QED BY <1>7, <1>8

LEMMA ClientGone_Left ==
    ASSUME XInv, ClientGone
    PROVE  Left' \in 0..(Left - 1)
  <1>1. /\ ngx' = ngx_http_terminate_request(ngx) /\ client' = client
        /\ ngx.live /\ ngx.posted = <<>>
    BY DEF ClientGone, EventLoop
  <1>2. NgxRequestOK(ngx) /\ ngx.created <= MaxSub
    BY DEF XInv, IInv, Good, Sound
  <1>3. Work(ngx) \in Nat
    BY <1>2, Parts
  <1>4. Rank(ngx') \in 0..1
    BY <1>1, <1>2, Terminate_Rank
  <1>5. Running(ngx)
    <2>1. ngx.posted # <<Main>>
      BY <1>1
    <2> QED BY <1>1, <2>1, NotTerminated
  <1>6. Rank(ngx') \in 0..(1 + Work(ngx))
    BY <1>3, <1>4
  <1> QED BY <1>1, <1>5, <1>6, Nearer

LEMMA BodyEvent_Left ==
    ASSUME XInv, BodyEvent
    PROVE  Left' \in 0..(Left - 1)
  <1>1. /\ ngx.live /\ Sound(ngx) /\ NgxRequestOK(ngx) /\ ngx.posted = <<>>
        /\ ngx.created = 0 /\ ngx.created <= MaxSub /\ client \in Client
    BY DEF BodyEvent, EventLoop, XInv, IInv, Unstarted, Good, Sound
  <1>2. /\ \/ ngx' = ngx_http_close_request(ngx)
           \/ Return(ngx, Failed(ctx), "ERROR")
        /\ client'.body # "reading"
    BY <1>1 DEF BodyEvent, plugin_post_body, ngx_http_finalize_request, Client
  <1>3. Work(ngx) \in Nat
    BY <1>1, Parts
  <1>4. Running(ngx)
    <2>1. ngx.posted # <<Main>>
      BY <1>1
    <2> QED BY <1>1, <2>1, NotTerminated
  <1>5. CASE ngx' = ngx_http_close_request(ngx)
    <2>1. Outstanding(ngx) = {}
      BY <1>1 DEF Outstanding
    <2>2. ~ngx'.live
      BY <1>1, <1>5, <2>1, Close_Frame
    <2>3. Rank(ngx') \in 0..(1 + Work(ngx))
      BY <1>3, <2>2 DEF Rank
    <2> QED BY <1>2, <1>4, <2>3, Nearer
  <1>6. CASE Return(ngx, Failed(ctx), "ERROR")
    <2>1. ngx' = ngx_http_terminate_request(ngx)
      BY <1>6 DEF Return, ngx_http_finalize_request
    <2>2. Rank(ngx') \in 0..1
      BY <1>1, <2>1, Terminate_Rank
    <2>3. Rank(ngx') \in 0..(1 + Work(ngx))
      BY <1>3, <2>2
    <2> QED BY <1>2, <1>4, <2>3, Nearer
  <1> QED BY <1>2, <1>5, <1>6

(* Every step brings the end of the request nearer: the handler, the post  *)
(* handlers of its subrequests and the writer post each other for as long  *)
(* as there are subrequests to ask for and no longer, and an event that    *)
(* has come is not waited for again.                                       *)
THEOREM EndComesNearer == Spec => EveryStepCounts
  <1>1. ASSUME XInv, [Next]_vars
        PROVE  [Left' \in 0..(Left - 1)]_vars
    <2> SUFFICES ASSUME Next, ~UNCHANGED vars
                 PROVE  Left' \in 0..(Left - 1)
      BY <1>1
    <2>1. CASE RunPosted
      BY <1>1, <2>1, Handler_Left, RunMain_Left, RunSubrequest_Left
         DEF RunPosted
    <2>2. CASE \E i \in 1..ngx.created : UpstreamDone(i)
      BY <1>1, <2>2, UpstreamDone_Left
    <2>3. CASE ClientWritable
      BY <1>1, <2>3, ClientWritable_Left
    <2>4. CASE ClientGone
      BY <1>1, <2>4, ClientGone_Left
    <2>5. CASE BodyEvent
      BY <1>1, <2>5, BodyEvent_Left
    <2> QED BY <2>1, <2>2, <2>3, <2>4, <2>5 DEF Next, Freed
  <1> QED BY <1>1, SecondInductive, PTL DEF Spec, Safety, EveryStepCounts

-----------------------------------------------------------------------------
(* The contract of the plugin: every step is one of PluginProtocol, or     *)
(* changes nothing that PluginProtocol speaks of.                          *)
LEMMA StageIs ==
    /\ Stage = IF ~Running(ngx) THEN "over"
               ELSE IF ctx.state \in {"NONE", "INIT"} THEN "fresh"
               ELSE IF ctx.state = "WAIT" THEN "asked" ELSE "over"
    /\ Waiting = IF Stage = "asked"
                 THEN {i \in 1..ngx.created :
                         InRound(ctx, i) /\ ~SubDone(ngx, i)}
                 ELSE {}
  BY DEF Stage, Waiting, Running, InRound

LEMMA StageWillBe ==
    /\ Stage' = IF ~Running(ngx') THEN "over"
                ELSE IF ctx'.state \in {"NONE", "INIT"} THEN "fresh"
                ELSE IF ctx'.state = "WAIT" THEN "asked" ELSE "over"
    /\ Waiting' = IF Stage' = "asked"
                  THEN {i \in 1..ngx'.created :
                          InRound(ctx', i) /\ ~SubDone(ngx', i)}
                  ELSE {}
  BY DEF Stage, Waiting, Running, InRound, SubDone

LEMMA Abandoned ==
    ASSUME Stage' = "over", ctx'.calls = ctx.calls
    PROVE  [Plugin!Next]_(Plugin!vars)
  <1>1. Waiting' = {}
    BY StageWillBe
  <1>2. CASE Stage = "over"
    <2>1. Waiting = {}
      BY <1>2, StageIs
    <2> QED BY <1>1, <1>2, <2>1 DEF Plugin!vars
  <1>3. CASE Stage \in {"fresh", "asked"}
    BY <1>1, <1>3 DEF Plugin!Next, Plugin!Abandon
  <1> QED BY <1>2, <1>3, StageIs

\* The handler that is left waiting waits for something.
LEMMA Asking ==
    ASSUME XInv', ctx'.state = "WAIT", Running(ngx'), ngx'.weh = "empty"
    PROVE  Stage' = "asked" /\ Waiting' \in (SUBSET Nat) \ {{}}
  <1>1. Stage' = "asked"
    BY StageWillBe
  <1>2. Waiting' = {i \in 1..ngx'.created :
                      InRound(ctx', i) /\ ~SubDone(ngx', i)}
    BY <1>1, StageWillBe
  <1>3. /\ WakeInv(ngx', ctx') /\ ctx'.subrequests \in Seq(1..ngx'.created)
    BY DEF XInv, Settled, IInv, Good
  <1>4. ~AllDone(ngx', ctx'.subrequests)
    BY <1>3 DEF WakeInv, AwakeInv
  <1>5. PICK j \in DOMAIN ctx'.subrequests :
          ~SubDone(ngx', ctx'.subrequests[j])
    BY <1>4 DEF AllDone
  <1>6. ctx'.subrequests[j] \in 1..ngx'.created
    BY <1>3, <1>5, ElementOfSeq, LenProperties
  <1>7. ctx'.subrequests[j] \in Waiting'
    BY <1>2, <1>5, <1>6 DEF InRound
  <1>8. Waiting' \in SUBSET Nat
    BY <1>2
  <1> QED BY <1>1, <1>7, <1>8

LEMMA Inside_Plugin ==
    ASSUME XInv, XInv', Inside
    PROVE  [Plugin!Next]_(Plugin!vars)
  <1>1. Running(ngx) /\ ctx.state \in {"NONE", "WAIT", "DONE"}
    BY DEF Inside
  <1>2. CASE ctx'.calls = ctx.calls /\ ~Running(ngx')
    BY <1>2, StageWillBe, Abandoned
  <1>3. CASE ctx'.calls = ctx.calls /\ ctx'.state \in {"DONE", "ERROR"}
    BY <1>3, StageWillBe, Abandoned
  <1>4. CASE /\ ctx'.calls = ctx.calls + 1
             /\ ctx.state = "NONE" \/ (ctx.state = "WAIT" /\ Finished(ngx))
             /\ ctx'.state \in {"WAIT", "DONE", "ERROR"}
             /\ ctx'.state = "WAIT" => Running(ngx') /\ ngx'.weh = "empty"
    <2>1. \/ Stage' = "over" /\ Waiting' = {}
          \/ Stage' = "asked" /\ Waiting' \in (SUBSET Nat) \ {{}}
      BY <1>4, StageWillBe, Asking
    <2>2. Plugin!Call
      BY <1>4, <2>1 DEF Plugin!Call
    <2>3. \/ Stage = "fresh"
          \/ Stage = "asked" /\ Waiting = {}
      BY <1>1, <1>4, StageIs DEF Finished
    <2> QED BY <2>2, <2>3
            DEF Plugin!Next, Plugin!Handle, Plugin!PostSubHandle
  <1>5. CASE /\ ctx.state = "NONE" /\ ctx'.state = "INIT"
             /\ ctx'.calls = ctx.calls
    <2>1. CASE Running(ngx')
      <3>1. /\ Stage = "fresh" /\ Stage' = "fresh"
            /\ Waiting = {} /\ Waiting' = {}
        BY <1>1, <1>5, <2>1, StageIs, StageWillBe
      <3> QED BY <1>5, <3>1 DEF Plugin!vars
    <2> QED BY <1>2, <1>5, <2>1
  <1>6. CASE /\ ctx.state = "WAIT" /\ ctx' = ctx /\ Running(ngx')
             /\ ngx'.created = ngx.created /\ ngx'.sub = ngx.sub
    <2>1. Stage' = Stage /\ Waiting' = Waiting
      BY <1>1, <1>6, StageIs, StageWillBe DEF SubDone
    <2> QED BY <1>6, <2>1 DEF Plugin!vars
  <1> QED BY <1>2, <1>3, <1>4, <1>5, <1>6 DEF Inside

LEMMA Aside_Plugin ==
    ASSUME Aside
    PROVE  [Plugin!Next]_(Plugin!vars)
  <1>1. /\ ctx'.state = ctx.state /\ ctx'.calls = ctx.calls
        /\ ctx'.subrequests = ctx.subrequests
        /\ Running(ngx') => Running(ngx)
        /\ ngx'.created = ngx.created
    BY DEF Aside
  <1>2. CASE Stage' = "over"
    BY <1>1, <1>2, Abandoned
  <1>3. CASE Stage' # "over"
    <2>1. Stage = Stage'
      BY <1>1, <1>3, StageIs, StageWillBe
    <2>2. CASE Stage # "asked"
      <3>1. Waiting = {} /\ Waiting' = {}
        BY <2>1, <2>2, StageIs, StageWillBe
      <3> QED BY <1>1, <2>1, <3>1 DEF Plugin!vars
    <2>3. CASE Stage = "asked"
      <3>1. /\ Waiting = {i \in 1..ngx.created :
                            InRound(ctx, i) /\ ~SubDone(ngx, i)}
            /\ Waiting' = {i \in 1..ngx.created :
                             InRound(ctx, i) /\ ~SubDone(ngx', i)}
        BY <1>1, <2>1, <2>3, StageIs, StageWillBe DEF InRound
      <3>2. CASE \A k \in 1..ngx.created : SubDone(ngx', k) <=> SubDone(ngx, k)
        <4>1. Waiting' = Waiting
          BY <3>1, <3>2
        <4> QED BY <1>1, <2>1, <4>1 DEF Plugin!vars
      <3>3. CASE \E i \in 1..ngx.created :
                   /\ SubDone(ngx', i)
                   /\ \A k \in 1..ngx.created \ {i} : ngx'.sub[k] = ngx.sub[k]
        <4>1. PICK i \in 1..ngx.created :
                /\ SubDone(ngx', i)
                /\ \A k \in 1..ngx.created \ {i} : ngx'.sub[k] = ngx.sub[k]
          BY <3>3
        <4>2. Waiting' = Waiting \ {i}
          BY <3>1, <4>1 DEF SubDone
        <4>3. CASE i \in Waiting
          <5>1. Plugin!SubrequestDone(i)
            BY <1>1, <2>1, <2>3, <4>2, <4>3 DEF Plugin!SubrequestDone
          <5> QED BY <4>3, <5>1 DEF Plugin!Next
        <4>4. CASE i \notin Waiting
          <5>1. Waiting' = Waiting
            BY <4>2, <4>4
          <5> QED BY <1>1, <2>1, <5>1 DEF Plugin!vars
        <4> QED BY <4>3, <4>4
      <3> QED BY <3>2, <3>3 DEF Aside
    <2> QED BY <2>2, <2>3
  <1> QED BY <1>2, <1>3

(* The handler keeps what plugin.h and the comments of                     *)
(* ngx_handler_interface.cc promise the plugin: Handle once and first,     *)
(* PostSubHandle after PLUGIN_AGAIN and only when every subrequest asked   *)
(* for is done, and no call after any other return value.                  *)
THEOREM ContractKept == Spec => PluginCalledInOrder
  <1>1. ASSUME Init
        PROVE  Plugin!Init
    <2>1. /\ Stage = "fresh" /\ ctx.calls = 0
      BY <1>1, StageIs DEF Init, NewRequest, NewContext, Running
    <2>2. Waiting = {}
      BY <2>1, StageIs
    <2> QED BY <2>1, <2>2 DEF Plugin!Init
  <1>2. ASSUME XInv, [Next]_vars
        PROVE  [Plugin!Next]_(Plugin!vars)
    <2>1. CASE UNCHANGED vars
      <3>1. Stage' = Stage /\ Waiting' = Waiting /\ ctx'.calls = ctx.calls
        BY <2>1, StageIs, StageWillBe DEF vars
      <3> QED BY <3>1 DEF Plugin!vars
    <2>2. CASE ~UNCHANGED vars
      <3>1. XInv' /\ (Inside \/ Aside)
        BY <1>2, <2>2, Step
      <3> QED BY <1>2, <3>1, Inside_Plugin, Aside_Plugin
    <2> QED BY <2>1, <2>2
  <1> QED BY <1>1, <1>2, SecondInductive, PTL
          DEF Spec, Safety, PluginCalledInOrder, Plugin!Spec

=============================================================================
