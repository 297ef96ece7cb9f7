-------------------------- MODULE AdserverUpstream ---------------------------
(***************************************************************************)
(* A subrequest that is answered by a server behind adserver_pass          *)
(* (src/adserver_module/ngx_http_adserver_module.c), up to the buffer and  *)
(* the status that plugin_check_subrequest copies for the plugin           *)
(* (src/ngx_handler_interface.cc).                                         *)
(*                                                                         *)
(* A response is ADSERVER_HEADER_LENGTH bytes of header, the magic and the *)
(* length of the body, and the body.  Bytes are their positions in what    *)
(* the server sends, from 1.  A step is one recv() and what is done with   *)
(* the bytes, or another event of the connection.                          *)
(*                                                                         *)
(* The functions named ngx_http_adserver_... are the module's; the loops   *)
(* around them are those of nginx 1.6.2 for a subrequest whose response is *)
(* kept in memory.  What is in u->buffer when no response was accepted (a  *)
(* part of a header, or a bad one) is left out: its status is not 200.     *)
(***************************************************************************)
EXTENDS Integers

CONSTANTS
    BufferSizes,  \* values of adserver_buffer_size
    WordSets,     \* the words that adserver_next_upstream may be given
    Servers,      \* in the upstream, the tries that nginx gives a request
    MaxIdle,      \* bound on the kept connections that a request may be given
    MaxBody,      \* bound on the length that servers announce
    MaxSent       \* bound on the bytes that they send after a header

ASSUME BufferSizesAssumption == BufferSizes \subseteq Nat \ {0}
\* The module reports no "not_found": nothing is asked again for it.
Words == {"error", "timeout", "invalid_response", "not_found", "off"}

ASSUME WordSetsAssumption == WordSets \subseteq SUBSET Words
ASSUME ServersAssumption == Servers \in Nat \ {0}
ASSUME MaxIdleAssumption == MaxIdle \in Nat
ASSUME MaxBodyAssumption == MaxBody \in Nat
ASSUME MaxSentAssumption == MaxSent \in Nat

ADSERVER_HEADER_LENGTH == 8

VARIABLES
    given,    \* the words of adserver_next_upstream, {} without the directive
    conf,     \* the merged configuration
    pc,       \* which loop of nginx's upstream is running
    stream,   \* what the server that is asked sends
    got,      \* how much of it has been received
    u,        \* r->upstream
    asked,    \* tries that have been used; 0 when there is no u->state
    idle,     \* connections that "keepalive" has kept from earlier requests
    cached,   \* u->peer.cached: the request went over one of them
    fault     \* history: whether the subrequest ended by a failure that the
              \* bytes of the last server had no part in

peer == <<asked, idle, cached>>
config == <<given, conf>>
vars == <<config, pc, stream, got, u, peer, fault>>

(***************************************************************************)
(* bytes in all, header included; then the server closes the connection or *)
(* leaves it open.                                                         *)
(***************************************************************************)
Stream ==
    [magic : BOOLEAN, announced : 0..MaxBody,
     bytes : 0..(ADSERVER_HEADER_LENGTH + MaxSent), closes : BOOLEAN]

(***************************************************************************)
(* status is u->state->status.  kept are the bytes between u->buffer.pos   *)
(* and u->buffer.last once a header has been accepted, and last is how far *)
(* u->buffer.last is from the start of the buffer.                         *)
(***************************************************************************)
Upstream ==
    [status : {0, 200, 502, 504}, length : Nat, keepalive : BOOLEAN,
     kept : SUBSET (Nat \ {0}), last : Nat]

NewUpstream ==
    [status |-> 0, length |-> 0, keepalive |-> FALSE, kept |-> {}, last |-> 0]

\* Nothing has been asked for yet.
NoStream == [magic |-> FALSE, announced |-> 0, bytes |-> 0, closes |-> FALSE]

\* Definitions with a second part to their name are wrong versions of the one
\* that follows them.
ngx_http_adserver_merge_loc_conf_On(words) ==
    IF words = {} THEN {"error", "timeout"} ELSE words

\* The failures after which the next server is asked.
ngx_http_adserver_merge_loc_conf(words) ==
    IF words = {} THEN {"error", "timeout"}
    ELSE IF "off" \in words THEN {"off"}
    ELSE words

Init ==
    /\ given \in WordSets
    /\ \E size \in BufferSizes :
         conf = [buffer_size |-> size,
                 next_upstream |-> ngx_http_adserver_merge_loc_conf(given)]
    /\ pc = "start"
    /\ stream = NoStream
    /\ got = 0
    /\ u = NewUpstream
    /\ asked = 0
    /\ idle \in 0..MaxIdle
    /\ cached = FALSE
    /\ fault = FALSE

-----------------------------------------------------------------------------
(***************************************************************************)
(* The module's functions.                                                 *)
(***************************************************************************)
ngx_http_adserver_process_header_More(length) ==
    IF length <= ADSERVER_HEADER_LENGTH THEN "NGX_AGAIN"
    ELSE IF ~stream.magic THEN "INVALID_HEADER" ELSE "NGX_OK"

\* With length bytes in the buffer.
ngx_http_adserver_process_header(length) ==
    IF length < ADSERVER_HEADER_LENGTH THEN "NGX_AGAIN"
    ELSE IF ~stream.magic THEN "INVALID_HEADER" ELSE "NGX_OK"

\* process_header's assignments and ngx_http_adserver_filter_init.
Accepted ==
    [u EXCEPT !.status = 200, !.length = stream.announced,
              !.last = ADSERVER_HEADER_LENGTH]

Appended(v, first, bytes) ==
    [v EXCEPT !.kept = @ \cup (first + 1)..(first + bytes), !.last = @ + bytes,
              !.length = @ - bytes, !.keepalive = @ \/ bytes = v.length]

ngx_http_adserver_filter_Unchecked(v, first, bytes) == Appended(v, first, bytes)

ngx_http_adserver_filter_Skip(v, first, bytes) ==
    IF bytes > v.length THEN v ELSE Appended(v, first, bytes)

ngx_http_adserver_filter_Ended(v, first, bytes) ==
    IF bytes > v.length THEN [v EXCEPT !.length = 0, !.keepalive = TRUE]
    ELSE Appended(v, first, bytes)

ngx_http_adserver_filter_Owing(v, first, bytes) ==
    IF bytes > v.length THEN [v EXCEPT !.length = 0]
    ELSE [Appended(v, first, bytes) EXCEPT !.length = v.length]

\* With bytes that have been received after the first ones.  A piece that is
\* too long is dropped as a whole and ends the response.
ngx_http_adserver_filter(v, first, bytes) ==
    IF bytes > v.length THEN [v EXCEPT !.length = 0]
    ELSE Appended(v, first, bytes)

(***************************************************************************)
(* The upstream of nginx.                                                  *)
(***************************************************************************)
Room == conf.buffer_size - u.last

\* How many bytes a recv() may return.
Received == {n \in 1..(stream.bytes - got) : n <= Room}

Finalize == pc' = "done" /\ UNCHANGED <<config, stream, peer>>

\* ngx_http_upstream_connect, over a new connection or a kept one.
Connect ==
    /\ pc' = "header"
    /\ stream' \in Stream
    /\ got' = 0
    /\ u' = NewUpstream
    /\ \/ cached' = FALSE /\ UNCHANGED idle
       \/ idle > 0 /\ cached' = TRUE /\ idle' = idle - 1
    /\ UNCHANGED config

\* A kept connection that fails may have been closed by its server before: it
\* costs no try, and what adserver_next_upstream says is not asked.
Stale(failure) == cached /\ failure = "error"

MayTryNext(failure) == asked < Servers /\ failure \in conf.next_upstream

\* ngx_http_upstream_next after a failure.
NextServer(failure) ==
    \/ /\ Stale(failure)
       /\ Connect
       /\ UNCHANGED asked
    \/ /\ ~Stale(failure) /\ MayTryNext(failure)
       /\ Connect
       /\ asked' = asked + 1
    \/ /\ IF Stale(failure) THEN asked = Servers ELSE ~MayTryNext(failure)
       /\ u' = [u EXCEPT !.status = IF failure = "timeout" THEN 504 ELSE 502]
       /\ UNCHANGED got
       /\ Finalize

\* The handler of a location with adserver_pass, for a subrequest, whose method
\* is always GET and which has no body: it fails when there is no memory for
\* the upstream or the context.
ngx_http_adserver_handler ==
    /\ pc = "start"
    /\ \/ /\ pc' = "create"
          /\ UNCHANGED <<config, stream, got, u, peer, fault>>
       \/ /\ fault' = TRUE
          /\ UNCHANGED <<got, u>>
          /\ Finalize

\* There is a request, and it is sent to the first server; or there is no
\* memory for it, and the upstream ends without a state.
ngx_http_adserver_create_request ==
    /\ pc = "create"
    /\ \/ /\ Connect
          /\ asked' = 1
          /\ UNCHANGED fault
       \/ /\ fault' = TRUE
          /\ UNCHANGED <<got, u>>
          /\ Finalize

\* ngx_http_upstream_process_header, after a recv().  The filter is called when
\* a part of the body has come with the header; it may find no memory.
HeaderArrives(n) ==
    LET m == got + n IN
    /\ pc = "header"
    /\ \/ /\ ngx_http_adserver_process_header(m) = "NGX_AGAIN"
          /\ m < conf.buffer_size
          /\ got' = m
          /\ u' = [u EXCEPT !.last = m]
          /\ UNCHANGED <<config, pc, stream, peer, fault>>
       \/ /\ \/ ngx_http_adserver_process_header(m) = "INVALID_HEADER"
             \/ /\ ngx_http_adserver_process_header(m) = "NGX_AGAIN"
                /\ m = conf.buffer_size
          /\ NextServer("invalid_response")
          /\ UNCHANGED fault
       \/ /\ ngx_http_adserver_process_header(m) = "NGX_OK"
          /\ got' = m
          /\ \/ /\ u' = IF m = ADSERVER_HEADER_LENGTH THEN Accepted
                        ELSE ngx_http_adserver_filter(Accepted,
                               ADSERVER_HEADER_LENGTH, m - ADSERVER_HEADER_LENGTH)
                /\ pc' = IF u'.length = 0 THEN "done" ELSE "reading"
                /\ UNCHANGED <<config, stream, peer, fault>>
             \/ /\ m > ADSERVER_HEADER_LENGTH
                /\ u' = Accepted
                /\ fault' = TRUE
                /\ Finalize

\* The server has closed before its header was complete.
HeaderEnds ==
    /\ pc = "header"
    /\ stream.closes /\ got = stream.bytes
    /\ NextServer("error")
    /\ UNCHANGED fault

\* The connection fails or times out.
HeaderFails ==
    /\ pc = "header"
    /\ \E failure \in {"error", "timeout"} : NextServer(failure)
    /\ fault' = (pc' = "done")

\* Nothing to be read for now: the loop is left, and goes on with the next
\* event unless the filter has seen the end.
Again(v) == pc' = IF v.length = 0 THEN "done" ELSE "waiting"

\* ngx_http_upstream_process_body_in_memory, after a recv().  Whether the loop
\* goes on after one that did not fill the buffer depends on how nginx is told
\* of events.
BodyArrives(n) ==
    /\ pc \in {"reading", "waiting"}
    /\ got' = got + n
    /\ u' = ngx_http_adserver_filter(u, got, n)
    /\ \/ pc' = "reading"
       \/ n < Room /\ Again(u')
    /\ UNCHANGED <<config, stream, peer, fault>>

BodyAgain ==
    /\ pc = "reading"
    /\ Room > 0
    /\ Again(u)
    /\ UNCHANGED <<config, stream, got, u, peer, fault>>

\* The buffer is full, or the server has closed.
BodyEnds ==
    /\ pc \in {"reading", "waiting"}
    /\ Room = 0 \/ (stream.closes /\ got = stream.bytes)
    /\ UNCHANGED <<got, u, fault>>
    /\ Finalize

\* The connection fails or times out, or the filter finds no memory.
BodyFails ==
    /\ pc \in {"reading", "waiting"}
    /\ fault' = TRUE
    /\ UNCHANGED <<got, u>>
    /\ Finalize

Next ==
    \/ ngx_http_adserver_handler
    \/ ngx_http_adserver_create_request
    \/ \E n \in Received : HeaderArrives(n)
    \/ HeaderEnds
    \/ HeaderFails
    \/ \E n \in Received : BodyArrives(n)
    \/ BodyAgain
    \/ BodyEnds
    \/ BodyFails

Spec == Init /\ [][Next]_vars

(***************************************************************************)
(* Fairness: nginx is told of the bytes that have been sent and of the end *)
(* of the connection, and its loops go on until they have to wait.  The    *)
(* timers (HeaderFails, BodyFails) may go off or not.                      *)
(***************************************************************************)
Events ==
    /\ WF_vars(ngx_http_adserver_handler)
    /\ WF_vars(ngx_http_adserver_create_request)
    /\ WF_vars(\E n \in Received : HeaderArrives(n))
    /\ WF_vars(HeaderEnds)
    /\ WF_vars(\E n \in Received : BodyArrives(n))
    /\ WF_vars(BodyAgain)
    /\ WF_vars(BodyEnds)

EventSpec == Spec /\ Events

-----------------------------------------------------------------------------
(***************************************************************************)
(* Properties.                                                             *)
(***************************************************************************)
Phases == {"start", "create", "header", "reading", "waiting", "done"}

TypeOK ==
    /\ given \in SUBSET Words
    /\ conf \in [buffer_size : BufferSizes, next_upstream : SUBSET Words]
    /\ pc \in Phases
    /\ stream \in Stream
    /\ got \in Nat
    /\ u \in Upstream
    /\ asked \in 0..Servers
    /\ idle \in 0..MaxIdle
    /\ cached \in BOOLEAN
    /\ fault \in BOOLEAN

Body(k) == (ADSERVER_HEADER_LENGTH + 1)..(ADSERVER_HEADER_LENGTH + k)

Whole == u.kept = Body(stream.announced)

\* What the plugin is given as the response of a server is the beginning of
\* the body that the server announced, without a gap and not longer, however
\* the bytes were cut and whatever came after them: a piece that was dropped
\* for its length is not followed by a shorter one
\* (ngx_http_adserver_filter, lines 419-424).
NoGap ==
    \E k \in 0..stream.announced :
        /\ u.kept = Body(k)
        /\ u.status = 200 => u.last = ADSERVER_HEADER_LENGTH + k

\* The connection is handed on to another request only when the whole of a
\* body has been taken from it (ngx_http_adserver_filter, lines 450-454).
KeepaliveWhole ==
    u.keepalive <=> (u.status = 200 /\ stream.announced > 0 /\ Whole)

\* A server that has sent the whole body is not waited for, also when the
\* connection stays open: without the count of u->length the subrequest would
\* only end with adserver_read_timeout.
NoIdleWait ==
    pc = "waiting" => /\ u.length > 0
                      /\ u.last + u.length =
                            ADSERVER_HEADER_LENGTH + stream.announced
                      /\ ~Whole

Honest ==
    /\ stream.magic
    /\ stream.bytes = ADSERVER_HEADER_LENGTH + stream.announced
    /\ stream.bytes <= conf.buffer_size

\* From a server that sends what it announces, and no more than the buffer
\* takes, the plugin gets all of it with status 200, in whatever pieces the
\* header and the body come and however the servers before it have failed,
\* unless the connection or an allocation fails.
HonestServed ==
    pc = "done" /\ Honest /\ ~fault => u.status = 200 /\ Whole

\* "off" among the words of the directive wins over the failures named with
\* it: no second try is made (ngx_http_adserver_merge_loc_conf, 197-200), but
\* for those that nginx makes in the place of kept connections.
OffAsksOnce == "off" \in given => asked <= 1

\* What the server sends tells where the response ends, or that it is none.
Complete ==
    \/ stream.closes
    \/ stream.bytes >= ADSERVER_HEADER_LENGTH
         + IF stream.magic THEN stream.announced ELSE 0

\* A subrequest waits for a timer only if its server has sent too little and
\* holds the connection: with all others it ends though no timer goes off,
\* also when a body is empty, too long or cut in any way, since the header is
\* accepted with its last byte and u->length gets to 0
\* (ngx_http_adserver_process_header, ngx_http_adserver_filter).
EndsWithoutTimer == Complete ~> (pc = "done" \/ ~Complete)
=============================================================================
