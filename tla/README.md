# Verification of plugin_manager

This directory holds TLA+ models of the program beside it, the TLC
configurations that check them, and proofs for TLAPS. The program is a pair of
nginx 1.6 modules: `module_adfront`, which lets a C++ plugin answer an HTTP
request with the help of subrequests, and `adserver_module`, an upstream
protocol for such subrequests. All of it runs in nginx's single-threaded
workers, by callbacks.

Source references are to files of the repository; `hi.cc` stands for
`ngx_handler_interface.cc` and `adfront.c` for `ngx_http_adfront_module.c`.

## 1. Inventory

### Components

| component | state | operations | talks to |
|---|---|---|---|
| request state machine (`adfront.c`, `hi.cc`) | `ngx_http_adfront_ctx_t`: `state`, `subrequests`, `plugin_ctx` | `ngx_http_adfront_handler`, the `plugin_*` functions | nginx (count, subrequests, output), the handler |
| nginx's request (external) | count, posted and postponed requests, `c->data`, `write_event_handler`, subrequest budget | `ngx_http_subrequest`, `ngx_http_finalize_request`, `ngx_http_output_filter`, `ngx_http_read_client_request_body` | event loop, client, servers |
| plugin (any code) | its own `handle_ctx_`, the `PluginContext` it is given | `Handle`, `PostSubHandle` | called by the request state machine |
| handler and plugin manager (`ngx_handler.cc`, `plugin_manager.cc`) | `config_file_`, `plugins_info_map_`, one `PluginInfo` per entry | `Init`, `InitProcess`, `LoadPlugin(s)`, `GetPlugin` | dynamic loader, the plugin file, plugins |
| adserver upstream (`ngx_http_adserver_module.c`) | `u->length`, `u->buffer`, `u->keepalive` | `create_request`, `process_header`, `filter` | nginx's upstream |
| uri codec and query parser (`uri_codec.h`, `hi.cc:632-661`) | the cursor of a loop | `UriDecode`, `UriEncode`, `ngx_url_parser` | called once per request, when the context is created |
| request headers and body (`hi.cc:467-630, 663-739, 847-854`) | `headers_in_` | `ngx_header_handler`, `ngx_http_get_*`, `ReplaceAll`, `ngx_do_get_post_body` | called by `plugin_create_ctx`; read by the handler and the plugin |
| response headers (`hi.cc:249-303, 753-844`) | `headers_out_`, `r->headers_out` | `ngx_url_jump`, `ngx_write_cookie`, the status | called by `plugin_final_request` |
| time consumed (`adfront.c:219-230`) | `time_start`, `time_end` | the difference that is logged | the clock |
| directives (`adfront.c:14-128`, adserver's directives and `merge`) | location configurations | the setters, `merge_loc_conf` | the handler's creation, nginx's upstream |
| generated protobuf code, test programs | | | not modelled |

### How they interact

nginx's phase engine calls `ngx_http_adfront_handler` when the header of a
request has been read. The handler builds a `PluginContext`, has the handler
look the plugin up by the last part of the uri, and calls `Handle`. When that
returns `PLUGIN_AGAIN` the handler creates a subrequest for each element of
`upstream_request_`, takes a reference to the request and returns `NGX_DONE`.
Each subrequest that ends calls `plugin_subrequest_post_handler`, which arms
the main request again; nginx posts it, and the handler finds out by `state`
what it was waiting for. When all of a round are done it copies their results
and calls `PostSubHandle`, which may ask for another round. At the end the
result is handed to the output filter, which keeps it back while subrequests
stand in front of it.

### What is hard here

* The handler is entered again and again, by paths that are not in this source:
  a subrequest that was active, one that was not, nginx's finalizer, the
  writer. Every way out of it must leave count, state, context and
  `write_event_handler` fit for the next.
* References are given up by returning `NGX_DONE`, in one place for each that
  was taken in another.
* Subrequests end in any order, before and after the handler has returned, and
  in the middle of writing the response.
* Any of it may fail after a part has been done: `plugin_start_subrequest` after
  two of three subrequests, `plugin_create_ctx` after the allocation.
* The client may go away at any time, and then the handler is not told.

### What makes each component correct

* Request: references balance; nothing waits for an event that will not come;
  the context is created once and deleted once; the response goes out once,
  after all subrequests; the plugin is called in the order of its contract;
  every request ends.
* Plugin manager: a plugin that can be looked up is alive, its library is open,
  it was initialized once, and it is the one the file names first.
* Adserver: what is handed over is the beginning of the body that the header
  announces, never more, and the connection is kept only when it is all of it.
* Directives: a location goes by what the nearest block around it says.
* Codec, parser: encoding is undone by decoding; the pairs found in a query are
  those that stand in it.
* Headers: what the module says of a request wins over what its query says (the
  module says nothing under `__method__` for HEAD, and nothing under `__body__` but
  for POST: there the query's word stands); the body is whole; the client is sent elsewhere exactly when the plugin says so.

The hazards of the code, each at its line and with the properties that watch
it, are the list `hazards` of `PROJECT.json`.

## 2. Modules

| module | what it is |
|---|---|
| `NgxHttp` | nginx's main request as a record, and one operator for each nginx function the module relies on |
| `AdfrontRequest` | the request state machine, its client, its subrequests and its faults; properties |
| `PluginProtocol` | abstract specification: the order of calls that `plugin.h` promises a plugin |
| `PluginManager` | creation of the handler, loading of plugins in a worker; properties |
| `AdserverUpstream` | a subrequest at the servers behind `adserver_pass`; properties |
| `AdserverConf` | the directives of adserver at all levels, and their merging; properties |
| `UriCodec` | `UriEncode` and `UriDecode`, a round of their loops a step; properties |
| `StrMap` | strings and maps of strings, as operators |
| `RequestHeaders` | what `plugin_create_ctx` puts into `headers_in_`; properties |
| `ResponseHeaders` | what `plugin_final_request` makes of `headers_out_`; properties |
| `TimeConsumed` | the time that is logged, a pure function |
| `MCAdfrontRequest`, `MCRequestHeaders` | sets for the configurations |
| `NgxHttpTheorems` | lemmas: what the operators of `NgxHttp` preserve and leave alone |
| `AdfrontTheorems`, `AdserverTheorems`, `AdserverConfTheorems`, `PluginManagerTheorems`, `RequestHeadersTheorems`, `UriCodecTheorems` | the inductive invariants of the module each is named after, and the theorems |
| `ResponseTheorems` | the same of `ResponseHeaders`, and the theorem about `TimeConsumed` |

How they fit together: `AdfrontRequest` extends `NgxHttp` and is shown to implement
`PluginProtocol`; `RequestHeaders` and `ResponseHeaders` say what happens inside two
of its steps (`plugin_create_ctx`, `plugin_final_request`), `AdserverUpstream` what
happens between two of them (`UpstreamDone`), and `AdserverConf` where the
configuration of `AdserverUpstream` comes from. `PluginManager` has run before the
first request.

Definitions with a second part to their name after an underscore, such as
`HoldRequest_Forgotten`, are wrong versions of the definition that follows.
They are not used by any specification; each was put in the place of the right
one to see that the property it is listed with in `PROJECT.json` fails.

### AdfrontRequest and NgxHttp

A step is one run of code between two returns to nginx's loop: the handler
together with `ngx_http_finalize_request` on its return value
(`ngx_http_adfront_handler`), a posted request that is not the handler's
(`RunMain`, `RunSubrequest`), or an event (`UpstreamDone`, `ClientWritable`,
`ClientGone`, `BodyEvent`). Posted requests run in the order of their queue
before the next event is taken, as `ngx_http_run_posted_requests` does;
everything else interleaves.

Inside a step the C functions are operators on the request `q` and the context
`c`, named as in the source, and composed in the order of the code. `PROCESS`,
`POST_SUBREQUEST` and `FINAL` are left in the run they are entered in, so they
show as the order of the operators and not as values of `ctx.state`; `state =
"NONE"` stands for `ctx == NULL`.

| model | code |
|---|---|
| `ngx.count`, `HoldRequest`, `Return` | `r->main->count`; `count++` before `return NGX_DONE`; the finalizing with the return value |
| `ngx.sub`, `ngx.data`, `ngx.postponed`, `ngx.posted` | subrequests, `c->data`, `r->postponed`, `posted_requests` |
| `ngx.weh` | the request's `write_event_handler` |
| `ctx.plugin_ctx` | whether the pointer is set; `news`, `deletes` count allocations and deletions |
| `ctx.rc`, `ctx.calls`, `ctx.fault` | history: the plugin's last return value, its calls, whether anything failed |
| `client.body` | how far a POST body has been read |

Data is left out: the plugin's answers are its return value and the number of
subrequests it asks for, the response is one chain, a write takes all of it, a
part of it or fails.

`NgxHttp` models code that is not in the repository. What it says of nginx 1.6.2:

* a subrequest takes a reference and one unit of a budget, becomes active
  when nothing stands before it, and is posted;
* finalizing the active one gives both back, makes the main request active and
  posts it; one that is not active stays `"final"` until the postpone filter has
  made it active and the finalizer has run again;
* the post handler of a subrequest is called each time;
* finalizing the main request with `NGX_DONE` drops a reference, with
  `NGX_ERROR` terminates it, otherwise closes it or leaves it to the writer;
* a client that goes away is noticed by an active subrequest that talks to its
  server, and by the writer.

A request that nginx ends with an error page (a bad body) is taken for
terminated: the module is not entered again in either case.

### PluginManager

There is one worker; workers share nothing after the fork. A step is one round
of `LoadPlugins` up to the successful `LoadPlugin` (or its failure at any of
four places), the insertion of one name, or the end of the round, where the
round's shared pointer is dropped and may take the plugin with it. `dl` is the
loader's count of opens. `WorkerGone` ends a worker at any step, with nothing
destroyed: the module has no exit handler. What the plugin file holds is chosen
anew whenever a worker reads it. `conf_map`, the parameters handed to `Init`, is
left out.

### AdserverUpstream

The handler of the location and `create_request` are a step each, with their
failures. From then on a step is one `recv()` with what is done on its bytes, or the
end or failure of the connection. Bytes are their positions in what the server
sends; `u.kept` are those between `u->buffer.pos` and `u->buffer.last` once a header
has been accepted, which is what `plugin_check_subrequest` copies into `response_`.
`u.status` is what it copies into `status_`. A server is any combination of magic,
announced length, number of bytes sent and closing or not; it is chosen anew
with each connection.

A subrequest is always a GET without a body, so that the handler's 405 and a failure
of discarding the body do not arise; what is left of its early returns is that
memory runs out.

`process_header`, `filter_init`, `filter` and `merge_loc_conf` are the module's
(`Accepted` is the assignments of the first with the second; `reinit_request` does
nothing). The loops that call them are external, those of nginx 1.6.2 for a response
kept in memory: the header is read until it is complete or the buffer is full; the
filter is called on what came with it; then each `recv()` goes to the filter, and the
end is looked for only when the loop is left. Whether it is left after a `recv()` that
did not fill the buffer depends on the event method (epoll or not), so it may or may
not be.

`NextServer` is `ngx_http_upstream_next`, external too. A round robin over `Servers`
servers asks each at most once, after the failures that the directive names. A
request may also go over one of up to `MaxIdle` connections that `u->keepalive = 1` has
left behind in earlier requests (`Connect`); when such a one fails, its server may
just have closed it, and nginx tries again without counting it and whatever the
directive says (`Stale`).

`AdfrontRequest` takes a subrequest at a server for one step, `UpstreamDone`: what
`AdserverUpstream` adds is that this step comes with a status and a response, and
which.

Left out: what the request says (it is written once by `create_request` and sent as it
is to each server), and what the buffer holds when no header was accepted, which
`response_` then shows with a status other than 200.

### AdserverConf

`conf[l]` is the `ngx_http_adserver_loc_conf_t` of a level: http, server, and
`Locations` locations, each in the one before. While the file is read directives
come at any level in any order; then each level is merged into the next, from the
outside, as nginx does. `given` remembers what was read. Each `conf_set_slot` of
nginx refuses a second time (`Refused`) but for the list of words, which grows;
`adserver_pass` refuses by the module's own test, and when `ngx_http_upstream_add`
fails. Sizes and timeouts are merged by
the same macro, so `buffer_size` stands for all four.

### UriCodec

A step is one round of one of the two loops, and `puri` is the C pointer as a
position. A behaviour begins with `UriEncode` on some text, whose result goes to
`UriDecode`, or with `UriDecode` on any string. `starts` is a history variable: where
the code of each byte begins, which the invariant needs. The tables `SAFE` and
`HEX2DEC` are the sets and arithmetic they hold.

### RequestHeaders

The three parts of `plugin_create_ctx` in their order: the query (`DecodeUrl`,
`ngx_url_parser` once per pair), the headers, and the body (`ngx_do_get_post_body`,
`CopyBuffer` once per buffer). The headers begin with the plugin's name
(`ngx_header_handler`); then each of the five goes through the loop of `ReplaceAll`, one
round a step, with the text in `tmp_str` and the next tab at `pos`, and into the map
(`HeaderSaid`), the method after the first of them (`WithMethod`). Strings are sequences of
symbols; a symbol is a delimiter, an encoded delimiter, a name of the module's own or
other text. Decoding keeps only what the parser can tell apart, `%26` from `&` and
`%3D` from `=`; the whole of it is `UriCodec`. `ngx_url_parser` inserts into the map,
the rest assigns, which is what `OwnKeysWin` and `HeadersSpaced` are about. Memory that
nobody has written is the symbol `"junk"`.

### ResponseHeaders

One step for each of the calls of `plugin_final_request`. The keys of `headers_out_`
are asked, answered otherwise or absent; an allocation may fail between a header's
place in the list and its value. `ngx_write_cookie` reads `end()` of the map when no
value was given: the step may end in `"crash"` or go on with `"undefined"`.

### TimeConsumed

`Consumed` is the arithmetic of `adfront.c:219-230` on the two readings of the
clock, with the division of C. There is no state, so it has a theorem
(in `ResponseTheorems`) and no run.

## 3. Runs

| run | what it checks | bounds | states |
|---|---|---|---|
| `faults` | `TypeOK`, `CountBalance`, `NeverStuck`, `ContextOnce`, `FreedComplete`, `AnsweredAfterAll`, `PluginCalledInOrder`, `EveryStepCounts`, `Termination` | all methods, bodies and faults; rounds of 1 to 4 subrequests, 8 in all; budget 5 | 24 009 |
| `plugins` | `TypeOK`, `PluginAlive`, `LibrariesBalance`, `FirstEntryWins`, `InitializedOnce`, `FileOfFirstLocation` | every file of at most 3 entries, 2 names each, over 2 names and 2 libraries; 2 directives over all configurations | 316 832 |
| `upstream` | `TypeOK`, `NoGap`, `KeepaliveWhole`, `NoIdleWait`, `HonestServed`, `OffAsksOnce`, `EndsWithoutTimer` | 0 to 2 bytes of body announced, 0 to 3 sent, in all combinations; buffers of 7, 8, 9 and 11 bytes; 2 servers and a kept connection; 6 sets of words for `adserver_next_upstream` | 293 493 |
| `adserver_conf` | `TypeOK`, `NearestWins` | http, server and 2 locations; 2 sizes, 2 groups, 2 words; every directive at every level | 1 306 368 |
| `uri_codec` | `TypeOK`, `RoundTrip`, `DecodedByPosition` | strings of up to 5 of the bytes `%`, `+`, `0`, `B`, `f`, `g`, 255 | 379 443 |
| `headers` | `TypeOK`, `FirstPairWins`, `OwnKeysWin`, `AddressOfForward`, `HeadersSpaced`, `BodyWhole` | queries of up to 5 of 7 symbols with each method; none, one and two lines of each header, with and without tabs, 4 paths, 6 bodies | 758 034 |
| `response` | `TypeOK`, `JumpExactly`, `JumpOnlyAsked` | every setting of the plugin's keys; results of 0, 1 and 2 bytes; every allocation fails or not | 14 596 |
| `parts`, `head`, `abort`, `plugin_error`, `cookie` | one finding each, see below | one subrequest, or one response | |

Eight subrequests allow two rounds of four, four of two and every mixture. Four
at once give an active subrequest, one next to it and two behind both, so that
completions come before, after and between; longer rounds repeat this. With a
budget of 5 a second round finds it partly used and exhausted in the middle.
Three entries with two names let an entry win both, one or none of its names
against two others, and share a library with them.

Buffers of 7 to 11 bytes are one that cannot hold a header, one that holds nothing
else, one that holds a part of a body and one that holds all that is sent. Two bytes
announced and three sent are enough for a body to come in one piece or two, with the
header or after it, and to be followed by a piece that does not belong to it. The
sets of words are: no directive, each failure that the module can report alone,
`not_found`, which it never reports, all of them, and all with `off`. One kept connection
is enough for a failure that costs no try to come before, between and after those
that do.

Two locations make a chain in which a level may inherit from its parent, from its
parent's parent, or from nothing. Five bytes hold an escape before, after and
inside what looks like one, with the two bytes at the end that are not decoded.
Five symbols hold two pairs with one key, a pair and a cut, and every placing of
empty keys and values.

All of these but `Termination` and `EndsWithoutTimer` are proved for all values
(section 5).

The runs whose system comes to an end do not look for deadlock; `NeverStuck`,
`Termination`, `NoIdleWait` and `EndsWithoutTimer` say what must not happen before
it.

What the properties say:

* `CountBalance`: while the request lives, its count is one more than the number
  of subrequests that are not finalized, and the budget agrees.
* `NeverStuck`: between two events a request waits for its body, for a server,
  or for the client's socket with the right to write to it. A run of the handler
  that was put off with `NGX_DONE` is never forgotten.
* `ContextOnce`: no context is created or deleted twice; it is there when the
  handler waits, and gone when the response is under way.
* `AnsweredAfterAll`: the response is written once, when all subrequests are done.
* `PluginCalledInOrder`: `AdfrontRequest` implements `PluginProtocol` (mapping:
  `Stage`, `Waiting`, `ctx.calls`): one `Handle`, then `PostSubHandle` only after
  `PLUGIN_AGAIN` and only when every subrequest of the round is done.
* `FreedComplete`: a request in which nothing failed ends with its response
  written, and with nothing left over.
* `Termination`: every request is freed, whatever fails.
* `EveryStepCounts`: no step leaves more to be done than it found, or as much; what
  is left is counted by `Left`. So no two handlers post each other for ever, and no
  event is answered by waiting for the same one again. It bounds the number of
  steps, and needs no fairness.
* `PluginAlive`, `LibrariesBalance`: a plugin that can be looked up has not been
  deleted and its library is open; opens and closes of libraries match, but for
  a plugin whose `Init` failed.
* `FirstEntryWins`, `InitializedOnce`: who answers for a name; what happens to
  the entries that win none.
* `NoGap`: what is handed to the plugin is the beginning of the announced body, and
  no more than that. It may be less: a server that closes early, or whose last piece
  was too long, leaves a part, with status 200.
* `KeepaliveWhole`: the connection is kept exactly when the whole of a body that is
  not empty was taken from it (an empty one never reaches the filter). Bytes that come
  after a whole body and have not been read by then do not prevent it.
* `NoIdleWait`: a server that has sent everything is not waited for.
* `HonestServed`: a truthful response that fits is handed on whole, with status 200.
* `OffAsksOnce`: `"off"` wins over the failures named with it; only kept connections
  that were stale are replaced.
* `FileOfFirstLocation`: which file workers read after other locations and
  reloads have named other files.
* `EndsWithoutTimer`: a subrequest waits for a timer only if its server has sent too
  little and holds the connection. With every other server, truthful or not, it ends
  by what is received: the header is accepted with its last byte, and `u->length` gets
  to 0 with an empty body, a whole one, and one that is too long.
* `NearestWins`: what a location goes by after merging is what the nearest block
  says, whole; `"off"` there excludes every other word.
* `RoundTrip`: decoding undoes encoding, although neither `+` nor the last two bytes
  are symmetric in the two functions.
* `DecodedByPosition`: what decoding makes of a string nobody encoded, told without
  a loop, for every byte but a `+` among the last two, of which nothing is claimed (see
  the end of section 4).
* `FirstPairWins`: for each key the first field of the query with that name counts,
  an empty name never, and no field is lost or cut short.
* `OwnKeysWin`: which plugin is called, the `__url__` and the `__method__` of a GET or a
  POST do not depend on the pairs of the query. What the module leaves to the query
  is not claimed: the code assigns no `__method__` for HEAD (hi.cc:708-713) and no
  `__body__` but for POST (hi.cc:574-579), and a pair of that name reaches the plugin
  (`FirstPairWins` says with which value).
* `AddressOfForward`: the address is one client's, the one `__forward__` begins with.
* `HeadersSpaced`: the first line of each header reaches the plugin as it was sent,
  but for its tabs, which are spaces, all of them; no pair of the query is in its
  place.
* `BodyWhole`: the body is there in full and in order, and nothing of the memory
  before it, unless a file was shorter than nginx believed.
* `JumpExactly`, `JumpOnlyAsked`: the response is a redirect exactly when the plugin
  asks for one and gives its target; and what is left when memory runs out.

### Fairness

`Termination` needs: posted requests are run (nginx drains them before the next
event); a subrequest at a server ends, the body comes or fails, the client reads
or fails. The last three have timers: `adserver_connect_timeout`,
`_send_timeout`, `_read_timeout` (60 s unless set, `ngx_http_adserver_module.c:178-185`)
or the timers of the proxy module, `client_body_timeout`, `send_timeout`. Weak
fairness suffices since each stays enabled until it happens. Nothing is assumed
of `ClientGone`. The number of subrequests of a request is bounded by `MaxSub`,
that is, a plugin is assumed not to ask for ever.

`EndsWithoutTimer` needs no timer (`HeaderFails` and `BodyFails` may happen or not), but
that the loops go on until they have to wait, and that nginx is told of bytes that
have been sent and of the end of a connection (`Events` in `AdserverUpstream`): each is
reported by the event method until it is taken. Weak fairness suffices for the same
reason as above.

## 4. Findings

| run | property | what happens |
|---|---|---|
| `parts` | `PartsServed` | A POST body that comes after the header has been handled is read, and then the request is ended without a response (its connection is closed, or kept for the next request): `plugin_post_body` takes it for one that was there at once, since `state` is still `INIT` (hi.cc:451-456). The code meant for this case (hi.cc:458-462) is never reached. |
| `head` | `HeaderOnlyServed` | HEAD is accepted, its header is sent, and then the request is ended as a failure (hi.cc:292). |
| `abort` | `ContextDeleted` | When the client goes away while subrequests are out, the `PluginContext` is never deleted; likewise when `plugin_create_ctx` fails after its allocation. |
| `plugin_error` | `PluginErrorRefused` | `PLUGIN_ERROR` is answered with status 200 like `PLUGIN_OK`; the comments say that it fails the request. |
| `cookie` | `CookieWritten` | `ngx_write_cookie` fails when the plugin has given the cookie's value and reads `end()` of the map when it has not (hi.cc:803). With a value no cookie is written; without one the worker crashes, or writes whatever is found there. |

One disagreement has no run. `UriDecode` leaves a `+` among the last two bytes of a
query alone, and makes every other one a space: `a=b+` gives `a` the value `b+`, and
`a=b+c+d` gives `b c+d`. The branch for `+` is commented with
`application/x-www-form-urlencoded` (`uri_codec.h:85`), where every `+` is a space, and
the bound that keeps it from the last two bytes with "last decodable '%'" (`:67`): it
is meant for escapes, which need three bytes. In `UriCodec` it is the difference
between `DecodePlus` and `DecodeLast`. `RoundTrip` does not see it, since `UriEncode` makes
no `+`.

## 5. Proofs

`AdfrontTheorems` proves, for every set of faults, every number of subrequests,
every size of a round and every budget:

* `TypeCorrect`: `Spec => []TypeOK`
* `CountBalanced`: `Spec => []CountBalance`
* `ContextHeldOnce`: `Spec => []ContextOnce`
* `NeverLost`: `Spec => []NeverStuck`
* `CompleteWhenFreed`: `Spec => []FreedComplete`
* `AnsweredOnce`: `Spec => AnsweredAfterAll`
* `EndComesNearer`: `Spec => EveryStepCounts`
* `ContractKept`: `Spec => PluginCalledInOrder`, that is, `AdfrontRequest` implements
  `PluginProtocol`

from the assumptions on the constants, of which the proofs use three: the budget
is positive, a plugin asks for at least one subrequest, and `MaxSub` is a natural
number.

No invariant of the first three theorems is inductive. That the count stays
right needs to know whose reference a finalized subrequest gives back:
`ngx_http_finalize_subrequest` drops the count only for the active one, and
takes it out of `postponed` only when it is at its head. The strengthening is
`Sound` (in `NgxHttpTheorems`): the subrequests that are not finalized are
exactly those in `postponed` and the active one, in the order of their creation,
the active one first (`InOrder`). Every operator of `NgxHttp` is shown to keep
it; for `ngx_http_subrequest` and `ngx_http_finalize_subrequest` this is where
the work is, by the cardinality of the set of outstanding subrequests.

`IInv` adds the life of the context by the state of the handler (`ContextInv`)
and that nothing is outstanding while the body is being read (`Unstarted`), which
is why the early close of the finding `parts` leaves no subrequest behind. There
is a lemma for each function that ends a run (`Return_Good`,
`DestroyRequest_Good`, `FinalRequest_Good`, `StartSubrequest_Good` ...), one for
each action, and `NextIInv` puts them together.

`NextIInv` covers the steps of every length of a round at once, where the run
`faults` has four; the run in turn covers what is not proved.

The others need to know who is to run the request next, which is the second
invariant, `XInv`: `IInv`, and `Settled`, of three parts.

* `ReplyInv`: there is one response at most, on its way (`outq`) or out (`sent`), and
  none before the state `DONE`; then every subrequest is done, and in the state `WAIT`
  every one that is not done belongs to the current round.
* `WakeInv`: a handler that is to be run is in the queue. With the write handler
  `run_phases` the main request is queued; a subrequest that has not been run is
  queued; the active subrequest is at its server, or queued to be finalized once
  more; a handler that waits with the write handler `empty` has a subrequest that is
  not done; and the writer that holds the connection has something buffered.
* `FreedInv`: a request is terminated only after a failure (or for `HEAD`), and
  freed without one only when nothing of it is left.

Each end of a run is shown to leave `Settled` behind (`Turn`) and to call the plugin as
often as it says; `..._Frame` lemmas of `NgxHttpTheorems` say what the operators of
nginx leave alone. `Step` adds that every step is one of the handler (`Inside`) or one
of nginx (`Aside`); `Inside_Plugin` and `Aside_Plugin` map each to a step of
`PluginProtocol` or to none. That `PostSubHandle` finds everything done is `Finished`,
which is `ReplyInv` with the whole round done; that a call that returns `PLUGIN_AGAIN`
leaves something to wait for is `WakeInv`.

`EndComesNearer` weighs what is left: 13 for each subrequest that may still be asked
for, 5 for each that stands in `postponed`, 4 for each without an answer, 3 more for
each place of a subrequest in the queue than the 1 of any place, and what is due by
the write handler (2 for a run of the handler, 1 for the writer). Each thing weighs
more than what it can bring: a new subrequest costs 13 and brings 5, 4, 3 and 1; an
answer costs 4 and brings a place in the queue and a run, 1 and 2; a subrequest that
the postpone filter takes out costs 5 and brings its place, 4. There is a lemma for
each operator of nginx (`..._Work`), one for each function that ends a run (`..._Spent`:
a run may leave the writer behind and nothing else that was not there) and one for
each action (`..._Left`). `XInv` is needed where a step could be taken while the
request is being terminated, and for the count that says when it is freed. Together
with `NeverLost`, which says that something is always waited for, this is what
`Termination` rests on; what is left of it is fairness.

`AdserverTheorems` proves, for every size of the buffer, every number of servers
and every length of a body:

* `BodyWithoutGap`, `KeptConnectionIsClean`, `NoWaitForWhole`,
  `HonestServerServed`, `OffAsksOneServer`: `Spec => []P` for the invariants `NoGap` to
  `OffAsksOnce` of the run `upstream`, in this order.

The invariant is that some `k` bytes of the body have been kept (`Good`), and that as
long as `u.length` is not 0 they are all that was received and `u.length` is
what is missing (`Counted`). A piece that is too long breaks `Counted` for ever,
and `Good` survives because the length is 0 from then on. For a truthful server
`Counted` holds to the end, since no piece can be too long. `Filter_Good` is this
argument for one call of the filter; there is a lemma for each action.

It proves `TypeCorrect` too. `OffAsksOneServer` needs that what `merge_loc_conf` makes of
`off` names no failure, and that the tries for stale connections are not counted.

`AdserverConfTheorems` proves `TypeCorrect` and `NearestBlockWins` (`NearestWins`) for
every depth of blocks and all values of the directives. The invariant: the levels
before the next one to be merged are right (`Right`), and the others are as the
directives left them. A level is right after merging because its parent was: the
nearest level that says something is the level itself, or the nearest one of its
parent (`NearestSelf`, `NearestBefore`). For the words this needs that `OffAlone` is
idempotent.

`UriCodecTheorems` proves `TypeCorrect` and `DecodeUndoesEncode` (`RoundTrip`) for texts
of every length over all bytes. The invariant `IInv` follows both loops: the code of
the j-th byte stands in `uri` from `starts[j]` to before `starts[j + 1]` (`Laid`), and
after n rounds the decoder has made the first n bytes and stands at `starts[n + 1]`
(`Matches`). So it never stands inside a code, and no code of three bytes begins among
the last two, which is why the bound of the loop does no harm to encoded text.

It also proves `DecodesByPosition` (`DecodedByPosition`), for strings that nobody has
encoded. The invariant `DInv` counts: the bytes made so far are as many as the places
before `puri` that are kept, the byte of a kept place stands where its number among
them says, and `puri` is not inside an escape, so that what looks like an escape there
is one. That a round adds the next kept place is arithmetic on cardinalities of sets of
places (`Places`).

`PluginManagerTheorems` proves `TypeCorrect`, `PluginsStayAlive` (`PluginAlive`),
`OpenedAsOftenAsHeld` (`LibrariesBalance`), `FirstEntryHasTheName` (`FirstEntryWins`),
`EachInitializedOnce` (`InitializedOnce`) and `FirstFileForever` (`FileOfFirstLocation`), for
every number of files, entries, names and libraries. The invariant has one part for
each question: the file (`FileInv`); the life of each entry's plugin by whether a
name leads to it, with the reference that the round under way holds (`LifeInv`); for
each name the first of the entries gone through so far (`NamesInv`); and the opens
of each library as the number of entries that hold it (`Balance`).

`RequestHeadersTheorems` proves `OwnKeysAlwaysWin` (`OwnKeysWin`), `HeadersAlwaysSpaced`
(`HeadersSpaced`) and `AddressIsOfForward` (`AddressOfForward`), for all requests
whatever their strings are made of. The invariant (`SaidInv`) is that what the
module says stands in the map from the moment it is said, though later headers, the
method and the body are assigned into the same map: no two of its keys are equal
(`KeysDiffer`). For a header under way it holds the invariant of `ReplaceAll`'s loop
(`Replacing`): the text is as long as it was, before `pos` its tabs are spaces, from `pos`
on nothing has changed, and at `pos` there is a tab unless it stands past the end. A
round keeps this because nothing between two finds is a tab (`RoundReplacing`); the
first find begins it (`ReadReplacing`), and past the end it says that every tab is a
space (`ReplacedAll`). The address needs that `Find` returns the first place that will do,
by well-founded induction on places (`FindIs`), and that `ReplaceAll` adds and
removes no comma.

It proves `TypeCorrect`, `BodyIsWhole` (`BodyWhole`) and `FirstPairAlwaysWins`
(`FirstPairWins`) too. `BodyInv` says that what has been copied is what the buffers gone
through hold, in order, behind a pointer that stands where it ends, and that a piece
that was cut short has been noted. The bytes of the buffers are a recursive function,
whose equation is proved by the least counterexample (`LeastPlace`, `UptoExists`,
`BytesIs`). `PairsInv` says that the parser stands at the beginning of a field, and
that for each name of a field before it the map has the value of the first; a round
takes exactly one field (`FieldAt`, `PieceOf`, `NameAt`), and insertion leaves alone what
is there (`ParsedFurther`). What the headers and the body say afterwards is under the
module's own keys (`KeysOwned`, `ParsedKept`).

`ResponseTheorems` proves `TypeCorrect`, `JumpIsExact` (`JumpExactly`) and `JumpOnlyIfAsked`
(`JumpOnlyAsked`), for every answer of a plugin, every length of its result and every
allocation that fails. The invariant is what `ngx_url_jump` leaves behind
(`Redirected`), and that nothing after it undoes it: the cookie's line comes after the
`Location`, and the status is set to 200 only by a response that is no redirect.
`QuotientBounds` is what the division of C does below zero, and with it
`LoggedTimeIsRight`: what is logged is less than a millisecond from what has passed, and
has 0 to 999 milliseconds, also when the clock was set back between the two readings.

Model-checked only: `Termination` and `EndsWithoutTimer`, which are liveness, and need
fairness and `ENABLED`, out of the prover's reach; and the violated claims of the
findings. Every invariant and every action property that a run checks is proved.

## 6. Not modelled

* A crash of the worker by a bug (the NULL and uninitialized reads listed under
  the hazards), keep-alive and pipelining, internal redirects.
* A plugin that breaks its contract: `PLUGIN_AGAIN` with no subrequest (the
  request then hangs), a changed `upstream_request_` between two calls.
* `conf_map` (`PLUGIN_CONF`, `key_val_list`): it is filled before a plugin's `Init` and
  read by nobody else.
* `plugin_destroy_handler`, and with it `~PluginManager`: nothing calls it.
* Logging and its layout.
* Generated protobuf code, and the test programs.

## 7. Plan

What would come next:

1. Several requests on one worker, with `PluginManager` composed, for the calls
   that plugins share, and with `AdserverUpstream` in the place of `UpstreamDone`.
2. Theorems: that a request served by `AdfrontRequest` with `AdserverUpstream` in the place
   of `UpstreamDone` implements `AdfrontRequest` as it stands, so that what is proved
   here holds of the two together.
