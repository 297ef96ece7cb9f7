--------------------------- MODULE RequestHeaders ---------------------------
(***************************************************************************)
(* What a plugin is told of a request: the assembly of headers_in_ by      *)
(* plugin_create_ctx (src/ngx_handler_interface.cc), from the query, the   *)
(* headers and the body.  A step is one round of a loop, or the code       *)
(* between two of them.                                                    *)
(*                                                                         *)
(* A string is a sequence of symbols: a delimiter, a name of the module's  *)
(* own, or any other piece of text.  Keys are strings, and headers_in is a *)
(* function from the keys that are in the map to their values.             *)
(***************************************************************************)
EXTENDS StrMap

CONSTANTS
    Symbols,     \* what strings are made of
    Requests     \* the requests considered

String == Seq(Symbols)

\* The keys of plugin_config.h, and the values it gives to one of them.
HTTP_REQUEST_BODY == <<"__body__">>
HTTP_REQUEST_URL == <<"__url__">>
HTTP_REQUEST_COOKIE == <<"__cookie__">>
HTTP_REQUEST_IP == <<"__ip__">>
HTTP_REQUEST_METHOD == <<"__method__">>
HTTP_REQUEST_GET_METHOD == <<"__get__">>
HTTP_REQUEST_POST_METHOD == <<"__post__">>
HTTP_REQUEST_HEADER_FORWARD == <<"__forward__">>
HTTP_REQUEST_HEADER_REFERER == <<"__referer__">>
HTTP_REQUEST_HEADER_USER_AGENT == <<"__user_agent__">>
HTTP_REQUEST_PLUGINNAME == <<"__plugin_name__">>

\* "junk" is what memory holds that nobody has written.
Special ==
    {"__body__", "__url__", "__cookie__", "__ip__", "__method__", "__get__",
     "__post__", "__forward__", "__referer__", "__user_agent__",
     "__plugin_name__", "&", "=", "%26", "%3D", "?&platform", "/", "?", ",",
     "tab", "space", "junk"}

ASSUME SymbolsAssumption == Special \subseteq Symbols

\* The lines of a header are a sequence, also where nginx keeps only the last
\* of them (X-Real-IP, User-Agent, Referer): then there is at most one.  path
\* is unparsed_uri up to its '?', and bufs the chain that holds the body.
Request ==
    [method : {"GET", "HEAD", "POST"}, path : String, args : String,
     cookies : Seq(String), forward : Seq(String), realip : Seq(String),
     agent : Seq(String), referer : Seq(String), addr : String,
     bufs : Seq([file : BOOLEAN, bytes : String])]

ASSUME RequestsAssumption == Requests \subseteq Request

VARIABLES
    pc,           \* "url", "parse", "headers", "replace", "body", "copy",
                  \* "done", "error"
    request,      \* the request, which does not change
    headers_in,   \* PluginContext::headers_in_
    query,        \* what is left of the decoded query to be split ...
    beg,          \* ... and where its next pair begins
    header,       \* which of the headers is told next ...
    tmp_str,      \* ... its text, in which tabs are being replaced ...
    pos,          \* ... and where the next one stands, past its end if none does
    buf,          \* the memory for the body
    last,         \* where in it the next buffer goes
    cl,           \* the next buffer of the chain
    short         \* history: a read from a file gave less than was asked for

pair == <<query, beg>>
line == <<header, tmp_str, pos>>
body == <<buf, last, cl, short>>
vars == <<pc, request, headers_in, pair, line, body>>

Init ==
    /\ pc = "url"
    /\ request \in Requests
    /\ headers_in = EmptyMap
    /\ query = <<>> /\ beg = 1
    /\ header = 1 /\ tmp_str = <<>> /\ pos = 1
    /\ buf = <<>> /\ last = 1 /\ cl = 1
    /\ short = FALSE

(***************************************************************************)
(* ngx_header_handler, first part: the query.                              *)
(***************************************************************************)
\* See UriCodec; of the escapes only those of delimiters are told apart.
UriDecode(s) ==
    [p \in DOMAIN s |->
        CASE s[p] = "%26" -> "&" [] s[p] = "%3D" -> "=" [] OTHER -> s[p]]

\* "remove "?&platform" from uri for historical reason", with what follows.
Compat(s) == SubSeq(s, 1, Find(s, "?&platform", 1, Len(s) + 1) - 1)

DecodeUrl ==
    /\ pc = "url"
    /\ LET url == UriDecode(request.args)
       IN  /\ headers_in' = Assign(headers_in, HTTP_REQUEST_URL, url)
           /\ query' = Compat(url)
    /\ pc' = "parse"
    /\ UNCHANGED <<request, beg, line, body>>

Delimiter == Find(query, "&", beg, Len(query) + 1)
Equal == Find(query, "=", beg, Delimiter)

\* Definitions with a last word of their own in their name are wrong versions
\* of the one that follows them: what a slip in the code would make of it.
ngx_url_parser_EmptyKey ==
    /\ pc = "parse"
    /\ beg <= Len(query)
    /\ headers_in' = Insert(headers_in, SubSeq(query, beg, Equal - 1),
                            SubSeq(query, Equal + 1, Delimiter - 1))
    /\ beg' = Delimiter + 1
    /\ UNCHANGED <<pc, request, query, line, body>>

\* A key without a value gets the empty one; an empty key is passed over.
ngx_url_parser ==
    /\ pc = "parse"
    /\ beg <= Len(query)
    /\ headers_in' =
           IF Equal = beg THEN headers_in
           ELSE Insert(headers_in, SubSeq(query, beg, Equal - 1),
                       SubSeq(query, Equal + 1, Delimiter - 1))
    /\ beg' = Delimiter + 1
    /\ UNCHANGED <<pc, request, query, line, body>>

ParserDone ==
    /\ pc = "parse"
    /\ beg > Len(query)
    /\ pc' = "headers"
    /\ UNCHANGED <<request, headers_in, pair, line, body>>

(***************************************************************************)
(* ngx_header_handler, second part: the headers.                           *)
(***************************************************************************)
FirstLine(lines) == IF Len(lines) > 0 THEN lines[1] ELSE <<>>

\* The first of several, as it is.
ngx_http_get_cookie(r) == FirstLine(r.cookies)
ngx_http_get_forward(r) == FirstLine(r.forward)

\* Empty when there is none.
ngx_http_get_referer(r) == FirstLine(r.referer)
ngx_http_get_user_agent(r) == FirstLine(r.agent)

ngx_http_get_realip_Whole(r) ==
    IF Len(r.realip) > 0 THEN r.realip[1]
    ELSE IF Len(r.forward) > 0 THEN r.forward[1] ELSE r.addr

ngx_http_get_realip(r) ==
    IF Len(r.realip) > 0 THEN r.realip[1]
    ELSE IF Len(r.forward) > 0
    THEN SubSeq(r.forward[1], 1,
                Find(r.forward[1], ",", 1, Len(r.forward[1]) + 1) - 1)
    ELSE r.addr

\* Where the last component of the path begins: 1 if there is no '/'.
NameBegins(path) ==
    CHOOSE p \in 1..(Len(path) + 1) :
        /\ p = 1 \/ path[p - 1] = "/"
        /\ \A o \in p..Len(path) : path[o] # "/"

PluginName(r) == SubSeq(r.path, NameBegins(r.path), Len(r.path))

\* The headers in the order in which they are told, and their keys.
Told(r) ==
    <<ngx_http_get_cookie(r), ngx_http_get_forward(r), ngx_http_get_user_agent(r),
      ngx_http_get_referer(r), ngx_http_get_realip(r)>>

HeaderKeys ==
    <<HTTP_REQUEST_COOKIE, HTTP_REQUEST_HEADER_FORWARD,
      HTTP_REQUEST_HEADER_USER_AGENT, HTTP_REQUEST_HEADER_REFERER,
      HTTP_REQUEST_IP>>

FindTab(s, from) == Find(s, "tab", from, Len(s) + 1)

\* The h-th header is read, and ReplaceAll(tmp_str, "\t", " ") looks for a tab.
Read(h) ==
    /\ header' = h
    /\ tmp_str' = Told(request)[h]
    /\ pos' = FindTab(tmp_str', 1)

\* "invalid uri": nginx gives one without '/' to no request of its own.
ngx_header_handler ==
    /\ pc = "headers"
    /\ \/ /\ \A p \in DOMAIN request.path : request.path[p] # "/"
          /\ pc' = "error"
          /\ UNCHANGED <<headers_in, line>>
       \/ /\ \E p \in DOMAIN request.path : request.path[p] = "/"
          /\ headers_in' = Assign(headers_in, HTTP_REQUEST_PLUGINNAME,
                                  PluginName(request))
          /\ Read(1)
          /\ pc' = "replace"
    /\ UNCHANGED <<request, pair, body>>

ReplaceAll_Once ==
    /\ pc = "replace"
    /\ pos <= Len(tmp_str)
    /\ tmp_str' = [tmp_str EXCEPT ![pos] = "space"]
    /\ pos' = Len(tmp_str) + 1
    /\ UNCHANGED <<pc, request, headers_in, pair, header, body>>

\* A round of the loop: a tab is replaced, and the next one is looked for.
ReplaceAll ==
    /\ pc = "replace"
    /\ pos <= Len(tmp_str)
    /\ tmp_str' = [tmp_str EXCEPT ![pos] = "space"]
    /\ pos' = FindTab(tmp_str', pos + 1)
    /\ UNCHANGED <<pc, request, headers_in, pair, header, body>>

\* HEAD has no value.
MethodValue(r) ==
    IF r.method = "POST" THEN HTTP_REQUEST_POST_METHOD
    ELSE HTTP_REQUEST_GET_METHOD

WithMethod_Inserted(map) ==
    IF header # 1 \/ request.method = "HEAD" THEN map
    ELSE Insert(map, HTTP_REQUEST_METHOD, MethodValue(request))

\* The method is told after the first header, the cookie.
WithMethod(map) ==
    IF header # 1 \/ request.method = "HEAD" THEN map
    ELSE Assign(map, HTTP_REQUEST_METHOD, MethodValue(request))

HeaderSaid ==
    /\ pc = "replace"
    /\ pos > Len(tmp_str)
    /\ headers_in' =
           WithMethod(Assign(headers_in, HeaderKeys[header], tmp_str))
    /\ \/ header < Len(HeaderKeys) /\ Read(header + 1) /\ UNCHANGED pc
       \/ header = Len(HeaderKeys) /\ pc' = "body" /\ UNCHANGED line
    /\ UNCHANGED <<request, pair, body>>

(***************************************************************************)
(* ngx_do_get_post_body.                                                   *)
(***************************************************************************)
\* The bytes of the first n buffers, in order.
Bytes(bufs, n) ==
    LET upto[i \in 0..n] ==
            IF i = 0 THEN <<>> ELSE upto[i - 1] \o bufs[i].bytes
    IN  upto[n]

BodyLength == Len(Bytes(request.bufs, Len(request.bufs)))

\* Memory for the whole body is allocated, or the pool cannot grow.
ngx_do_get_post_body ==
    /\ pc = "body"
    /\ \/ /\ request.method # "POST"
          /\ pc' = "done"
          /\ UNCHANGED <<headers_in, buf>>
       \/ /\ request.method = "POST"
          /\ BodyLength = 0
          /\ headers_in' = Assign(headers_in, HTTP_REQUEST_BODY, <<>>)
          /\ pc' = "done"
          /\ UNCHANGED buf
       \/ /\ request.method = "POST"
          /\ BodyLength > 0
          /\ \/ /\ pc' = "copy"
                /\ buf' = [p \in 1..BodyLength |-> "junk"]
             \/ /\ pc' = "error"
                /\ UNCHANGED buf
          /\ UNCHANGED headers_in
    /\ UNCHANGED <<request, pair, line, last, cl, short>>

Copied_LastKept(bytes, n) ==
    /\ buf' = [p \in DOMAIN buf |->
                  IF p \in last..(last + n - 1) THEN bytes[p - last + 1]
                  ELSE buf[p]]
    /\ UNCHANGED last

\* The first n of these bytes go where last points, which moves on by n.
Copied(bytes, n) ==
    /\ buf' = [p \in DOMAIN buf |->
                  IF p \in last..(last + n - 1) THEN bytes[p - last + 1]
                  ELSE buf[p]]
    /\ last' = last + n

ReadFailed_Never(nbytes) == FALSE

ReadFailed(nbytes) == nbytes < 0

\* ngx_read_file may fail, and give less than the length of the buffer.
CopyBuffer ==
    /\ pc = "copy"
    /\ cl <= Len(request.bufs)
    /\ LET b == request.bufs[cl]
       IN  \E nbytes \in IF b.file THEN -1..Len(b.bytes) ELSE {Len(b.bytes)} :
              \/ /\ ReadFailed(nbytes)
                 /\ pc' = "error"
                 /\ UNCHANGED <<buf, last, short>>
              \/ /\ ~ReadFailed(nbytes)
                 /\ Copied(b.bytes, nbytes)
                 /\ short' = (short \/ nbytes < Len(b.bytes))
                 /\ UNCHANGED pc
    /\ cl' = cl + 1
    /\ UNCHANGED <<request, headers_in, pair, line>>

BodyDone ==
    /\ pc = "copy"
    /\ cl > Len(request.bufs)
    /\ headers_in' = Assign(headers_in, HTTP_REQUEST_BODY, buf)
    /\ pc' = "done"
    /\ UNCHANGED <<request, pair, line, body>>

Next ==
    \/ DecodeUrl
    \/ ngx_url_parser
    \/ ParserDone
    \/ ngx_header_handler
    \/ ReplaceAll
    \/ HeaderSaid
    \/ ngx_do_get_post_body
    \/ CopyBuffer
    \/ BodyDone

Spec == Init /\ [][Next]_vars

-----------------------------------------------------------------------------
(***************************************************************************)
(* Properties.                                                             *)
(***************************************************************************)
TypeOK ==
    /\ pc \in {"url", "parse", "headers", "replace", "body", "copy", "done", "error"}
    /\ request \in Request
    /\ DOMAIN headers_in \subseteq String
    /\ \A k \in DOMAIN headers_in : headers_in[k] \in String
    /\ query \in String /\ buf \in String
    /\ header \in DOMAIN HeaderKeys /\ tmp_str \in String /\ pos \in Nat \ {0}
    /\ beg \in Nat \ {0} /\ last \in Nat \ {0} /\ cl \in Nat \ {0}
    /\ last <= Len(buf) + 1
    /\ short \in BOOLEAN

(***************************************************************************)
(* What the query says, without a loop: its fields are what stands between *)
(* two '&' that have none between them, and a field means a pair if it has *)
(* a name before its first '='.                                            *)
(***************************************************************************)
Query ==
    LET s == UriDecode(request.args)
        Cuts == {p \in DOMAIN s : s[p] = "?&platform"}
    IN  SubSeq(s, 1, IF Cuts = {} THEN Len(s)
                     ELSE (CHOOSE p \in Cuts : \A o \in Cuts : p <= o) - 1)

Fields ==
    {f \in (1..(Len(Query) + 1)) \X (0..Len(Query)) :
        /\ f[1] <= f[2] + 1
        /\ f[1] = 1 \/ Query[f[1] - 1] = "&"
        /\ f[2] = Len(Query) \/ Query[f[2] + 1] = "&"
        /\ \A p \in f[1]..f[2] : Query[p] # "&"}

HasName(f, k) ==
    /\ Len(k) > 0
    /\ \A i \in DOMAIN k : k[i] # "="
    /\ f[1] + Len(k) - 1 <= f[2]
    /\ SubSeq(Query, f[1], f[1] + Len(k) - 1) = k
    /\ f[1] + Len(k) <= f[2] => Query[f[1] + Len(k)] = "="

Firsts(k) ==
    {f \in Fields : HasName(f, k)
        /\ \A g \in Fields : HasName(g, k) => f[1] <= g[1]}

\* The keys that the module gives a value of its own.  What the others hold is
\* the query's: for HEAD __method__ is one of them, and but for POST __body__.
OwnKeys ==
    {HTTP_REQUEST_URL, HTTP_REQUEST_PLUGINNAME}
        \cup {HeaderKeys[h] : h \in DOMAIN HeaderKeys}
        \cup (IF request.method = "HEAD" THEN {} ELSE {HTTP_REQUEST_METHOD})
        \cup (IF request.method = "POST" THEN {HTTP_REQUEST_BODY} ELSE {})

\* A key that is not one of the module's own has the value of the query's first
\* field with that name, the empty one if it says none; no field's name
\* or value is lost, cut short or taken for another's (ngx_url_parser, on the
\* query as it is after decoding and after the cut at "?&platform").
FirstPairWins ==
    pc = "done" =>
        /\ \A f \in Fields : \A e \in f[1]..f[2] :
             LET k == SubSeq(Query, f[1], e)
             IN  HasName(f, k) => k \in DOMAIN headers_in
        /\ \A k \in DOMAIN headers_in \ OwnKeys :
             \E f \in Firsts(k) :
                headers_in[k] = SubSeq(Query, f[1] + Len(k) + 1, f[2])

Holds(k, v) == k \in DOMAIN headers_in /\ headers_in[k] = v

\* Which plugin is called, and with which method, does not depend on what the
\* query says: the name is what stands after the last '/' of the path, __url__
\* is the whole query, and __method__ that of a GET or a POST, even when the
\* query has pairs of those names.  Handler::Handle's assert that there is a
\* name is a part of it.  (The method of HEAD is the query's: FirstPairWins.)
OwnKeysWin ==
    pc = "done" =>
        /\ \E p \in DOMAIN request.path :
             LET name == SubSeq(request.path, p + 1, Len(request.path))
             IN  /\ request.path[p] = "/"
                 /\ \A o \in DOMAIN name : name[o] # "/"
                 /\ Holds(HTTP_REQUEST_PLUGINNAME, name)
        /\ Holds(HTTP_REQUEST_URL, UriDecode(request.args))
        /\ request.method = "GET" =>
             Holds(HTTP_REQUEST_METHOD, HTTP_REQUEST_GET_METHOD)
        /\ request.method = "POST" =>
             Holds(HTTP_REQUEST_METHOD, HTTP_REQUEST_POST_METHOD)

\* The address is that of one client: without an X-Real-IP, what __forward__
\* begins with, up to its first comma (ngx_http_get_realip reads the header
\* again, and both go through ReplaceAll).
AddressOfForward ==
    pc = "done" /\ Len(request.realip) = 0 /\ Len(request.forward) > 0 =>
        LET ip == headers_in[HTTP_REQUEST_IP]
            forward == headers_in[HTTP_REQUEST_HEADER_FORWARD]
        IN  /\ Len(ip) <= Len(forward)
            /\ ip = SubSeq(forward, 1, Len(ip))
            /\ \A p \in DOMAIN ip : ip[p] # ","
            /\ Len(ip) < Len(forward) => forward[Len(ip) + 1] = ","

Spaced(s) == [p \in DOMAIN s |-> IF s[p] = "tab" THEN "space" ELSE s[p]]

\* The plugin is given the first line of each header as the client sent it but
\* for the tabs, every one of which is a space, two in a row and the last byte
\* included; and no pair of the query takes its place (ReplaceAll's loop and
\* the assignments after each run of it).  An address without either header is
\* that of the connection.
HeadersSpaced ==
    pc = "done" =>
        /\ Holds(HTTP_REQUEST_COOKIE, Spaced(FirstLine(request.cookies)))
        /\ Holds(HTTP_REQUEST_HEADER_FORWARD, Spaced(FirstLine(request.forward)))
        /\ Holds(HTTP_REQUEST_HEADER_USER_AGENT, Spaced(FirstLine(request.agent)))
        /\ Holds(HTTP_REQUEST_HEADER_REFERER, Spaced(FirstLine(request.referer)))
        /\ Len(request.realip) > 0 =>
             Holds(HTTP_REQUEST_IP, Spaced(request.realip[1]))
        /\ Len(request.realip) = 0 /\ Len(request.forward) = 0 =>
             Holds(HTTP_REQUEST_IP, Spaced(request.addr))

\* The body of a POST request is there in full and in order, from whatever
\* buffers and files, and nothing of the memory that was there before: unless
\* a file turned out shorter than nginx believed (ngx_do_get_post_body).
BodyWhole ==
    pc = "done" /\ request.method = "POST" /\ ~short =>
        headers_in[HTTP_REQUEST_BODY] =
            Bytes(request.bufs, Len(request.bufs))
=============================================================================
