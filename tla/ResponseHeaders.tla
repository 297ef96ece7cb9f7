--------------------------- MODULE ResponseHeaders ---------------------------
(***************************************************************************)
(* What plugin_final_request (src/ngx_handler_interface.cc) makes of a     *)
(* plugin's headers_out_ and handle_result_: the redirect, the cookie, the *)
(* status and the body, up to the call of ngx_http_send_header.  A step is *)
(* one of the calls it makes.                                              *)
(*                                                                         *)
(* AdfrontRequest has the whole of it as one step that fails or writes.    *)
(***************************************************************************)
EXTENDS Integers, Sequences

CONSTANTS
    Result,     \* the lengths of handle_result_ considered
    Faults      \* {"alloc"} when the request's pool may fail to grow

ASSUME ResultAssumption == Result \subseteq Nat
ASSUME FaultsAssumption == Faults \subseteq {"alloc"}

(***************************************************************************)
(* headers_out_ says yes ("1"), no (anything else) or nothing to two       *)
(* questions, and has or has not each of the values that they call for.    *)
(***************************************************************************)
Questions == {"is_jumpurl", "is_cookie"}
Values == {"u", "pvidlist", "cookie_domain", "cookie_path",
           "is_cookie_expires", "cookie_expires"}

HeadersOut == [asked : [Questions -> {"1", "other", "absent"}],
               present : SUBSET Values]

VARIABLES
    pc,           \* "jump", "cookie", "result", "header", "sent", "error" or
                  \* "crash"
    headers_out,  \* what the plugin has set
    result,       \* the length of handle_result_
    headers,      \* r->headers_out.headers: names, and what their values are
                  \* made of
    status,       \* r->headers_out.status, 0 before it is set
    length,       \* r->headers_out.content_length_n, -1 before it is set
    fault         \* history: an allocation for a header has failed

vars == <<pc, headers_out, result, headers, status, length, fault>>

Init ==
    /\ pc = "jump"
    /\ headers_out \in HeadersOut
    /\ result \in Result
    /\ headers = <<>>
    /\ status = 0
    /\ length = -1
    /\ fault = FALSE

Asks(q) == headers_out.asked[q] = "1"
Has(v) == v \in headers_out.present

\* "undefined" is memory that nobody has written.
Header(name, value) == [name |-> name, value |-> value]

(***************************************************************************)
(* ngx_list_push, and ngx_palloc for the value: when the second fails, the *)
(* header stays in the list with its name and no value.                    *)
(***************************************************************************)
Push(name, value) ==
    \/ /\ headers' = Append(headers, Header(name, value))
       /\ UNCHANGED fault
    \/ /\ "alloc" \in Faults
       /\ fault' = TRUE
       /\ headers' \in {headers, Append(headers, Header(name, <<"undefined">>))}

\* Definitions with a last word of their own in their name are wrong versions
\* of the one that follows them: what a slip in the code would make of it.
JumpAsked_AlsoOther == headers_out.asked["is_jumpurl"] # "absent"

JumpAsked == Asks("is_jumpurl")

\* The status is set before the header is made.  Whatever it returns,
\* plugin_final_request goes on.
ngx_url_jump ==
    /\ pc = "jump"
    /\ \/ /\ ~JumpAsked \/ ~Has("u")
          /\ UNCHANGED <<headers, status, fault>>
       \/ /\ JumpAsked /\ Has("u")
          /\ status' = 302
          /\ Push("Location", <<"u">>)
    /\ pc' = "cookie"
    /\ UNCHANGED <<headers_out, result, length>>

\* What follows the value that the cookie begins with.
Attributes ==
    (IF Has("cookie_domain") THEN <<"cookie_domain">> ELSE <<>>)
    \o (IF Has("cookie_path") THEN <<"cookie_path">> ELSE <<>>)
    \o (IF Has("is_cookie_expires") /\ Has("cookie_expires")
        THEN <<"cookie_expires">> ELSE <<>>)

\* With a value the function fails.  Without one it reads what kv_out.end()
\* leads to, which is no element of the map.
ngx_write_cookie ==
    /\ pc = "cookie"
    /\ \/ /\ ~Asks("is_cookie") \/ Has("pvidlist")
          /\ pc' = "result"
          /\ UNCHANGED <<headers, fault>>
       \/ /\ Asks("is_cookie") /\ ~Has("pvidlist")
          /\ \/ /\ pc' = "crash"
                /\ UNCHANGED <<headers, fault>>
             \/ /\ pc' = "result"
                /\ Push("Set-Cookie", <<"undefined">> \o Attributes)
    /\ UNCHANGED <<headers_out, result, status, length>>

EmptyResult_Never == FALSE

EmptyResult == result = 0

\* An empty result ends the request, and so does a pool that cannot grow.
CheckResult ==
    /\ pc = "result"
    /\ \/ /\ EmptyResult \/ "alloc" \in Faults
          /\ pc' = "error"
       \/ /\ ~EmptyResult
          /\ pc' = "header"
    /\ UNCHANGED <<headers_out, result, headers, status, length, fault>>

Status_Always == 200

\* 302 url jump
Status == IF status # 302 THEN 200 ELSE status

SetStatus ==
    /\ pc = "header"
    /\ status' = Status
    /\ length' = result
    /\ pc' = "sent"
    /\ UNCHANGED <<headers_out, result, headers, fault>>

Next ==
    \/ ngx_url_jump
    \/ ngx_write_cookie
    \/ CheckResult
    \/ SetStatus

Spec == Init /\ [][Next]_vars

-----------------------------------------------------------------------------
(***************************************************************************)
(* Properties.                                                             *)
(***************************************************************************)
HeaderParts == Values \cup {"undefined"}

TypeOK ==
    /\ pc \in {"jump", "cookie", "result", "header", "sent", "error", "crash"}
    /\ headers_out \in HeadersOut
    /\ result \in Result
    /\ headers \in Seq([name : {"Location", "Set-Cookie"}, value : Seq(HeaderParts)])
    /\ status \in {0, 200, 302}
    /\ fault \in BOOLEAN
    /\ pc = "sent" => status # 0 /\ length > 0

Named(name) == {i \in DOMAIN headers : headers[i].name = name}

\* The client is sent elsewhere exactly if the plugin asks for it and says
\* where to, and is then told where, once; the status survives until the
\* header is sent, and nothing of it is left when the jump could not be made
\* for want of a url (ngx_url_jump, whose result is ignored, and the status
\* of plugin_final_request).  If no allocation has failed.
JumpExactly ==
    pc = "sent" /\ ~fault =>
        /\ status = 302 <=> Asks("is_jumpurl") /\ Has("u")
        /\ status = 302 =>
             \E i \in Named("Location") :
                 /\ Named("Location") = {i}
                 /\ headers[i].value = <<"u">>
        /\ status = 200 => Named("Location") = {}

\* Also when memory runs out, nobody is sent elsewhere who need not be, and a
\* response that says where to go says that it is a redirect.
JumpOnlyAsked ==
    pc = "sent" =>
        /\ status = 302 => Asks("is_jumpurl") /\ Has("u")
        /\ Named("Location") # {} => status = 302

(***************************************************************************)
(* What a message in the source says and the code does not do.             *)
(***************************************************************************)
\* ngx_handler_interface.cc:805 "set write cookies without cookies value": it
\* is for want of a value that no cookie is written.
CookieWritten ==
    pc = "sent" /\ Asks("is_cookie") /\ Has("pvidlist") =>
        Named("Set-Cookie") # {}
=============================================================================
