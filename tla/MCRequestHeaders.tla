-------------------------- MODULE MCRequestHeaders --------------------------
(***************************************************************************)
(* RequestHeaders for TLC: requests that differ in their queries, and      *)
(* requests that differ in everything else.                                *)
(***************************************************************************)
EXTENDS RequestHeaders

CONSTANTS QuerySymbols, MaxArgs

Text == {"x", "c1", "c2", "b1", "b2", "b3", "a1", "a2", "a3", "p"}

MCSymbols == Special \cup Text

Base ==
    [method |-> "GET", path |-> <<"/", "p">>, args |-> <<>>,
     cookies |-> <<<<"c1">>>>, forward |-> <<>>, realip |-> <<>>,
     agent |-> <<<<"c1">>>>, referer |-> <<>>, addr |-> <<"a3">>, bufs |-> <<>>]

QueryRequests ==
    {[Base EXCEPT !.method = m, !.args = q] :
        m \in {"GET", "HEAD", "POST"},
        q \in UNION {[1..n -> QuerySymbols] : n \in 0..MaxArgs}}

Memory(bytes) == [file |-> FALSE, bytes |-> bytes]
File(bytes) == [file |-> TRUE, bytes |-> bytes]

\* The bodies that nginx may have read: none, in memory, in a file, or begun
\* in memory and continued in a file.
Bodies ==
    {<<>>, <<Memory(<<>>)>>, <<Memory(<<"b1">>)>>,
     <<Memory(<<"b1", "b2">>), Memory(<<"b3">>)>>,
     <<File(<<"b1", "b2">>)>>,
     <<Memory(<<"b1">>), File(<<"b2", "b3">>)>>}

Lines == {<<>>, <<<<"a1", "tab", "a2", ",", "tab", "c1">>>>, <<<<",">>, <<"c2">>>>}

HeaderRequests ==
    {[method |-> m[1], path |-> p, args |-> q, cookies |-> c, forward |-> f,
      realip |-> i, agent |-> a, referer |-> <<<<"c2", "tab", "tab">>>>,
      addr |-> <<"a3">>, bufs |-> m[2]] :
        m \in ({"GET", "HEAD"} \X {<<>>}) \cup ({"POST"} \X Bodies),
        p \in {<<"/", "p">>, <<"/", "c1", "/", "p">>, <<"/">>, <<"p">>},
        q \in {<<>>, <<"__plugin_name__", "=", "/", "x">>, <<"__body__">>},
        c \in Lines, f \in Lines,
        i \in {<<>>, <<<<>>>>, <<<<"a2", ",">>>>},
        a \in {<<>>, <<<<"tab">>>>}}

MCRequests == QueryRequests \cup HeaderRequests
=============================================================================
