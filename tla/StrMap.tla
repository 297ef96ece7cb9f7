------------------------------- MODULE StrMap -------------------------------
(***************************************************************************)
(* Strings and maps of strings (STR_MAP, src/plugin_manager/plugin.h).  A  *)
(* string is a sequence of symbols, a map a function from the keys that    *)
(* are in it to their values.                                              *)
(***************************************************************************)
EXTENDS Integers, Sequences

EmptyMap == [k \in {} |-> <<>>]

\* map[k] = v
Assign(map, k, v) ==
    [j \in DOMAIN map \cup {k} |-> IF j = k THEN v ELSE map[j]]

\* Definitions with a last word of their own in their name are wrong versions
\* of the one that follows them: what a slip in the code would make of it.
Insert_Assigned(map, k, v) == Assign(map, k, v)

\* map.insert(make_pair(k, v)) keeps what is there.
Insert(map, k, v) == IF k \in DOMAIN map THEN map ELSE Assign(map, k, v)

\* The first place from from where s has the symbol, or end.
Find(s, symbol, from, end) ==
    CHOOSE p \in from..end :
        /\ p = end \/ s[p] = symbol
        /\ \A o \in from..(p - 1) : s[o] # symbol
=============================================================================
