--------------------------- MODULE PluginProtocol ---------------------------
(***************************************************************************)
(* What plugin.h and the comments of ngx_handler_interface.cc promise the  *)
(* author of a plugin, for one request: Handle is called once, before any  *)
(* other call; whenever a call has returned PLUGIN_AGAIN, PostSubHandle is *)
(* called again, but only when every subrequest it asked for is done; and  *)
(* after any other return value there is no further call.  A request may   *)
(* be abandoned between two calls.                                         *)
(***************************************************************************)
EXTENDS Naturals

VARIABLES
    stage,     \* "fresh", "asked" (the last call returned AGAIN) or "over"
    waiting,   \* the subrequests of the last call that are not done
    calls      \* calls made so far

vars == <<stage, waiting, calls>>

TypeOK ==
    /\ stage \in {"fresh", "asked", "over"}
    /\ waiting \subseteq Nat
    /\ calls \in Nat

Init == stage = "fresh" /\ waiting = {} /\ calls = 0

\* The plugin is called and returns.
Call ==
    /\ calls' = calls + 1
    /\ \/ stage' = "over" /\ waiting' = {}
       \/ stage' = "asked" /\ waiting' \in (SUBSET Nat) \ {{}}

Handle == stage = "fresh" /\ Call

PostSubHandle == stage = "asked" /\ waiting = {} /\ Call

SubrequestDone(i) ==
    /\ stage = "asked"
    /\ i \in waiting
    /\ waiting' = waiting \ {i}
    /\ UNCHANGED <<stage, calls>>

Abandon ==
    /\ stage \in {"fresh", "asked"}
    /\ stage' = "over"
    /\ waiting' = {}
    /\ UNCHANGED calls

Next ==
    \/ Handle
    \/ PostSubHandle
    \/ \E i \in waiting : SubrequestDone(i)
    \/ Abandon

Spec == Init /\ [][Next]_vars
=============================================================================
