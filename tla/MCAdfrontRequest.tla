-------------------------- MODULE MCAdfrontRequest --------------------------
(***************************************************************************)
(* AdfrontRequest for TLC: what its configurations choose the methods and  *)
(* the faults from.                                                        *)
(***************************************************************************)
EXTENDS AdfrontRequest

MCMethods == {"GET", "HEAD", "POST", "OTHER"}
MCBodyReads == {"whole", "parts"}
MCFaults == AllFaults

\* For the runs of the findings, one question at a time.
WholeBody == {"whole"}
NoFaults == {}

PostOnly == {"POST"}
HeadOnly == {"HEAD"}
GetOnly == {"GET"}
InParts == {"parts"}
ClientFaults == {"client"}
=============================================================================
