---------------------------- MODULE MCStoreCalls ----------------------------
(* Small instances of StoreCalls for TLC.                                  *)
EXTENDS StoreCalls

CONSTANTS v1, b1, cert, payload

\* Units of 5 minutes: a confirmation timeout of 15 minutes, a V2 dispersal
\* that takes less than 5, WriteTimeout of 40 minutes.
MCTimeout == [V1 |-> 3, V2 |-> 1]

\* V1: as often as fits; V2: indefinitely.
MCPutTries == [V1 |-> 2, V2 |-> -1]

\* The default of --eigenda.put-retries.
MCDefaultTries == [V1 |-> 3, V2 |-> 3]

MCPayloadOf == [c \in {cert} |-> payload]

\* V1, V2 and pairs have no state in common.
MCRouteMixes == {{"put", "get"} \X {b} : b \in Backends \cup {"pair"}}
MCPutV1 == {{<<"put", "V1">>}}
=============================================================================
