--------------------------- MODULE MCRTCPBuilder ---------------------------
EXTENDS RTCPBuilder

CONSTANTS name, note

MCItems    == <<name, note>>
MCInterval == [i \in {name, note} |-> IF i = name THEN 1 ELSE 2]
MCNever    == [i \in {name, note} |-> -1]

=============================================================================
