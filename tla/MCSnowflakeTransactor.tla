------------------------ MODULE MCSnowflakeTransactor ------------------------
(* Instances of SnowflakeTransactor for TLC.                               *)
EXTENDS SnowflakeTransactor

CONSTANTS std, dlt       \* a standard-updates binding and a delta binding

MCBindings == {std, dlt}
MCDelta    == {dlt}

(* Two delta bindings loading through Snowpipe.                           *)
CONSTANTS p1, p2
MCPipeBindings == {p1, p2}
====
