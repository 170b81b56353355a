---------------------------- MODULE MCSubagentTask ----------------------------
(* Instances of SubagentTask small enough for TLC.                             *)
EXTENDS SubagentTask

MCWaiter == {Result(c) : c \in Call} \cup {Notice(c) : c \in Call}
===============================================================================
