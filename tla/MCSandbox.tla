------------------------------ MODULE MCSandbox ------------------------------
(***************************************************************************)
(* An instance of Sandbox for TLC, and mutants of its definitions.          *)
(***************************************************************************)
EXTENDS Sandbox

CONSTANTS r1, r2, df1

\* r1 calls a tool that makes df1, r2 one that loads an artifact as df1 first.
MCJobsOf == [r \in {r1, r2} |->
              { [inputs |-> IF r = r1 THEN {} ELSE {df1}, items |-> {df1}] }]

MCCallsOf == [r \in {r1, r2} |-> IF r = r1 THEN 1 ELSE 2]

=============================================================================
