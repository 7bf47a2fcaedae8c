---------------------------- MODULE MCToolBatch ----------------------------
(* Three calls of two tools and the planner in one batch or two.            *)
EXTENDS ToolBatch

MCNames        == {"update_plan", "rag_tool", "sql_tool"}
MCParallelSafe == {"update_plan", "rag_tool"}

Call(name, id, out) == [name |-> name, id |-> id, out |-> out]
MCShapes ==
    { Call("update_plan", FALSE, "told"), Call("sql_tool", FALSE, "mixed"),
      Call("sql_tool", TRUE, "raised"),   Call("sql_tool", FALSE, "made") }
    \union { Call("rag_tool", TRUE, out)  : out \in {"made", "noted"} }
    \union { Call("rag_tool", FALSE, out) : out \in {"made", "unheard", "bare", "empty"} }

=============================================================================
