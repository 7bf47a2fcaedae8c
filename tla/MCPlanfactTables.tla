-------------------------- MODULE MCPlanfactTables --------------------------
(* Plans of two rows and two months, two or three facts; a CFO in two       *)
(* spellings; two articles of the plan and three of the facts, one alike,   *)
(* one nearly so and one of another name; a label without any code and one  *)
(* whose normal form has another normal form.                               *)
EXTENDS PlanfactTables, TLC

MCCfos   == {"A", "a", "B"}
MCCfoKey == [c \in MCCfos |-> IF c = "B" THEN "B" ELSE "a"]

\* "1 rent" is a label with the code 1; "rental" and "lease" have none.
MCLabels == {"", "1", "2", "1 rent", "rent", "rental", "lease", "taxi", "2024 rent", "pay 2024 rent"}
MCNormal == [l \in MCLabels |-> CASE l \in {"1 rent", "lease", "2024 rent"} -> "rent"
                                  [] l = "pay 2024 rent" -> "2024 rent" [] OTHER -> l]
MCCode   == [l \in MCLabels |-> CASE l \in {"1", "1 rent"} -> "1" [] l = "2" -> "2" [] OTHER -> ""]

MCDictionary == ("lease" :> "rent") @@ ("rent" :> "rent")
MCScore == [p \in MCLabels \X MCLabels |->
               IF p = <<"rental", "rent">> THEN 92
               ELSE IF p = <<"rental", "taxi">> THEN 80 ELSE 10]

MCPeriods == {1, 2, 3}
PlanRow(c, a, x, y) == [cfo |-> c, article |-> a, amount |-> (1 :> x) @@ (2 :> y)]
FactRow(c, a, p, x) == [cfo |-> c, article |-> a, period |-> p, amount |-> x]

MCPlans == { << PlanRow(c, a, 100, x), PlanRow(d, b, 20, 7) >> :
                c \in {"A"}, d \in MCCfos, x \in {0, 50},
                a \in {"1 rent"}, b \in {"1 rent", "2", "taxi", "pay 2024 rent", ""} }

FactRows1 == { FactRow(c, a, p, 3) : c \in {"A", "a"}, a \in {"1 rent", "lease"}, p \in {1, 3} }
FactRows2 == { FactRow(c, a, p, 5) : c \in MCCfos, a \in {"rental", "taxi", "2", "pay 2024 rent", ""},
              p \in {1, 2, 0} }
MCFacts == { <<f, g>> : f \in FactRows1, g \in FactRows2 }
           \union { <<f, g, FactRow("B", "lease", 1, -3)>> : f \in FactRows1, g \in FactRows2 }

MCCfoMaps     == { <<>>, "B" :> "a", "a" :> "B" }
MCArticleMaps == { <<>>, ("taxi" :> "rent") @@ ("2" :> "1") }
MCModes       == {"name", "pl_code"}

=============================================================================
