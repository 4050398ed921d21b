----------------------------- MODULE MCPlanChange -----------------------------
\* Two contracts of one company, signed for the same plan.
EXTENDS PlanChange

CONSTANTS u1, u2, c1, c2, a, b

PlanesFirmados == [c \in {c1, c2} |-> a]
================================================================================
