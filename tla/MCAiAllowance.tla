--------------------------- MODULE MCAiAllowance ---------------------------
(* AiAllowance on small instances: a plan that allows one charge a month   *)
(* and one that allows two.                                                *)
EXTENDS AiAllowance, TLC

CONSTANTS free, pro

Limits == [plan \in Plans |-> IF plan = free THEN 1 ELSE 2]

\* Linking neither loses nor double counts usage, and a worker that still owns
\* its lease may charge.
UsageSound == UsageConserved /\ LeaseSound

\* Linking within one month: the end of a month is a step of MCServerGates.
LinksNext == Next /\ UNCHANGED clocks
LinksSpec == Init /\ [][LinksNext]_vars

Symmetry ==
    Permutations(Calls) \cup Permutations(Linkers) \cup
    Permutations(Installations) \cup Permutations(Accounts) \cup
    Permutations(Requests)
=============================================================================
