---------------------------- MODULE QuotaLedger ----------------------------
(***************************************************************************)
(* What the paid-AI allowance promises, with no Redis in sight: subjects   *)
(* are partitioned into quota groups that only ever merge; an AI request   *)
(* is charged at most once to a group while the month it was charged in is *)
(* still on record; and a charge is made only while the group's own        *)
(* charges of that month are below the limit of the plan it is made under. *)
(* AiAllowance implements this specification.                              *)
(***************************************************************************)
EXTENDS Integers, FiniteSets

CONSTANTS
    Subjects,        \* installation and account subjects
    Calls,           \* names of charge events
    Requests,        \* AI request ids (UUIDs)
    Plans,           \* plan kinds
    Months,          \* UTC months
    AllowanceLimit   \* [Plans -> Nat]

VARIABLES
    group,           \* [Subjects -> Subjects], the representative of a group
    spent,           \* the charges made so far
    expired          \* months before this one are off the record

ledgerVars == <<group, spent, expired>>

Charge == [call : Calls, subject : Subjects, request : Requests,
           plan : Plans, month : Months]

\* The charges of the group r in the month m.
Spent(r, m) == {c \in spent : group[c.subject] = r /\ c.month = m}

Init ==
    /\ group = [s \in Subjects |-> s]
    /\ spent = {}
    /\ expired = 0

\* A charge: new to its group, and within the limit of its plan.
Spend(c) ==
    /\ \A d \in spent :
          /\ d.call # c.call
          /\ (group[d.subject] = group[c.subject] /\ d.request = c.request)
                => d.month < expired
    /\ Cardinality(Spent(group[c.subject], c.month)) < AllowanceLimit[c.plan]
    /\ spent' = spent \cup {c}
    /\ UNCHANGED <<group, expired>>

\* Linking merges one whole group into another; it charges nothing.
Merge(from, to) ==
    /\ group[to] = to
    /\ group' = [s \in Subjects |->
                    IF group[s] = from THEN to ELSE group[s]]
    /\ UNCHANGED <<spent, expired>>

Forget ==
    /\ expired' = expired + 1
    /\ UNCHANGED <<group, spent>>

Next ==
    \/ \E c \in Charge : Spend(c)
    \/ \E from, to \in Subjects : Merge(from, to)
    \/ Forget

Spec == Init /\ [][Next]_ledgerVars
=============================================================================
