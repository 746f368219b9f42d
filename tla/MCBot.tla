------------------------------- MODULE MCBot --------------------------------
(***************************************************************************)
(* Instances of Bot for TLC: the budgets of each run, each naming only     *)
(* what may happen and how often.  A run with two budgets covers two kinds *)
(* of circumstances, but not their combination.                            *)
(***************************************************************************)
EXTENDS Bot, TLC

CONSTANTS h1, h2

\* Webhook tasks are interchangeable.
Symmetry == Permutations({h1, h2})

\* Allow what the record `some` names, as often as it says, and nothing else.
Allow(some) == [kind \in Kinds |-> IF kind \in DOMAIN some THEN some[kind] ELSE 0]

LeasesBudgets ==
    {Allow([lease |-> 1, click |-> 2, api |-> 1,
            recordTtl |-> 1, overtake |-> 1]),
     Allow([lease |-> 1, reopen |-> 1, click |-> 1])}
FaultsBudgets ==
    {Allow([crash |-> 1, store |-> 1, storeReply |-> 1, telegram |-> 1,
            click |-> 1, overtake |-> 1]),
     Allow([reopen |-> 1, click |-> 1, api |-> 1, overtake |-> 1]),
     Allow([timeout |-> 1, click |-> 1, overtake |-> 1])}
AgreementBudgets ==
    {Allow([store |-> 1, telegram |-> 1, timeout |-> 1, api |-> 1,
            click |-> 1, overtake |-> 1]),
     Allow([reopen |-> 1, click |-> 1, api |-> 1, comment |-> 1,
            dedupTtl |-> 1, delete |-> 1])}
ProgressBudgets ==
    {Allow([crash |-> 1, store |-> 1, click |-> 1, overtake |-> 1])}
\* The budgets of the runs that show a disagreement.
CrashLosesBudgets == {Allow([crash |-> 1])}
NotifyLostBudgets == {Allow([telegram |-> 1])}
ReopenedTwiceBudgets == {Allow([reopen |-> 2])}
LateDuplicateBudgets == {Allow([reopen |-> 1, timeout |-> 1])}
NoTtlBudgets == {Allow([recordTtl |-> 1, click |-> 1])}
=============================================================================
