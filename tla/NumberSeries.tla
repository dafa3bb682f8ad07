---------------------------- MODULE NumberSeries ----------------------------
(***************************************************************************)
(* What a numbered document promises: within a year the numbers 1, 2, 3,   *)
(* ... are given out one after the other, each once and none left out.     *)
(* NumberCounters implements it for shipments, vehicles and invoices.      *)
(***************************************************************************)
EXTENDS Naturals, FiniteSets

CONSTANTS Series, Years

VARIABLE issued  \* [Series -> [Years -> the numbers given out]]

Init == issued = [s \in Series |-> [y \in Years |-> {}]]

Issue(s, y) ==
    issued' = [issued EXCEPT ![s][y] = @ \cup {Cardinality(@) + 1}]

Next == \E s \in Series, y \in Years : Issue(s, y)

Spec == Init /\ [][Next]_issued

=============================================================================
