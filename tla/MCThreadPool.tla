---------------------------- MODULE MCThreadPool ----------------------------
(***************************************************************************)
(* Instances of ThreadPool for TLC.                                        *)
(***************************************************************************)
EXTENDS ThreadPool

CONSTANTS w1, w2, l1, r1, r2

\* One loop owns every request.
OneLoop == [r \in Reqs |-> l1]

\* The program that the liveness properties are checked for: its pool has both
\* workers, and r1 is the request it may cancel.  Only choices of the program are
\* left out, for which no fairness is assumed.
Program == /\ threads' \in {{}, Workers}
           /\ pc'[l1] = "cancel" => cur'[l1] = r1

LiveSpec == Init /\ [][Next /\ Program]_vars /\ Fairness
=============================================================================
