------------------------------ MODULE MCLogPage ------------------------------
(* A bounded instance of LogPage for TLC: the first two entries look the same, *)
(* the third has their text a second later, the fourth is of another level.    *)
EXTENDS LogPage

CONSTANTS info, error, a, b

MCFilter == {Everything, error}
MCLevel == [e \in Entry |-> IF e = 4 THEN info ELSE IF e = Pod THEN info ELSE error]
MCText == [e \in Entry |-> IF e = 4 THEN b ELSE a]
MCSecond == [e \in Entry |-> IF e <= 2 THEN 1 ELSE 2]
=============================================================================
