------------------------------- MODULE MCSkwSta -------------------------------
\* The instance: the timeout of a scan (8 s) is longer than that of a weak signal (4 ms).
EXTENDS SkwSta
MCIds == Reqs \cup {Cqm}
MCDelay == [id \in MCIds |-> IF id = Cqm THEN 1 ELSE 2]
===============================================================================
