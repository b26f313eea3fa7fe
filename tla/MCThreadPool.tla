--------------------------- MODULE MCThreadPool ---------------------------
\* Instances of ThreadPool for TLC.
EXTENDS ThreadPool

\* With three threads: one iteration, one for each of two threads, more
\* iterations than threads, and one with a step that divides its range.
SomeLoops == {[start |-> 0, end |-> 1, step |-> 1], [start |-> 0, end |-> 2, step |-> 1],
              [start |-> 0, end |-> 4, step |-> 1], [start |-> 2, end |-> 8, step |-> 2]}

OneLoop == {[start |-> 0, end |-> 2, step |-> 1]}
=============================================================================
