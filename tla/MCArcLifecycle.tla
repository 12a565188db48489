--------------------------- MODULE MCArcLifecycle ---------------------------
EXTENDS ArcLifecycle, Sequences, TLC

Arc(p, o) == [parent |-> p, step_order |-> o]

OneStep == <<Arc(0, 0), Arc(1, 0)>>
Nested  == <<Arc(0, 0), Arc(1, 0), Arc(2, 0)>>

ThreadSymmetry == Permutations(Threads)

None == {}

=============================================================================
