---------------------------- MODULE MCOrderFlow ----------------------------
(***************************************************************************)
(* OrderFlow with the values TLC needs.  The workers are interchangeable:  *)
(* the safety runs with several of them use their symmetry.                *)
(***************************************************************************)
EXTENDS OrderFlow, TLC

CONSTANTS o1, s1, s2, w1, w2

OneOrder    == {o1}
OneSession  == {s1}
TwoSessions == {s1, s2}
OneWorker   == {w1}
TwoWorkers  == {w1, w2}
NoStatus    == {}
FirstOnly   == {s1}
Making      == {"in_production", "cancelled"}

WorkersAreAlike == Permutations(Workers)
=============================================================================
