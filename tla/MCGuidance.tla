----------------------------- MODULE MCGuidance -----------------------------
(***************************************************************************)
(* Guidance on a small instance: short notes, long ones and one with a     *)
(* target; phases whose decisions fill their room or half of it.           *)
(***************************************************************************)
EXTENDS Guidance

Note(n, t) == [size |-> n, target |-> t]
MCKinds  == {Note(1, 0), Note(2, 0)}
AllKinds == MCKinds \cup {Note(1, 5), Note(1, 3)}

Plan(n, vs, a, s, u) == [notes |-> n, verbs |-> vs, actions |-> a, steps |-> s, upsets |-> u]
\* Many notes and no actions; two actions asked for together or one by one,
\* or two notes and one action.
MCPlans == {Plan(3, {}, 0, 2, 2), Plan(0, AllVerbs, 2, 1, 1),
            Plan(2, {"astray", "capture"}, 1, 1, 1)}
\* The two apart.
Apart   == {Plan(3, {}, 0, 2, 0), Plan(0, AllVerbs, 2, 2, 1)}
=============================================================================
