---------------------------- MODULE MCRegistration ----------------------------
(* One phone that registers, two requests at a time; or a company or two are   *)
(* there already and a third person to invite: one invitation or removal       *)
(* beside a registration or a login, or two of them at once.                   *)
EXTENDS Team

CONSTANTS p1, q1, q2

MCInputs == {[name |-> "n", email |-> ""], [name |-> "m", email |-> "e"]}
MCFounded == {[owners |-> <<>>,       issued |-> 0, teamwork |-> 2],
              [owners |-> <<q1>>,     issued |-> 1, teamwork |-> 1],
              [owners |-> <<p1, q1>>, issued |-> 1, teamwork |-> 1],
              [owners |-> <<p1, q1>>, issued |-> 2, teamwork |-> 0]}
LOCAL T == INSTANCE TLC
CallSymmetry == T!Permutations(Call)
=============================================================================
