--------------------------- MODULE MCSubscription ---------------------------
(* Two charges, two requests at a time, two attempts: an answer is lost, a    *)
(* delivery is repeated, an action is counted in a subscription that runs,    *)
(* the clock passes the end of the trial.                                     *)
EXTENDS Subscription

\* A trial that ends, with and without a tier, a subscription that ends, and
\* one of an early tester.
MCStart ==
    {[status |-> "trial",  trialEnd |-> 1, paidUntil |-> 0, tier |-> FALSE, tracked |-> 1],
     [status |-> "trial",  trialEnd |-> 1, paidUntil |-> 0, tier |-> TRUE,  tracked |-> 1],
     [status |-> "active", trialEnd |-> 0, paidUntil |-> 1, tier |-> TRUE,  tracked |-> 0],
     [status |-> "active", trialEnd |-> 0, paidUntil |-> 0, tier |-> TRUE,  tracked |-> 1]}

LOCAL T == INSTANCE TLC
CallSymmetry == T!Permutations(Call)
=============================================================================
