------------------------------ MODULE MCSales ------------------------------
(* Two baskets of one product, one checkout of each kind, two allocations, a *)
(* payment of 3 against orders of 1 to 4.                                    *)
EXTENDS Sales

MCPayments == {3}
MCId == (1..MaxRequests) \X (0..4)
MCParty == 1..MaxRequests
LOCAL T == INSTANCE TLC
TxSymmetry == T!Permutations(Tx)
=============================================================================
