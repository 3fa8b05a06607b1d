----------------------------- MODULE MCSeckill -----------------------------
(* Small instances of Seckill for TLC. *)
EXTENDS SeckillRefinement, TLC

CONSTANTS OneEach   \* stock of every voucher

MCQuota == [v \in Vouchers |-> OneEach]

Symmetry == Permutations(Users) \cup Permutations(Vouchers)
            \cup Permutations(Orders) \cup Permutations(Partitions)
            \cup Permutations(Workers)
=============================================================================
