------------------------- MODULE SeckillRefinement -------------------------
(* Seckill implements FlashSale: the Redis set holds the grants, the order  *)
(* table the bookings, and the stock column what is left of the quota.      *)
EXTENDS Seckill

BuyersOf(v) == {req[o].user : o \in BookedOrders(v)}
LeftOf(v) == IF pub[v] = "committed" THEN dbStock[v] ELSE Quota[v]

Sale == INSTANCE FlashSale WITH
            holders <- redisOrders,
            buyers <- [v \in Vouchers |-> BuyersOf(v)],
            left <- [v \in Vouchers |-> LeftOf(v)]

(* Every step of Redis, Kafka and MySQL is a grant, a booking or no change  *)
(* of the promise: quota and one-per-user are never exceeded on the way.    *)
ImplementsSale == Sale!Spec
=============================================================================
