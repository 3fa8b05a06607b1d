---------------------------- MODULE MCRateLimit ----------------------------
EXTENDS RateLimit, TLC

CONSTANTS SeckillPermits, CodePermits

(* The two annotated methods: VoucherOrderController.seckillVoucher and     *)
(* UserController.sendCode.                                                 *)
MCEndpoints == {"seckillVoucher", "sendCode"}
MCKeyType == [e \in MCEndpoints |-> IF e = "seckillVoucher" THEN "USER" ELSE "IP"]
MCPermits == [e \in MCEndpoints |->
                 IF e = "seckillVoucher" THEN SeckillPermits ELSE CodePermits]
MCLoginRequired == {"seckillVoucher"}
Symmetry == Permutations(Requests)
=============================================================================
