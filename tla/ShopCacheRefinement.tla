------------------------ MODULE ShopCacheRefinement ------------------------
(* ShopCache implements CachedRow: Redis is the shared cache, Caffeine the  *)
(* local ones, and a call of queryByID the reader.                          *)
EXTENDS ShopCache

Seen == [r \in Requests |-> req[r].val]
Final == {r \in Requests : req[r].pc = "done"}

Row == INSTANCE CachedRow WITH
           Readers <- Requests, Nodes <- Servers, Nothing <- NoKey,
           row <- db, shared <- l2, local <- l1, seen <- Seen, final <- Final

(* Locks that are lost, rebuilds that break off, rollbacks and compensation *)
(* put nothing into a cache that no reader took from the committed row, no  *)
(* L1 hides a shop saved later, and no answer is taken back.                *)
ImplementsCachedRow == Row!Spec
=============================================================================
