---------------------------- MODULE MCShopCache ----------------------------
EXTENDS ShopCacheRefinement
=============================================================================
