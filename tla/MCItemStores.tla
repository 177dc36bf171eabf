---------------------------- MODULE MCItemStores ----------------------------
EXTENDS ItemStores
=============================================================================
