----------------------------- MODULE MCHomeCache -----------------------------
(* Small instances of HomeCache.                                             *)
EXTENDS HomeCache

MCSections == <<"hot_pets", "latest_posts", "orgs">>
=============================================================================
