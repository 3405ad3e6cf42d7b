--------------------------- MODULE MCPluginHooks ----------------------------
(***************************************************************************)
(* Small instances of PluginHooks: a pool of one runtime per plugin and two*)
(* hook slots make calls wait for each other.                              *)
(***************************************************************************)
EXTENDS PluginHooks

CONSTANTS d1, n1, n2   \* calls

TwoPlugins == <<"policy", "audit">>
=============================================================================
