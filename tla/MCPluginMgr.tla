---------------------------- MODULE MCPluginMgr ----------------------------
(* Two plugins, one type and one value: a subscribes to the type and to the *)
(* pair, b to the type, and the extension of b to the pair.                  *)
EXTENDS PluginMgr, TLC

CONSTANTS a, b, t, v

MCWants == (a :> {t, <<t, v>>}) @@ (b :> {t})
MCExt == (a :> {}) @@ (b :> {<<t, v>>})

(* The least that puts both plugins into one task.                           *)
ReachWants == [p \in Plugins |-> {t}]
ReachExt == [p \in Plugins |-> {}]
=============================================================================
