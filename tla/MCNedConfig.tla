---------------------------- MODULE MCNedConfig ----------------------------
(* Instance of NedConfig: one library of each kind, a table with a name too long. *)
EXTENDS NedConfig

MCPrio == [l \in Libs |-> IF l \in {"factory", "ns"} THEN 0 ELSE 1]
MCOrder == <<"rom", "long", "a">>
MCModes == {{}, {"w", "n"}}
=============================================================================
