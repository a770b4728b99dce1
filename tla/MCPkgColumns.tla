---------------------------- MODULE MCPkgColumns ----------------------------
(* Small instances of the client's package columns for TLC: two packages of *)
(* one handle, in lists that overlap or in one list.                        *)
EXTENDS PkgColumns

CONSTANTS a, b

OneHandle == a :> 1 @@ b :> 1
Overlapping == {<<a>>, <<a, b>>}
OneList == {<<a, b>>}
=============================================================================
