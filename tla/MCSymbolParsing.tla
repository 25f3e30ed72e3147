-------------------------- MODULE MCSymbolParsing --------------------------
(***************************************************************************)
(* Two paths, one of them of no Lua file and missing on disk, and two      *)
(* saved projects: of both files, and of the Lua file.                     *)
(***************************************************************************)
EXTENDS SymbolParsing

CONSTANTS lua, txt

MCPaths == {lua, txt}
MCLuaPaths == {lua}
MCDisks == {(lua :> 1) @@ (txt :> 0)}
MCProjects == {<<txt, lua>>, <<lua>>}
=============================================================================
