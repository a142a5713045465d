----------------------------- MODULE MCPkgBuild -----------------------------
(* Instances of PkgBuild for TLC: a host tool, a patched library and an    *)
(* application under development in an override directory.                 *)
EXTENDS PkgBuild

CONSTANTS tool, lib, app

MCPkgs == {tool, lib, app}
MCDeps == [p \in MCPkgs |-> IF p = app THEN <<tool, lib>>
                            ELSE IF p = lib THEN <<tool>> ELSE <<>>]
MCPatches == [p \in MCPkgs |-> IF p = lib THEN 2 ELSE 0]
MCCommands == {All, << <<app, "pkg">> >>}
MCWorld == <<lib, app>>
MCFsDeps == <<tool>>
=============================================================================
