SPECIFICATION FairSpec
CONSTANTS
  tool = tool
  lib = lib
  app = app
  Top = Top
  Pkgs <- MCPkgs
  Deps <- MCDeps
  NPatches <- MCPatches
  World <- MCWorld
  FsDeps <- MCFsDeps
  Commands <- MCCommands
  Override = {app}
  Host = {tool}
  InstStaging = {lib}
  InstTarget = {lib, app}
  InstImages = {}
  CleanInterrupt = FALSE
  MaxVer = 2
  MaxAborts = 1
  MaxCleans = 1
INVARIANTS StampIntegrity StampsCoherent DepsReady
PROPERTIES ImageComplete RebuildPublishes  
