SPECIFICATION FairScreens
CONSTANTS
  ModulesSym = "MODULES"
  TypeOf <- MCTypeOf
  NumOf <- MCNumOf
  Trees <- MCTrees
  Exprs <- MCExprs
  Tools <- NoTools
  Loadable <- MCLoadable
  MaxEdits = 2
  MaxDepth = 3
  Kinds = {"items"}
  Lengths = {1}
  Heights = {2}
  Items = {3}
  MaxPattern = 2
  Letters = {"a"}
  Width = 3
  MaxText = 2
  Texts <- MCTexts
PROPERTIES SearchEnds
CHECK_DEADLOCK FALSE
