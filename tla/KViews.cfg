SPECIFICATION FairScreens
CONSTANTS
  ModulesSym = "MODULES"
  TypeOf <- MCTypeOf
  NumOf <- MCNumOf
  Trees <- MCTrees
  Exprs <- MCExprs
  Tools <- MCTools
  Loadable <- MCLoadable
  MaxEdits = 2
  MaxDepth = 3
  Kinds = {"menu", "check", "input", "text", "items", "line", "window", "buttons"}
  Lengths = {0, 1, 3, 6}
  Heights = {1, 2, 4}
  Items = {1, 3}
  MaxPattern = 2
  Letters = {"a", "b"}
  Width = 3
  MaxText = 4
  Texts <- MCTexts
INVARIANTS Offered  RowsComplete BoxShows
PROPERTIES PageKept SearchFinds
CHECK_DEADLOCK FALSE
