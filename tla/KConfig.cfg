SPECIFICATION FairSpec
CONSTANTS
  ModulesSym = "MODULES"
  TypeOf <- MCTypeOf
  NumOf <- MCNumOf
  Trees <- MCTrees
  Exprs <- MCExprs
  FirstFiles <- MCFirstFiles
  Tools <- MCTools
  Rules <- MCRules
  Outcomes = {"ok", "noopen", "between"}
  MaxRuns = 2
  MaxEdits = 2
INVARIANTS OneChoice SetHolds RulesKept AllAsked
PROPERTY WrittenIsRead
PROPERTY MinimalIsEnough DialogueEnds
