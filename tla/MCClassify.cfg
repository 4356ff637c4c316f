\* Statements near every rule, alone and in pairs, against the embedded
\* ruleset and edited ones.
CONSTANTS
  Texts <- EveryText
  Rulesets <- Edited
  CacheMin = 4
  MaxInteger = 9
SPECIFICATION Spec
INVARIANTS MatchedIsRefused RefusedWhereverAdded
  RefusalNamesOffender IsolationRespected CacheRespected
\* One text is classified.
CHECK_DEADLOCK FALSE
