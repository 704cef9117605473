SPECIFICATION Spec
CONSTANTS
  Version = {v1, v2}
  Thread = {t1, t2}
  None = None
  Torn = Torn
SYMMETRY Symmetry
INVARIANTS OneChampion PromotionHolds ModelsAreBacked HoldersGoOn
PROPERTY ImplementsCatalog
CHECK_DEADLOCK FALSE
