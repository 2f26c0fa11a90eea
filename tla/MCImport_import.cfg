SPECIFICATION Spec
CONSTANTS
  None = None
  Keys = {"K1", "K2"}
  MaxEntries = 3
  Environments = {e1, e2}
  Texts <- MCTexts
  Values <- MCValues
  Groups <- MCGroups
  EditedKeys = {"K1"}
  Tokens = {t1}
  Workers = {w1, w2}
  Editors = {w2}
  MaxWrites = 1
  MaxVersion = 2
  MaxRequests = 1
SYMMETRY Symmetry
INVARIANTS TypeOK RecordedOnce ExportReimports
PROPERTIES ImportsAgree SharedEditCurrent 
