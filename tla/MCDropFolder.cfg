SPECIFICATION FolderFairSpec
CONSTANTS
  t1 = t1
  t3 = t3
  t4 = t4
  NoText = NoText
  Texts = {t1, t3, t4}
  Reads <- What
  Lines <- Size
  Supervisors = {1, 2}
  Downloads = {11, 12, 13}
  Kinds = {"crash", "refuse", "again", "edit"}
  MaxFaults = 2
INVARIANTS
  TakenOnce
  
PROPERTIES
  Answered
CHECK_DEADLOCK FALSE
