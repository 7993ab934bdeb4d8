SPECIFICATION Spec
CONSTANTS
  s1 = s1
  s2 = s2
  s3 = s3
  Names = {"v1", "v2"}
  Schemas = {s1, s2, s3}
  BreakingEdit <- MCBreakingEdit
  Unbuildable = {s3}
  NoSchema = NoSchema
  Absent = Absent
INVARIANTS TypeOK BlockedForReason Reapplicable VisitedIsSafe
PROPERTIES SafeUpgrade
