CONSTANTS
  Posts = {p1, p2, p3}
  Uids = {u1, u2}
  NoUid = NoUid
SYMMETRY Symmetric
SPECIFICATION Spec
INVARIANTS TypeOK PassMeansKept NoFalseAlarm WrittenMeansRegistered
