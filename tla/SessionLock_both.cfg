SPECIFICATION LockSpec
CONSTANTS
  c1 = c1
  c2 = c2
  c3 = c3
  i1 = i1
  i2 = i2
  i3 = i3
  None = None
  Copies = {c1, c2, c3}
  Inodes = {i1, i2, i3}
  Modes = {"flock", "file"}
INVARIANTS FileExcludes FlockIffUsing
