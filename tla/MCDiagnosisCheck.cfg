\* One diagnosis may leave a new file behind; another may find it.
CONSTANTS
  Jobs = {j1, j2}
  Earlier = {}
  MaxCommits = 1
  Writes = {"untracked"}
  NoJob = NoJob
SPECIFICATION Safety
SYMMETRY Symmetry
INVARIANT ChangesAreNoticed
