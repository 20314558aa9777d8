SPECIFICATION Spec
CONSTANTS
  None = None
  Repositories = {repo, fork}
  Branches = {main, topic}
  Upstreams = {u1, u2}
  Commits <- MCCommits
  Parent <- MCParent
  base = base
  new1 = new1
  new2 = new2
  other1 = other1
  other2 = other2
  ExpectedRepository = repo
  ExpectedBranch = main
  ExpectedBaseSha = base
  MaxCommits = 1
  MaxChanges = 5
CHECK_DEADLOCK FALSE
INVARIANTS
  TypeOK
  PipelineAgrees
  FailureHidesNothing
  
