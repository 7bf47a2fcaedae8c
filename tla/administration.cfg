CONSTANTS
  Users = {root, ann, bob}
  Default = root
  Requests = {q1, q2}
  None = None
SPECIFICATION Spec
INVARIANT AdministratorRemains
