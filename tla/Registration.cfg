SPECIFICATION RegistrationSpec
CONSTANTS
  Call = {c1, c2}
  Token = {t1, t2, t3}
  MaxForms = 2
SYMMETRY Symmetry
INVARIANTS
  RoleComesWithProfile
  NobodyRegistersAsAdmin
  CustomersAreAdmittedAsApproved
CHECK_DEADLOCK FALSE
