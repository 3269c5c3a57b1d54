SPECIFICATION Spec
CONSTANTS
  Txns = {a, b}
  None = None
  Jobs <- SignInJobs
  MaxWrong = 2
  CodeTtl = 2
  ResendAfter = 1
  BindAge = 1
  MaxAge = 2
SYMMETRY Browsers
CHECK_DEADLOCK FALSE
INVARIANTS CompletionProved ForcedUpdateKept EnrolledHasCodes CodeGuessesBounded
PROPERTY CredentialChangeProved
