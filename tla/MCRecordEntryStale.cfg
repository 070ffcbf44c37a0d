SPECIFICATION Spec
CONSTANTS
  Path <- MCPath
  Content <- MCContent
  Absent = Absent
  IndexPath = "bundle.json"
  IndexOf <- MCIndexOf
  StatementOf <- MCStatementOf
  Subjects <- MCSubjects
  CommittedIn <- MCCommittedIn
  Trusted = {1}
  Asked <- MCAsked
  StartDisks <- MCStartDisks
  MaxEdits = 3
INVARIANT MemberIsVerified
