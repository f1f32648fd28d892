SPECIFICATION FairSpec
CONSTANTS
  w1 = w1  w2 = w2  m1 = m1  m2 = m2  noModel = noModel
  Callers = {w1, w2}
  Models = {m1, m2}
  NoModel = noModel
  Answers = {"CREATE_RECOVERY_LINK", "NO_ACTION"}
  Snapshots <- Reports
  Freshness = 0
  Configurations <- OpenOrAbsent
  MaxReconciliations = 2
INVARIANTS TypeOK OneProposalInForce OneProposalPerAssessment ProposalsAreSound
           EligibilityIsExact PolicyIsConservative PolicyFailsClosed HarnessAgrees
           HarnessReports
PROPERTIES KeepsTheBook AnswersFitTheCase LapsedAuthorityIsFinal RulesNeedNoModel
CHECK_DEADLOCK FALSE
