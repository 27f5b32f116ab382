SPECIFICATION Spec
CONSTANT Identities <- AllGuards
INVARIANTS FilesAgree PassHasEvidence RunsPinnedEngine HonestRunPasses
           AnswersOwnClient ClientOutlastsMinimum
CHECK_DEADLOCK TRUE
