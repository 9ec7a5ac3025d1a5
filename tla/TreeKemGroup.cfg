SPECIFICATION Spec
CONSTANT Scenarios <- MCScenarios
INVARIANTS TypeOK EveryoneFollows SecretsMatchTree ParentsHaveTwoSides RemovedMembersLockedOut
VIEW MCView
