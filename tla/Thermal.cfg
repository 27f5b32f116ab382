SPECIFICATION ReadingSpec
INVARIANTS NoRestartAfterHeat NoUnwatchedEngine
PROPERTIES HotEngineStopped
