SPECIFICATION Spec
INVARIANTS ValuesUsable SourcesRanked NoChildLeft CanAuthenticate
CHECK_DEADLOCK FALSE
