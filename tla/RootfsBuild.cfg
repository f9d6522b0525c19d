SPECIFICATION FairSpec
CONSTANT MaxBuilds = 3
INVARIANTS OkPublishesPair PairMatches FailurePreservesFinal SwapKeepsNew CancelKeepsAPair
PROPERTIES CommandsEnd ImplementsSlot
