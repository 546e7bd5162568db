SPECIFICATION Spec
CONSTANT Journeys <- MCJourneys
INVARIANTS Antichain BestKept RefusedBeforeRemoval
