CONSTANTS
  Cards <- MCCards
  Indexes = {162, 163, 185, 435, 600}
  Values = {0, 2, 256}
SPECIFICATION Spec
INVARIANT ShownIsCards
INVARIANT SwitchesAsAsked
INVARIANT TimingFits
