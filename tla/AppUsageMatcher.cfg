SPECIFICATION RequestSpec
CONSTANTS
  App = {video, music}
  Background = {music}
  Threshold = 2
  MaxEvents = 4
  Gap = {0, 2}
  OptionSets <- SomeOptions
  Session = {0, 1, 2, 3}
  Time = {0, 1, 2, 3, 4}
  Nil = Nil
  Package = {video, music}
  Rules <- SomeRules
  Silence = 1
  LockTimeout = 3
  Seen <- SomeRows
  LogLength = 5
  Pause = {1, 2}
INVARIANTS
  LayersExact
  EndsAreDefined
PROPERTIES
  EveryWalkEnds
  ImplementsReference
CHECK_DEADLOCK FALSE
