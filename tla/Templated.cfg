\* Two services, eleven plugins, four of which are refused.
SPECIFICATION EngineFairSpec
CONSTANTS
  Calls <- MCCalls
  Plugins <- MCPlugins
  Mixes <- MCMixes
INVARIANTS
  WorkflowExact
  CallbackAttributed
PROPERTIES
  CallsReturn
