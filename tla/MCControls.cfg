SPECIFICATION FairSpec
CONSTANTS
  Bindings <- MCBindings
  Patience = 1
  Modifier = "l1"
  LayerButtons <- MCLayerButtons
  Layers <- MCLayers
  ReportOrder <- MCReportOrder
  StickIds <- MCStickIds
  RepeatableActions = {"think"}
  Guard = 1
  FlickWindow = 1
  AgentKeys = {"agent.1"}
  Repeatable = {"dial.cw"}
  Typed = {"t"}
  Tilts <- MCTilts
  Window = 3
  Budgets <- MCBudgets
  None = None
INVARIANTS DecodedInOrder FreshPresses
PROPERTIES InputSettles
CHECK_DEADLOCK FALSE
