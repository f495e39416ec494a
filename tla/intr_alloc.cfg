CONSTANTS
  h1 = h1
  h2 = h2
  Handles = {h1, h2}
  NONE = NONE
  Ints = {2, 7, 12, 28}
  Sources = {1, 2}
  Requests <- MCRequests
  Markable <- MCMarkable
SPECIFICATION Spec
VIEW MCView
SYMMETRY Symmetry
INVARIANTS
  HandlersReached
  OnlyLiveHandlersRun
  NoFlashHandlerInWindow
  ListInOrder
  FlagsTellUse
