CONSTANTS
  source_view_ = source_view_
  stack_view_window_ = stack_view_window_
  watch_ = watch_
  locals_view_window_ = locals_view_window_
  breakpoints_ = breakpoints_
  output_window_ = output_window_
  log_window_ = log_window_
  Leaf = {source_view_, stack_view_window_, watch_, locals_view_window_,
          breakpoints_, output_window_, log_window_}
  NULL = NULL
  Buttons = {0}
  Fractions = {300}
  small = small
  large = large
  Sizes = {small, large}
  Landscapes = {TRUE, FALSE}
  MaxContainers = 6
  MaxGestures = 2
SPECIFICATION Spec
SYMMETRY Symmetry
INVARIANTS
  TypeOK
  TreeLinked
  NoWindowLost
  NoContainerLeaked
  RectsCurrent
  HoverLeavesNoTrace
  HoverMovesTargetOnly
  RememberedInTree
  NeverStopped
PROPERTIES
  CancelRestores
