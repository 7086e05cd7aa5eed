CONSTANTS
  source_view_ = source_view_
  stack_view_window_ = stack_view_window_
  watch_ = watch_
  locals_view_window_ = locals_view_window_
  breakpoints_ = breakpoints_
  output_window_ = output_window_
  log_window_ = log_window_
  Leaf = {source_view_, stack_view_window_, watch_, locals_view_window_,
          breakpoints_, output_window_, log_window_}
  NULL = NULL
  Buttons = {0, 1}
  Fractions = {300}
  small = small
  large = large
  Sizes = {large}
  Landscapes = {FALSE}
  MaxContainers = 6
  MaxGestures = 2
SPECIFICATION Spec
INVARIANT CancelFindsSibling
CHECK_DEADLOCK FALSE
