---------------------------- MODULE ScrollHelper ----------------------------
(***************************************************************************)
(* ScrollHelper (ui/scroll_helper.cc): the offset of a scrolled view moves *)
(* towards a target by a fifth of the way at every Update, and after it    *)
(* has arrived the indicators fade out.  Every picture calls Update, and   *)
(* its result says whether another picture is needed.                      *)
(***************************************************************************)
EXTENDS Integers

CONSTANTS
  LineHeight,    \* num_pixels_in_line_, Skin::text_line_height()
  ScreenHeight,  \* data_provider_->GetScreenRect().h
  FadeTicks      \* kFadeOutAfterTicks + kFadeOutOverTicks

ASSUME SizesAssumption == {LineHeight, ScreenHeight, FadeTicks} \subseteq Nat \ {0}

\* y_pixel_scroll_, y_pixel_scroll_target_, ticks_since_stopped_moving_.
NewScroll == [offset |-> 0, target |-> 0, ticks |-> FadeTicks]

\* int += float: the sum is truncated towards zero.  The product with 0.2f is
\* exact wherever the difference is a multiple of five.
Truncated(n, d) == IF n >= 0 THEN n \div d ELSE -((-n) \div d)
Nearer(s) == Truncated(4 * s.offset + s.target, 5)

Update(s) ==
  IF Nearer(s) = s.offset
  THEN [s EXCEPT !.offset = s.target, !.ticks = @ + 1]
  ELSE [s EXCEPT !.offset = Nearer(s), !.ticks = 0]
NeedsMore(updated) == updated.ticks < FadeTicks     \* what Update returns

Lesser(a, b) == IF a <= b THEN a ELSE b
Greater(a, b) == IF a <= b THEN b ELSE a

\* Mutation: no lower bound.
ClampAboveOnly(s, content) == [s EXCEPT !.target = Lesser(content - LineHeight, @), !.ticks = 0]
\* Without content the target is one line above the top.
ClampScrollTarget(s, content) ==
  [s EXCEPT !.target = Lesser(content - LineHeight, Greater(0, @)), !.ticks = 0]

ScrollPixels(s, delta, content) == ClampScrollTarget([s EXCEPT !.target = @ + delta], content)
ScrollLines(s, delta, content) == ScrollPixels(s, delta * LineHeight, content)
ScrollPages(s, delta, content) == ScrollPixels(s, delta * ScreenHeight - LineHeight, content)
ScrollToBeginning(s, content) == ClampScrollTarget([s EXCEPT !.target = 0], content)
ScrollToEnd(s, content) == ClampScrollTarget([s EXCEPT !.target = content - LineHeight], content)

Keys == {"kDown", "kUp", "kPageUp", "kPageDown", "kHome", "kEnd"}
CommonNotifyKey(s, key, content) ==
  CASE key = "kDown" -> ScrollLines(s, 1, content)
    [] key = "kUp" -> ScrollLines(s, -1, content)
    [] key = "kPageUp" -> ScrollPages(s, -1, content)      \* and S-space
    [] key = "kPageDown" -> ScrollPages(s, 1, content)     \* and space
    [] key = "kHome" -> ScrollToBeginning(s, content)
    [] key = "kEnd" -> ScrollToEnd(s, content)
CommonMouseWheel(s, delta, content) == ScrollPixels(s, Truncated(-delta, 2), content)

---------------------------------------------------------------------------
(***************************************************************************)
(* What SourceView and ScrollingOutputView make of the offset.             *)
(***************************************************************************)
ContentSize(lines) == LineHeight * lines
FirstLineInView(s) == Truncated(s.offset, LineHeight)
LineInView(s, line) ==
  /\ line >= FirstLineInView(s)
  /\ (line - FirstLineInView(s)) * LineHeight <= ScreenHeight + LineHeight
\* The lines of 0 .. n - 1 that are drawn: the loop starts at the first line,
\* as an unsigned number.
LinesDrawn(s, n) ==
  {i \in 0 .. n - 1 : FirstLineInView(s) >= 0 /\ LineInView(s, i)}
=============================================================================
