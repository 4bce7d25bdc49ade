----------------------------- MODULE MCCalendar -----------------------------
(* Two nights around midnight: picks off the quarter hour, picks that      *)
(* touch, overlap and nest, evenings that run past midnight, alternates    *)
(* beside, before and after a pick of their hour.                          *)
EXTENDS Calendar

It(i, d, s, len, pick, p) ==
  [id |-> i, date |-> d, start |-> s, end |-> s + len, plan |-> pick, provider |-> p]

Week(of) == [first |-> 1, last |-> 2, items |-> of]

SmallGuides == {
  \* a long one over two short ones that touch, and one apart
  Week(<<It(1, 1, 1200, 100, TRUE, 1), It(2, 1, 1215, 30, TRUE, 1),
         It(3, 1, 1245, 40, TRUE, 2), It(4, 1, 1300, 25, TRUE, 2)>>),
  \* past midnight, with alternates; and one too short for its card before it
  Week(<<It(5, 1, 1395, 107, TRUE, 1), It(6, 1, 1395, 50, FALSE, 2),
         It(7, 1, 1380, 50, FALSE, 1), It(8, 2, 1080, 60, TRUE, 2),
         It(9, 1, 1380, 15, TRUE, 2)>>),
  \* two picks of a provider in an hour, and alternates of their minutes
  Week(<<It(9, 2, 1230, 20, TRUE, 1), It(1, 2, 1212, 18, TRUE, 1),
         It(2, 2, 1230, 20, FALSE, 2), It(3, 2, 1215, 20, FALSE, 3)>>),
  \* a night off
  Week(<<It(4, 2, 1290, 30, FALSE, 1)>>)}

SmallOffsets == {-150, 14, 400}
=============================================================================
