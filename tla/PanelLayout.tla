------------------------------ MODULE PanelLayout ------------------------------
(***************************************************************************)
(* Where things are on a panel (client/layout.py): the grid of tiles, the  *)
(* status line with its refresh button and the overlay with the brightness *)
(* buttons, in pixels; and what lies under a finger, which the touch       *)
(* controller reports in the frame of the unrotated panel.                 *)
(*                                                                         *)
(* A size is a pair <<width, height>>, a position a pair <<x, y>>. The     *)
(* reports are a function of the providers that report, to the number of   *)
(* percentages each has: of its session, of its week and of scoped limits. *)
(* What is drawn inside a tile is left out.                                *)
(***************************************************************************)
EXTENDS Rounding, Sequences, SequencesExt

CONSTANTS
  TitleHeight,  \* TitleHeight[size]: the line height of the font of the titles
  Rotation,     \* GUI_TOUCH_ROTATE, in degrees
  NoTile

ASSUME RotationAssumption == Rotation \in {0, 90, 180, 270}

MinTouchTarget == 44
MinPairedTileWidth == 150
UltraCompactMaxEdge == 320
NarrowOverlayPad == 8

\* The providers that get a tile, in order. The work account shares Claude's.
ProviderOrder == <<"claude", "codex", "antigravity", "zai", "ollama">>
PairedRows == {<<"codex", "antigravity">>, <<"zai", "ollama">>}
WeeklyOnlyRows == {<<"codex", "antigravity">>}

Rect(x, y, w, h) == [x |-> x, y |-> y, w |-> w, h |-> h]
Covers(r, pos) ==
  r.x <= pos[1] /\ pos[1] < r.x + r.w /\ r.y <= pos[2] /\ pos[2] < r.y + r.h

Edge(size) == Min({size[1], size[2]})

\* UpTo(f)[i]: the sum of the first i members of f.
UpTo(f) ==
  LET sum[i \in 0..Len(f)] == IF i = 0 THEN 0 ELSE sum[i - 1] + f[i]
  IN  sum

-----------------------------------------------------------------------------
(* The grid *)

Margin(size) == Max({4, Round(size[1] * 2, 100)})
StatusHeight(size) == Max({MinTouchTarget, Round(size[2] * 85, 1000)})

EstimatedTitle(size) ==
  LET unit == Max({24, Edge(size) \div 15})
  IN  Max({24, (Max({32, (unit * 5) \div 4}) * 3) \div 4})
TileOverhead(size) ==
  LET pad == Max({8, Edge(size) \div 40}) IN pad + TitleHeight[size] + pad \div 2 + pad

TilePlan(reports) ==
  LET shows(p) == p \in DOMAIN reports \/ (p = "claude" /\ "claude_work" \in DOMAIN reports)
      plan[i \in 0..Len(ProviderOrder)] ==
        IF i = 0 THEN <<>>
        ELSE IF shows(ProviderOrder[i]) THEN Append(plan[i - 1], ProviderOrder[i]) ELSE plan[i - 1]
  IN  plan[Len(ProviderOrder)]

IsUltraCompact(size) == size[1] <= UltraCompactMaxEdge /\ size[2] <= UltraCompactMaxEdge
UltraCompactColumns(size, count) ==
  IF size[2] > size[1] THEN IF count <= 4 THEN 2 ELSE 3 ELSE 4

CanPair(size) == (size[1] - 3 * Margin(size)) \div 2 >= MinPairedTileWidth

\* Whether the next tile goes into a row: tiny screens fill their columns, the others
\* pair the neighbours that may be paired where half the width is enough.
Joins(size, count, row, p) ==
  IF IsUltraCompact(size) THEN Len(row) < UltraCompactColumns(size, count)
  ELSE CanPair(size) /\ Len(row) = 1 /\ <<Last(row), p>> \in PairedRows
Pack(size, count, rows, p) ==
  IF rows # <<>> /\ Joins(size, count, Last(rows), p)
  THEN Append(Front(rows), Append(Last(rows), p))
  ELSE Append(rows, <<p>>)
RowsPlan(size, plan) ==
  LET rows[k \in 0..Len(plan)] ==
        IF k = 0 THEN <<>> ELSE Pack(size, Len(plan), rows[k - 1], plan[k])
  IN  rows[Len(plan)]

\* A row of weekly bars keeps the session of a reading that has nothing else for it.
BarsFor(reading, weeklyOnly) ==
  reading.weekly + reading.scoped
  + IF weeklyOnly /\ reading.weekly > 0 THEN 0 ELSE reading.session
TileBars(reports, row, p) ==
  LET account(a) == IF a \in DOMAIN reports THEN BarsFor(reports[a], FALSE) ELSE 0
  IN  IF p = "claude" THEN account("claude") + account("claude_work")
      ELSE BarsFor(reports[p], Len(row) > 1 /\ <<row[1], row[2]>> \in WeeklyOnlyRows)

RowWeight(size, reports, row) ==
  IF IsUltraCompact(size) THEN 1 ELSE Max({1} \cup {TileBars(reports, row, p) : p \in Range(row)})

\* A slip of RowHeights: the titles are given no room of their own.
RowHeightsUntitled(size, weights) ==
  LET n == Len(weights)
      usable == size[2] - StatusHeight(size) - Margin(size) - Margin(size) * (n + 1)
      share == [i \in 1..n |-> (usable * weights[i]) \div UpTo(weights)[n]]
  IN  [i \in 1..n |-> TileOverhead(size) + IF i = n THEN usable - UpTo(share)[n - 1] ELSE share[i]]

\* Every bar is given the same height, and the last row what is left over.
RowHeights(size, weights) ==
  LET n == Len(weights)
      available == size[2] - StatusHeight(size) - Margin(size) - Margin(size) * (n + 1)
      usable == Max({0, available - TileOverhead(size) * n})
      share == [i \in 1..n |-> (usable * weights[i]) \div UpTo(weights)[n]]
  IN  [i \in 1..n |-> TileOverhead(size) + IF i = n THEN usable - UpTo(share)[n - 1] ELSE share[i]]

\* build_main_layout: the rectangle of every provider that has a tile.
Tiles(size, reports) ==
  LET plan == TilePlan(reports)
      rows == RowsPlan(size, plan)
      heights == RowHeights(size, [i \in 1..Len(rows) |-> RowWeight(size, reports, rows[i])])
      above == UpTo(heights)
      margin == Margin(size)
      cell(i, k) ==
        LET w == (size[1] - margin * (Len(rows[i]) + 1)) \div Len(rows[i])
        IN  Rect(margin + (k - 1) * (w + margin), margin * i + above[i - 1], w, heights[i])
      at(p) == CHOOSE i \in 1..Len(rows) : p \in Range(rows[i])
      place(p) == CHOOSE k \in 1..Len(rows[at(p)]) : rows[at(p)][k] = p
  IN  [p \in Range(plan) |-> cell(at(p), place(p))]

\* The most rows a screen of this size is ever given.
MostRows(size) ==
  IF IsUltraCompact(size) THEN 2
  ELSE IF CanPair(size) THEN 3 ELSE 5

\* A screen with room for what is drawn: not smaller than the smallest the layout is made
\* for, as wide as the refresh button needs, and as high as the titles of its rows need.
Roomy(size) ==
  /\ size \in Nat \X Nat /\ size[1] >= 240 /\ size[2] >= 240
  /\ StatusHeight(size) + 10 <= size[1]
  /\ TitleHeight[size] \in Nat /\ TitleHeight[size] >= 24
  /\ MostRows(size) * (TileOverhead(size) + Margin(size)) + 2 * Margin(size) + StatusHeight(size) <= size[2]

StatusRect(size) == Rect(0, size[2] - StatusHeight(size), size[1], StatusHeight(size))
RefreshRect(size) ==
  LET status == StatusRect(size)
      side == Min({Max({MinTouchTarget, status.h - 12}), status.h})
      inset == Min({10, Max({4, side \div 3})})
  IN  Rect(status.x + status.w - side - inset, status.y + (status.h - side) \div 2, side, side)

HitTest(tiles, pos) ==
  LET hit(p) == p \in DOMAIN tiles /\ Covers(tiles[p], pos)
      hits == SelectSeq(ProviderOrder, hit)
  IN  IF hits = <<>> THEN NoTile ELSE Head(hits)

-----------------------------------------------------------------------------
(* The overlay *)

\* Two broad buttons below the readout, or one above the other when even these would
\* be too narrow; otherwise three columns.
SideBySide(r, pad, top) ==
  LET h == Max({MinTouchTarget, r.h \div 3})
      level == Max({1, r.h - (top - r.y) - 2 * pad - h})
      w == (r.w - 3 * pad) \div 2
  IN  [level |-> Rect(r.x + pad, top, Max({1, r.w - 2 * pad}), level),
       minus |-> Rect(r.x + pad, top + level + pad, w, h),
       plus |-> Rect(r.x + r.w - pad - w, top + level + pad, w, h)]
Stacked(r, pad, top) ==
  LET usable == Max({1, r.h - (top - r.y) - 3 * pad})
      h == Max({1, Min({MinTouchTarget, usable \div 2})})
      level == Max({1, usable - 2 * h})
      w == Max({1, r.w - 2 * pad})
  IN  [level |-> Rect(r.x + pad, top, w, level),
       minus |-> Rect(r.x + pad, top + level + pad, w, h),
       plus |-> Rect(r.x + pad, top + level + pad + h + pad, w, h)]
InColumns(r, pad, top) ==
  LET h == r.h - (top - r.y) - pad
      w == (r.w - 2 * pad) \div 3
  IN  [level |-> Rect(r.x + pad + w, top, r.w - 2 * pad - 2 * w, h),
       minus |-> Rect(r.x + pad, top, w, h),
       plus |-> Rect(r.x + r.w - pad - w, top, w, h)]
BrightnessOverlay(region) ==
  LET pad == IF region.w < 160 THEN NarrowOverlayPad
             ELSE Max({NarrowOverlayPad, Min({region.w, region.h}) \div 12})
      top == region.y + Max({26, region.h \div 5})
  IN  IF (region.w - 2 * pad) \div 3 >= MinTouchTarget THEN InColumns(region, pad, top)
      ELSE IF region.w >= 2 * MinTouchTarget + 3 * pad THEN SideBySide(region, pad, top)
      ELSE Stacked(region, pad, top)

StatusOverlay(size) ==
  LET w == Min({size[1], Max({(size[1] * 82) \div 100, 240})})
      h == (size[2] * 6) \div 10
      panel == Rect((size[1] - w) \div 2, (size[2] - h) \div 2, w, h)
      pad == Max({8, Edge(size) \div 30})
      inner == Rect(panel.x + pad, panel.y + pad, w - 2 * pad, h - 2 * pad)
      right == Min({Max({2 * MinTouchTarget + 3 * NarrowOverlayPad, (inner.w * 44) \div 100}),
                    Max({1, inner.w - pad - 1})})
      left == Max({1, inner.w - pad - right})
      footer == Min({Max({18, Edge(size) \div 24}), Max({0, inner.h - 1})})
      content == Max({1, inner.h - footer})
      region == Rect(inner.x + left + pad, inner.y, inner.w - left - pad, content)
      buttons == BrightnessOverlay(region)
  IN  [panel |-> panel, diag |-> Rect(inner.x, inner.y, left, content),
       level |-> buttons.level, minus |-> buttons.minus, plus |-> buttons.plus]

-----------------------------------------------------------------------------
(* A finger *)

\* rotate_touch_norm and _tap_position, for a touch at <<a / n, b / n>> of the panel.
RotateTouch(a, b, n) ==
  IF Rotation = 90 THEN <<b, n - a>>
  ELSE IF Rotation = 180 THEN <<n - a, n - b>>
  ELSE IF Rotation = 270 THEN <<n - b, a>>
  ELSE <<a, b>>
TapPosition(size, a, b, n) ==
  LET r == RotateTouch(a, b, n) IN <<(r[1] * size[1]) \div n, (r[2] * size[2]) \div n>>

GridTarget(size, tiles, pos) ==
  IF Covers(RefreshRect(size), pos) THEN "refresh"
  ELSE IF Covers(StatusRect(size), pos) THEN "status"
  ELSE HitTest(tiles, pos)

OverlayTarget(size, pos) ==
  LET overlay == StatusOverlay(size)
  IN  IF Covers(overlay.minus, pos) THEN "minus"
      ELSE IF Covers(overlay.plus, pos) THEN "plus"
      ELSE IF Covers(overlay.panel, pos) THEN "card" ELSE "outside"
=============================================================================
