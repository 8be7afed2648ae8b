------------------------------- MODULE Arrange -------------------------------
(***************************************************************************)
(* reopen.arrange_workspace on one workspace, call by call, against niri's *)
(* column operations.  The windows of a run first arrive on the workspace  *)
(* (reopen._run moves each there with --focus false, or it opened there),  *)
(* to the right of the active column; then the saved columns are rebuilt.  *)
(* Nothing else happens on the desktop: the user is idle and no other      *)
(* window opens or closes.                                                 *)
(***************************************************************************)
EXTENDS Integers, Sequences, FiniteSets, SequencesExt

CONSTANTS
  Open,     \* columns open before the run, each a sequence of windows
  Focused,  \* which of those columns may be active when the run starts
  Layouts   \* saved places: functions from new windows to [column, tile, floating]

Windows(cs) == UNION {ToSet(cs[i]) : i \in DOMAIN cs}
Protected == Windows(Open)

\* A window is in one place; 0 is no window.
Once(cs) ==
  \A i, j \in DOMAIN cs : \A m \in DOMAIN cs[i], n \in DOMAIN cs[j] :
    cs[i][m] = cs[j][n] => i = j /\ m = n

ASSUME OpenAssumption ==
  /\ Open \in Seq(Seq(Protected)) /\ Once(Open)
  /\ 0 \notin Protected /\ <<>> \notin ToSet(Open)
  /\ Focused \subseteq DOMAIN Open

\* The saved windows were tiles of one workspace; column 0 stands for no column.
ASSUME LayoutAssumption ==
  \A l \in Layouts :
    /\ IsFiniteSet(DOMAIN l) /\ DOMAIN l \cap (Protected \cup {0}) = {}
    /\ \A w \in DOMAIN l : {l[w].column, l[w].tile} \subseteq Nat /\ l[w].floating \in BOOLEAN
    /\ \A v, w \in DOMAIN l :
         v # w /\ l[v].column # 0 => l[v].column # l[w].column \/ l[v].tile # l[w].tile

VARIABLES
  layout,    \* the saved place of each new window
  arriving,  \* new windows still to be moved here
  cols,      \* the workspace: its columns, left to right
  active,    \* the focused window; 0 when the workspace is empty
  floated,   \* windows made floating
  offset,    \* columns that arrange_workspace counted as open before the run
  step,      \* the call it makes next
  rank,      \* the saved column it rebuilds
  tile       \* the tile of that column it places
placing == <<offset, step, rank, tile>>
arrangeVars == <<layout, arriving, cols, active, floated, placing>>

ArrangeInit ==
  /\ layout \in Layouts
  /\ arriving = DOMAIN layout
  /\ cols = Open
  /\ \/ Open = <<>> /\ active = 0
     \/ \E i \in Focused : active = Open[i][1]
  /\ floated = {}
  /\ offset = 0 /\ step = "idle" /\ rank = 0 /\ tile = 0
-----------------------------------------------------------------------------
(* niri: columns of one workspace. *)

ColumnOf(cs, w) == CHOOSE i \in DOMAIN cs : w \in ToSet(cs[i])

\* move-column-to-index: 1-based, clamped to the last column.
WithMoved(cs, w, index) ==
  LET here == ColumnOf(cs, w)
  IN  InsertAt(RemoveAt(cs, here), IF index < Len(cs) THEN index ELSE Len(cs), cs[here])

\* consume-window-into-column: the first window of the column to the right joins the bottom.
WithConsumed(cs, w) ==
  LET here == ColumnOf(cs, w)
      joined == [cs EXCEPT ![here] = Append(@, cs[here + 1][1])]
  IN  IF here = Len(cs) THEN cs
      ELSE IF Len(cs[here + 1]) = 1 THEN RemoveAt(joined, here + 1)
      ELSE [joined EXCEPT ![here + 1] = Tail(@)]

WithoutWindow(cs, w) ==
  LET here == ColumnOf(cs, w)
      at == CHOOSE m \in DOMAIN cs[here] : cs[here][m] = w
  IN  IF Len(cs[here]) = 1 THEN RemoveAt(cs, here) ELSE [cs EXCEPT ![here] = RemoveAt(@, at)]
-----------------------------------------------------------------------------
(* arrange_workspace: what it reads, and the places it computes. *)

\* Columns holding a window that was open before the run.
Offset(cs) == Cardinality({i \in DOMAIN cs : ToSet(cs[i]) \cap Protected # {}})

InOrder(T, key) ==
  CHOOSE q \in [1 .. Cardinality(T) -> T] :
    \A i, j \in DOMAIN q : i < j => key[q[i]] < key[q[j]]

TiledIn(l) == {w \in DOMAIN l : ~l[w].floating /\ l[w].column # 0}
SavedColumns(l) ==
  LET columns == {l[w].column : w \in TiledIn(l)} IN InOrder(columns, [c \in columns |-> c])
Tiles(l, r) ==
  LET tiles == {w \in TiledIn(l) : l[w].column = SavedColumns(l)[r]}
  IN  InOrder(tiles, [w \in tiles |-> l[w].tile])

\* The seed takes the column's place; each further tile comes to its right to be consumed.
StackUnderIndex == offset + rank                                           \* mutant
TileIndex == IF tile = 1 THEN offset + rank ELSE offset + rank + 1
-----------------------------------------------------------------------------
\* A new window lands right of the active column; one that opened here also takes focus.
Arrive ==
  \E w \in arriving :
    /\ cols' = InsertAt(cols, (IF active = 0 THEN 0 ELSE ColumnOf(cols, active)) + 1, <<w>>)
    /\ active' \in {w, IF active = 0 THEN w ELSE active}
    /\ arriving' = arriving \ {w}
    /\ UNCHANGED <<layout, floated, placing>>

BeginArranging ==
  /\ arriving = {} /\ step = "idle"
  /\ offset' = Offset(cols) /\ rank' = 1 /\ tile' = 1
  /\ step' = IF SavedColumns(layout) = <<>> THEN "float" ELSE "focus"
  /\ UNCHANGED <<layout, arriving, cols, active, floated>>

NextTile ==
  \/ /\ tile < Len(Tiles(layout, rank))
     /\ step' = "focus" /\ tile' = tile + 1 /\ rank' = rank
  \/ /\ tile >= Len(Tiles(layout, rank)) /\ rank < Len(SavedColumns(layout))
     /\ step' = "focus" /\ tile' = 1 /\ rank' = rank + 1
  \/ /\ tile >= Len(Tiles(layout, rank)) /\ rank >= Len(SavedColumns(layout))
     /\ step' = "float" /\ UNCHANGED <<rank, tile>>

UnfocusedSeed ==                                                           \* mutant
  /\ step = "focus" /\ step' = "move"
  /\ active' = IF tile = 1 THEN active ELSE Tiles(layout, rank)[tile]
  /\ UNCHANGED <<layout, arriving, cols, floated, offset, rank, tile>>

\* focus-window of a tile.
FocusTile ==
  /\ step = "focus" /\ step' = "move"
  /\ active' = Tiles(layout, rank)[tile]
  /\ UNCHANGED <<layout, arriving, cols, floated, offset, rank, tile>>

MoveColumnToIndex ==
  /\ step = "move"
  /\ cols' = WithMoved(cols, active, TileIndex)
  /\ IF tile = 1 THEN NextTile ELSE step' = "seed" /\ UNCHANGED <<rank, tile>>
  /\ UNCHANGED <<layout, arriving, active, floated, offset>>

\* focus-window of the seed, before it consumes the tile at its right.
FocusSeed ==
  /\ step = "seed" /\ step' = "consume"
  /\ active' = Tiles(layout, rank)[1]
  /\ UNCHANGED <<layout, arriving, cols, floated, offset, rank, tile>>

ConsumeWindowIntoColumn ==
  /\ step = "consume"
  /\ cols' = WithConsumed(cols, active)
  /\ NextTile
  /\ UNCHANGED <<layout, arriving, active, floated, offset>>

ToFloat == {w \in DOMAIN layout : layout[w].floating} \ floated

MoveWindowToFloating ==
  /\ step = "float"
  /\ \E w \in ToFloat :
       /\ cols' = WithoutWindow(cols, w) /\ floated' = floated \cup {w}
       /\ active' = IF active # w THEN active ELSE IF cols' = <<>> THEN 0 ELSE cols'[1][1]
  /\ UNCHANGED <<layout, arriving, placing>>

EndArranging ==
  /\ step = "float" /\ ToFloat = {}
  /\ step' = "done"
  /\ UNCHANGED <<layout, arriving, cols, active, floated, offset, rank, tile>>

Arranged == step = "done" /\ UNCHANGED arrangeVars

ArrangeNext ==
  \/ Arrive \/ BeginArranging \/ FocusTile \/ MoveColumnToIndex \/ FocusSeed
  \/ ConsumeWindowIntoColumn \/ MoveWindowToFloating \/ EndArranging \/ Arranged

ArrangeSpec == ArrangeInit /\ [][ArrangeNext]_arrangeVars
-----------------------------------------------------------------------------
\* arrange_workspace's docstring, "Rebuild saved column order after existing (protected)
\* columns": the open columns come first and the saved columns follow, tiles in order.
RebuiltInOrder ==
  step = "done" =>
    IsPrefix(Open \o [r \in DOMAIN SavedColumns(layout) |-> Tiles(layout, r)], cols)

\* README "Guarantees": "never moves [a window] that was open before the run".  At every
\* moment the open columns stand in their order with their tiles, and no other column holds
\* a window of theirs.
OpenColumnsUndisturbed ==
  \E at \in [DOMAIN Open -> DOMAIN cols] :
    /\ \A i \in DOMAIN Open : cols[at[i]] = Open[i]
    /\ \A i, j \in DOMAIN Open : i < j => at[i] < at[j]
    /\ \A n \in DOMAIN cols :
         n \notin {at[i] : i \in DOMAIN Open} => ToSet(cols[n]) \cap Protected = {}
=============================================================================
