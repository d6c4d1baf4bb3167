------------------------------- MODULE Screen -------------------------------
(***************************************************************************)
(* One terminal's state: the screen, its cursor, the scrollback behind it  *)
(* in three tiers (rows of the grid above the screen, rows streamed into   *)
(* the pending block, compressed blocks), the alternate screen, the window *)
(* the user has scrolled to, and what the renderer is told has changed.    *)
(*                                                                         *)
(* A cell keeps whether it holds a character, its width and its flags;     *)
(* colours, attributes and the title are left out.  `stale` is no field of *)
(* the code: it says that a cursor or a screen was brought back that was   *)
(* saved when the terminal had another size.                               *)
(***************************************************************************)
EXTENDS Integers, Sequences, SequencesExt, FiniteSets

CONSTANTS
    Sizes,       \* the sizes a pane may get: [cols, rows]
    BLOCK_ROWS,  \* rows of a compressed block
    HotCap,      \* HOT_ROWS + MAX_PROMOTED_BLOCKS * BLOCK_ROWS
    MAX_RUN,     \* the longest run of a span
    Limit,       \* scrollback_limit
    Counts,      \* the counts a control sequence may carry
    MaxActs      \* bound: how much happens

VARIABLES
    t,     \* TerminalState
    acts   \* how much has happened

vars == <<t, acts>>

None == [none |-> TRUE]
Glyphs == {"narrow", "wide", "mark", "emoji_vs", "text_vs", "joiner"}

Blank == [ch |-> 0, width |-> 1, flags |-> {}]
Continuation == [ch |-> 1, width |-> 0, flags |-> {"CONTINUATION"}]

NewRow(cols) == [cells |-> [c \in 1..cols |-> Blank], wrapped |-> FALSE]
clear(row) == NewRow(Len(row.cells))

NoBlocks == [blocks |-> <<>>, total_rows |-> 0]
Clean == [rows |-> {}, cursor |-> FALSE, full |-> FALSE]
NoRows == [body |-> <<>>, wrapped |-> {}]
Home == [col |-> 0, row |-> 0]

new(s) ==
    [cols |-> s.cols, rows |-> s.rows,
     grid |-> [r \in 1..s.rows |-> NewRow(s.cols)],
     cold |-> NoBlocks, pending |-> NoRows,
     cursor |-> Home, parked |-> FALSE, wrap |-> TRUE, offset |-> 0,
     saved |-> [cursor |-> Home, parked |-> FALSE, wrap |-> TRUE, size |-> s],
     alt |-> None, last |-> "none", selection |-> None, dirty |-> Clean,
     stale |-> FALSE, dead |-> "no"]

Init == /\ \E s \in Sizes : t = new(s)
        /\ acts = 0

(* An index out of range ends the thread that owns the state.              *)
Panic(s, where) == [s EXCEPT !.dead = where]

Size(s) == [cols |-> s.cols, rows |-> s.rows]
SizeIfSound(s) == IF s.stale THEN None ELSE Size(s)

-----------------------------------------------------------------------------
(* The tiers of the history.  A row is stored as its runs of equal cells.  *)

Min2(a, b) == IF a < b THEN a ELSE b
Monus(a, b) == IF a < b THEN 0 ELSE a - b

encode_row_into(cells) ==
    LET first(i) == CHOOSE j \in 1..i :
                      /\ \A k \in j..i : cells[k] = cells[i]
                      /\ j = 1 \/ cells[j - 1] # cells[i]
        starts == {i \in DOMAIN cells : (i - first(i)) % MAX_RUN = 0}
        next(i) == CHOOSE j \in (starts \cup {Len(cells) + 1}) :
                     j > i /\ \A k \in starts : k <= i \/ j <= k
    IN [n \in 1..Cardinality(starts) |->
          LET i == SetToSortSeq(starts, <)[n]
          IN [len |-> next(i) - i, cell |-> cells[i]]]

decode_row(spans, cols, wrapped) ==
    LET cells == FoldLeft(LAMBDA acc, sp :
                            acc \o [i \in 1..sp.len |-> sp.cell], <<>>, spans)
    IN [cells |-> [c \in 1..cols |-> IF c <= Len(cells) THEN cells[c] ELSE Blank],
        wrapped |-> wrapped]

encode_row(s, row) ==
    LET n == Len(s.pending.body)
    IN [s EXCEPT !.pending =
          [body |-> Append(s.pending.body, encode_row_into(row.cells)),
           wrapped |-> IF row.wrapped THEN s.pending.wrapped \cup {n}
                       ELSE s.pending.wrapped]]

PendingBlock(s) == [rows |-> Len(s.pending.body), cols |-> s.cols,
                    body |-> s.pending.body, wrapped |-> s.pending.wrapped]

push_back(cold, b) == [blocks |-> Append(cold.blocks, b),
                       total_rows |-> cold.total_rows + b.rows]

(* Fault: the wrapped flags of the last block are kept for the next.       *)
FaultFlushKeepsFlags(s) ==
    [s EXCEPT !.cold = push_back(s.cold, PendingBlock(s)),
              !.pending = [body |-> <<>>, wrapped |-> s.pending.wrapped]]

flush_cold_block(s) ==
    [s EXCEPT !.cold = push_back(s.cold, PendingBlock(s)), !.pending = NoRows]

decode_block(b) ==
    [i \in 1..b.rows |-> decode_row(b.body[i], b.cols, i - 1 \in b.wrapped)]

Encoded(s) == s.cold.total_rows + Len(s.pending.body)
grid_len(s) == Encoded(s) + Len(s.grid)
history_rows(s) == grid_len(s) - s.rows
scrollback_len(s) == grid_len(s) - s.rows

(* What the user would read from the top of the history to the screen.     *)
History(s) ==
    FoldLeft(LAMBDA acc, b : acc \o decode_block(b), <<>>, s.cold.blocks)
      \o [i \in 1..Len(s.pending.body) |->
            decode_row(s.pending.body[i], s.cols, i - 1 \in s.pending.wrapped)]
      \o SubSeq(s.grid, 1, Len(s.grid) - s.rows)

-----------------------------------------------------------------------------
(* What has changed since the last frame.                                  *)

mark_row(s, r) ==
    IF s.dirty.full THEN s
    ELSE IF r >= s.rows THEN [s EXCEPT !.dirty.full = TRUE, !.dirty.rows = {}]
    ELSE [s EXCEPT !.dirty.rows = @ \cup {r}]

mark_all(s) == [s EXCEPT !.dirty.full = TRUE, !.dirty.rows = {}]
mark_scroll(s) == [s EXCEPT !.dirty.rows = 0..(s.rows - 1)]
moved(s) == [s EXCEPT !.dirty.cursor = TRUE]

-----------------------------------------------------------------------------
(* Scrolling.                                                              *)

(* Fault: history is tiered down whether or not there is room for it.      *)
FaultScrollPastLimit(s) ==
    IF Len(s.grid) < s.rows + HotCap
    THEN mark_scroll([s EXCEPT !.grid = Append(@, NewRow(s.cols))])
    ELSE LET u == [encode_row(s, Head(s.grid)) EXCEPT
                     !.grid = Append(Tail(@), clear(Head(@)))]
         IN mark_scroll(IF Len(u.pending.body) >= BLOCK_ROWS
                        THEN flush_cold_block(u) ELSE u)

scroll_up_one(s) ==
    IF Len(s.grid) >= s.rows + HotCap
    THEN LET oldest == Head(s.grid)
             popped == [s EXCEPT !.grid = Tail(s.grid)]
             tiered == IF history_rows(popped) < Limit
                       THEN encode_row(popped, oldest) ELSE popped
             pushed == [tiered EXCEPT !.grid = Append(@, clear(oldest))]
         IN mark_scroll(IF Len(pushed.pending.body) >= BLOCK_ROWS
                        THEN flush_cold_block(pushed) ELSE pushed)
    ELSE mark_scroll([s EXCEPT !.grid = Append(@, NewRow(s.cols))])

Times(n, Op(_), s) ==
    LET after[i \in 0..n] == IF i = 0 THEN s ELSE Op(after[i - 1]) IN after[n]

scroll_up(s, n) == mark_all(Times(n, scroll_up_one, s))

scroll_down(s, n) ==
    LET down(u) == [u EXCEPT !.grid = <<NewRow(s.cols)>> \o Front(u.grid)]
    IN mark_all(Times(n, down, s))

-----------------------------------------------------------------------------
(* The cursor.                                                             *)

vis_idx(s, r) == Len(s.grid) - s.rows + r + 1
OnGrid(s, r) == vis_idx(s, r) \in DOMAIN s.grid
CursorRow(s) == s.grid[vis_idx(s, s.cursor.row)]

SetCol(s, c) == moved([s EXCEPT !.cursor.col = c])
Unpark(s) == [s EXCEPT !.parked = FALSE]

line_wrap(s) ==
    IF ~OnGrid(s, s.cursor.row) THEN Panic(s, "cursor")
    ELSE LET w == [Unpark(s) EXCEPT
                     !.grid[vis_idx(s, s.cursor.row)].wrapped = TRUE]
         IN SetCol(IF s.cursor.row < s.rows - 1
                   THEN [w EXCEPT !.cursor.row = @ + 1]
                   ELSE scroll_up_one(w), 0)

cursor_down(s, n) ==
    LET down(u) == IF u.cursor.row < u.rows - 1
                   THEN moved([u EXCEPT !.cursor.row = @ + 1])
                   ELSE scroll_up_one(u)
    IN Times(n, down, Unpark(s))

cursor_up(s, n) ==
    LET r == Monus(s.cursor.row, n)
    IN IF r = s.cursor.row THEN Unpark(s)
       ELSE moved([Unpark(s) EXCEPT !.cursor.row = r])

cursor_forward(s, n) ==
    LET forward(u) == IF u.dead # "no" THEN u
                      ELSE IF u.cursor.col < u.cols - 1
                           THEN SetCol(u, u.cursor.col + 1)
                      ELSE IF u.wrap THEN line_wrap(u)
                      ELSE IF u.cursor.col # u.cols - 1
                           THEN SetCol(u, u.cols - 1) ELSE u
    IN Times(n, forward, Unpark(s))

cursor_back(s, n) ==
    IF s.cursor.col = 0 THEN Unpark(s)
    ELSE SetCol(Unpark(s), Monus(s.cursor.col, n))

cursor_to_beginning_of_line(s) ==
    IF s.cursor.col = 0 THEN s ELSE SetCol(Unpark(s), 0)

u16_MAX == 65535

cursor_position(s, c, r) ==
    LET to == [col |-> IF c = u16_MAX THEN s.cursor.col ELSE Min2(c, s.cols - 1),
               row |-> IF r = u16_MAX THEN s.cursor.row ELSE Min2(r, s.rows - 1)]
    IN IF to = s.cursor THEN Unpark(s)
       ELSE moved([Unpark(s) EXCEPT !.cursor = to])

tab(s) == SetCol(Unpark(s), Min2((s.cursor.col \div 8 + 1) * 8, s.cols - 1))

(* Past the last column the cursor stays on it and the wrap is deferred.   *)
ParkAt(s, next) ==
    IF next < s.cols THEN SetCol(Unpark(s), next)
    ELSE SetCol([s EXCEPT !.parked = s.wrap], s.cols - 1)

(* Fault: the cursor goes past the last column instead of waiting there.   *)
FaultAdvanceOver(s, width) ==
    SetCol([s EXCEPT !.parked = s.wrap /\ s.cursor.col + width >= s.cols],
           Min2(s.cursor.col + width, s.cols))

cursor_advance(s, width) == ParkAt(s, Min2(s.cursor.col + width, s.cols))

-----------------------------------------------------------------------------
(* Writing.                                                                *)

SetCell(s, i, cell) ==
    IF i \in DOMAIN CursorRow(s).cells
    THEN [s EXCEPT !.grid[vis_idx(s, s.cursor.row)].cells[i] = cell] ELSE s

(* The index of the base cell of the cluster that ends before the cursor.  *)
cluster_base(s) ==
    LET bases == {i \in 1..s.cursor.col :
                    "CONTINUATION" \notin CursorRow(s).cells[i].flags}
    IN IF bases = {} THEN 0
       ELSE CHOOSE i \in bases : \A j \in bases : j <= i

(* A cluster that grew to two columns takes the cell to its right.         *)
Widen(s, i, grew) ==
    IF grew /\ i < s.cols THEN SetCell(s, i + 1, Continuation) ELSE s

MergeIntoCluster(s, i, width) ==
    LET base == CursorRow(s).cells[i]
        w == Min2(IF base.width > width THEN base.width ELSE width, 2)
        b == [base EXCEPT !.width = w, !.flags = @ \ {"JOINER"}]
    IN mark_row(ParkAt(Widen(SetCell(s, i, b), i, w = 2 /\ base.width < 2),
                       i - 1 + w), s.cursor.row)

PutGlyph(s, width) ==
    LET c == s.cursor.col + 1
        one == SetCell(s, c, [ch |-> 1, width |-> width, flags |-> {}])
        two == IF width = 2 /\ c \in DOMAIN CursorRow(s).cells
               THEN SetCell(one, c + 1, Continuation) ELSE one
    IN cursor_advance(mark_row([two EXCEPT
                        !.last = IF width = 2 THEN "wide" ELSE "narrow"],
                      s.cursor.row), width)

(* The cells left of the cursor, or none, can be read.                     *)
Readable(s) == /\ OnGrid(s, s.cursor.row)
               /\ s.cursor.col <= Len(CursorRow(s).cells)

(* Fault: the row is marked where the cursor was before the wrap.          *)
FaultWriteMarksEarly(s, width) ==
    LET u == IF s.parked THEN line_wrap(Unpark(s)) ELSE s
        p == PutGlyph(u, width)
    IN IF u.dead # "no" \/ ~Readable(u) THEN Panic(u, "cursor")
       ELSE mark_row([p EXCEPT !.dirty.rows = u.dirty.rows], s.cursor.row)

write_base(s, width) ==
    LET u == IF s.parked THEN line_wrap(Unpark(s)) ELSE s
        i == cluster_base(u)
        joins == i # 0 /\ LET b == CursorRow(u).cells[i]
                          IN "JOINER" \in b.flags /\ b.ch # 0
        v == IF u.cursor.col + width <= u.cols THEN u
             ELSE IF u.wrap THEN line_wrap(u)
             ELSE [u EXCEPT !.cursor.col = Monus(u.cols, width)]
    IN IF u.dead # "no" \/ ~Readable(u) THEN Panic(u, "cursor")
       ELSE IF joins THEN MergeIntoCluster(u, i, width)
       ELSE PutGlyph(v, width)

write_zero_width(s, glyph) ==
    IF s.cursor.col = 0 THEN s
    ELSE IF ~Readable(s) THEN Panic(s, "cursor")
    ELSE IF glyph = "mark"
         THEN mark_row(SetCell(s, s.cursor.col + 1,
                 [ch |-> 1, width |-> 0, flags |-> {"COMBINING"}]), s.cursor.row)
    ELSE LET i == cluster_base(s)
             base == CursorRow(s).cells[i]
             want == IF glyph = "emoji_vs" THEN 2 ELSE 1
             w == Min2(IF base.width > want THEN base.width ELSE want, 2)
             grew == w = 2 /\ base.width < 2
             wide == Widen(SetCell(s, i, [base EXCEPT !.width = w]), i, grew)
         IN IF i = 0 \/ base.ch = 0 THEN s
            ELSE IF glyph = "joiner"
                 THEN mark_row(SetCell(s, i, [base EXCEPT !.flags = @ \cup {"JOINER"}]),
                               s.cursor.row)
            ELSE mark_row(IF grew THEN ParkAt(wide, i + 1) ELSE wide, s.cursor.row)

write_char(s, glyph) ==
    IF glyph = "narrow" THEN write_base(s, 1)
    ELSE IF glyph = "wide" THEN write_base(s, 2)
    ELSE write_zero_width(s, glyph)

repeat_last_char(s, n) ==
    LET again(u) == IF u.dead # "no" THEN u ELSE write_char(u, s.last)
    IN IF s.last = "none" THEN s ELSE Times(n, again, s)

-----------------------------------------------------------------------------
(* Erasing, inserting and deleting.                                        *)

clear_from(row, c) == [row EXCEPT !.cells =
    [i \in DOMAIN row.cells |-> IF i > c THEN Blank ELSE row.cells[i]]]
clear_to(row, c) == [row EXCEPT !.cells =
    [i \in DOMAIN row.cells |-> IF i <= c + 1 THEN Blank ELSE row.cells[i]]]

(* Every row of the screen from first to last, cleared as Op says.         *)
OnRows(s, first, last, Op(_, _)) ==
    [s EXCEPT !.grid = [i \in DOMAIN s.grid |->
        LET r == i - vis_idx(s, 0)
        IN IF r \in first..last THEN Op(s.grid[i], r) ELSE s.grid[i]]]

CanClearTo(s, r, c) ==
    OnGrid(s, r) /\ c < Len(s.grid[vis_idx(s, r)].cells)

ForgetHistory(s) ==
    [s EXCEPT !.cold = NoBlocks, !.pending = NoRows,
              !.grid = SubSeq(@, Len(@) - Min2(Len(@), s.rows) + 1, Len(@))]

clear_screen(s, mode) ==
    LET cur == s.cursor
        below(row, r) == IF r = cur.row THEN clear_from(row, cur.col) ELSE clear_from(row, 0)
        above(row, r) == IF r = cur.row THEN clear_to(row, cur.col) ELSE clear_to(row, s.cols - 1)
        whole(row, r) == clear(row)
        home(u) == [Unpark(u) EXCEPT !.cursor = Home]
        reach == IF mode = 0 THEN cur.row < s.rows => Readable(s)
                 ELSE IF mode = 1
                 THEN \A r \in 0..cur.row : CanClearTo(s, r, IF r = cur.row
                                              THEN cur.col ELSE s.cols - 1)
                 ELSE OnGrid(s, 0)
    IN IF ~reach THEN Panic(s, "cursor")
       ELSE moved(mark_all(
              IF mode = 0 THEN OnRows(s, cur.row, s.rows - 1, below)
              ELSE IF mode = 1 THEN OnRows(s, 0, cur.row, above)
              ELSE IF mode = 2 THEN home(OnRows(s, 0, s.rows - 1, whole))
              ELSE home(ForgetHistory(OnRows(s, 0, s.rows - 1, whole)))))

clear_line(s, mode) ==
    LET cur == s.cursor
        erase(row, r) == IF mode = 0 THEN clear_from(row, cur.col)
                         ELSE IF mode = 1 THEN clear_to(row, cur.col) ELSE clear(row)
    IN IF ~Readable(s) \/ (mode = 1 /\ ~CanClearTo(s, cur.row, cur.col)) THEN Panic(s, "cursor")
       ELSE mark_row(OnRows(s, cur.row, cur.row, erase), cur.row)

Upto(n, S) == Min2(n, Len(S))
Blanks(n, row) == [i \in 1..n |-> clear(row)]

insert_lines(s, n) ==
    LET at == vis_idx(s, s.cursor.row)
        above == SubSeq(s.grid, 1, at - 1)
        below == SubSeq(s.grid, at, Len(s.grid))
        k == Upto(n, below)
    IN IF ~OnGrid(s, s.cursor.row) THEN Panic(s, "cursor")
       ELSE mark_all([s EXCEPT !.grid =
              above \o Blanks(k, Last(s.grid)) \o SubSeq(below, 1, Len(below) - k)])

delete_lines(s, n) ==
    LET at == vis_idx(s, s.cursor.row)
        k == Min2(n, s.rows - s.cursor.row)
    IN IF ~OnGrid(s, s.cursor.row) THEN Panic(s, "cursor")
       ELSE mark_all([s EXCEPT !.grid =
              SubSeq(s.grid, 1, at - 1) \o SubSeq(s.grid, at + k, Len(s.grid))
                \o Blanks(k, s.grid[at])])

SetCells(s, cells) ==
    mark_row([s EXCEPT !.grid[vis_idx(s, s.cursor.row)].cells = cells],
             s.cursor.row)

NoCells(n) == [i \in 1..n |-> Blank]

(* The cells that stay are copied to col + n even when none are left, and  *)
(* that must lie within the row.                                           *)
insert_chars(s, n) ==
    LET cells == CursorRow(s).cells
        left == SubSeq(cells, 1, s.cursor.col)
        right == SubSeq(cells, s.cursor.col + 1, Len(cells))
    IN IF ~OnGrid(s, s.cursor.row) THEN Panic(s, "cursor")
       ELSE IF s.cursor.col >= Len(cells) THEN mark_row(s, s.cursor.row)
       ELSE IF n > Len(right) THEN Panic(s, "insert")
       ELSE SetCells(s, left \o NoCells(n) \o SubSeq(right, 1, Len(right) - n))

delete_chars(s, n) ==
    LET cells == CursorRow(s).cells
        left == SubSeq(cells, 1, s.cursor.col)
        right == SubSeq(cells, s.cursor.col + 1, Len(cells))
        k == Upto(n, right)
    IN IF ~OnGrid(s, s.cursor.row) THEN Panic(s, "cursor")
       ELSE IF s.cursor.col >= Len(cells) THEN mark_row(s, s.cursor.row)
       ELSE SetCells(s, left \o SubSeq(right, k + 1, Len(right)) \o NoCells(k))

-----------------------------------------------------------------------------
(* What is saved and brought back.                                         *)

save_cursor(s) ==
    [s EXCEPT !.saved = [cursor |-> s.cursor, parked |-> s.parked,
                         wrap |-> s.wrap, size |-> SizeIfSound(s)]]

restore_cursor(s) ==
    moved([s EXCEPT !.cursor = s.saved.cursor, !.parked = s.saved.parked,
                    !.wrap = s.saved.wrap,
                    !.stale = @ \/ s.saved.size # Size(s)])

(* The scroll offset is not among what is saved, nor is it reset.          *)
set_alt_screen(s, on) ==
    IF on = (s.alt # None) THEN s
    ELSE IF on
         THEN mark_all([s EXCEPT
                !.alt = [grid |-> s.grid, cold |-> s.cold, pending |-> s.pending,
                         cursor |-> s.cursor, saved |-> s.saved,
                         parked |-> s.parked, size |-> SizeIfSound(s)],
                !.grid = new(Size(s)).grid, !.cold = NoBlocks, !.pending = NoRows,
                !.cursor = Home, !.parked = FALSE, !.stale = FALSE])
    ELSE mark_all([s EXCEPT
           !.grid = s.alt.grid, !.cold = s.alt.cold, !.pending = s.alt.pending,
           !.cursor = s.alt.cursor, !.saved = s.alt.saved,
           !.parked = s.alt.parked, !.alt = None,
           !.stale = s.alt.size # Size(s)])

ClampPoint(p, s) == [row |-> Min2(p.row, s.rows - 1), col |-> Min2(p.col, s.cols - 1)]
ClampSelection(sel, s) ==
    IF sel = None THEN None
    ELSE [start |-> ClampPoint(sel.start, s), end |-> ClampPoint(sel.end, s)]

FitRow(row, cols) == [row EXCEPT !.cells =
    [c \in 1..cols |-> IF c <= Len(row.cells) THEN row.cells[c] ELSE Blank]]

(* A resize drops the history, and leaves the screen that is put away as   *)
(* it is.                                                                  *)
resize(s, to) ==
    LET u == [s EXCEPT !.cols = to.cols, !.rows = to.rows]
        kept == ForgetHistory(u).grid
        more == [i \in 1..Monus(to.rows, Len(kept)) |-> NewRow(to.cols)]
        g == kept \o more
    IN IF to = Size(s) THEN s
       ELSE [ForgetHistory(u) EXCEPT
               !.grid = [i \in DOMAIN g |-> FitRow(g[i], to.cols)],
               !.cursor = [col |-> Min2(s.cursor.col, to.cols - 1),
                           row |-> Min2(s.cursor.row, to.rows - 1)],
               !.offset = 0, !.parked = FALSE,
               !.selection = ClampSelection(s.selection, u),
               !.dirty = [Clean EXCEPT !.full = TRUE], !.stale = FALSE]

-----------------------------------------------------------------------------
(* The window the user looks at.                                           *)

scroll_view(s, delta) ==
    LET to == s.offset + delta
        len == scrollback_len(s)
        at == IF to < 0 THEN 0 ELSE Min2(to, len)
    IN IF len < 0 THEN Panic(s, "view")
       ELSE IF at = s.offset THEN s ELSE mark_all([s EXCEPT !.offset = at])

set_scroll_offset(s, offset) ==
    LET at == Min2(offset, scrollback_len(s))
    IN IF scrollback_len(s) < 0 THEN Panic(s, "view")
       ELSE IF at = s.offset THEN s ELSE mark_all([s EXCEPT !.offset = at])

set_selection(s, start, end) ==
    LET sel == ClampSelection([start |-> start, end |-> end], s)
    IN IF sel = s.selection THEN s ELSE mark_all([s EXCEPT !.selection = sel])

clear_selection(s) ==
    IF s.selection = None THEN s ELSE mark_all([s EXCEPT !.selection = None])

win_start(s) == Monus(grid_len(s), s.rows + s.offset)
win_end(s) == Min2(win_start(s) + s.rows, grid_len(s))

(* The rows decode_window asks for: the window's, once it starts in the    *)
(* rows that are encoded, whether or not it ends there.                    *)
decode_window(s) ==
    IF win_start(s) < Encoded(s) THEN win_start(s)..(win_end(s) - 1) ELSE {}

(* A frame of the renderer: the marks are taken, the window is decoded.    *)
snapshot(s) ==
    IF \E i \in decode_window(s) : i >= Encoded(s)
    THEN Panic([s EXCEPT !.dirty = Clean], "snapshot")
    ELSE [s EXCEPT !.dirty = Clean]

-----------------------------------------------------------------------------
(* What the parser makes of a sequence of bytes: one event, or two.        *)

Ev(e, n) == [event |-> e, n |-> n]
Writes == {[event |-> "WriteChar", glyph |-> g] : g \in Glyphs}
Counted == {"CursorUp", "CursorDown", "CursorForward", "CursorBack",
            "InsertLines", "DeleteLines", "InsertChars", "DeleteChars",
            "RepeatLastChar", "ScrollUp", "ScrollDown"}
Simple == {"Tab", "CursorToBeginningOfLine", "SaveCursor", "RestoreCursor"}

csi_dispatch ==
    {<<Ev(e, n)>> : e \in Counted, n \in Counts}
      \cup {<<Ev("CursorToBeginningOfLine", 0), Ev(e, n)>> :
               e \in {"CursorDown", "CursorUp"}, n \in Counts}
      \cup {<<[event |-> "MoveCursor", col |-> c, row |-> r]>> :
               c, r \in {0, 1, u16_MAX}}
      \cup {<<Ev("ClearScreen", m)>> : m \in 0..3}
      \cup {<<Ev("ClearLine", m)>> : m \in 0..2}
      \cup {<<[event |-> e, on |-> b]>> :
               e \in {"SetAutoWrap", "SetAltScreen"}, b \in BOOLEAN}

ByteSequences ==
    {<<w>> : w \in Writes} \cup {<<Ev(e, 0)>> : e \in Simple} \cup csi_dispatch

apply_event(s, e) ==
    CASE e.event = "WriteChar" -> write_char(s, e.glyph)
      [] e.event = "MoveCursor" -> cursor_position(s, e.col, e.row)
      [] e.event = "CursorUp" -> cursor_up(s, e.n)
      [] e.event = "CursorDown" -> cursor_down(s, e.n)
      [] e.event = "CursorForward" -> cursor_forward(s, e.n)
      [] e.event = "CursorBack" -> cursor_back(s, e.n)
      [] e.event = "Tab" -> tab(s)
      [] e.event = "CursorToBeginningOfLine" -> cursor_to_beginning_of_line(s)
      [] e.event = "ClearScreen" -> clear_screen(s, e.n)
      [] e.event = "ClearLine" -> clear_line(s, e.n)
      [] e.event = "InsertLines" -> insert_lines(s, e.n)
      [] e.event = "DeleteLines" -> delete_lines(s, e.n)
      [] e.event = "ScrollUp" -> scroll_up(s, e.n)
      [] e.event = "ScrollDown" -> scroll_down(s, e.n)
      [] e.event = "SaveCursor" -> save_cursor(s)
      [] e.event = "RestoreCursor" -> restore_cursor(s)
      [] e.event = "SetAutoWrap" -> [s EXCEPT !.wrap = e.on]
      [] e.event = "SetAltScreen" -> set_alt_screen(s, e.on)
      [] e.event = "InsertChars" -> insert_chars(s, e.n)
      [] e.event = "DeleteChars" -> delete_chars(s, e.n)
      [] e.event = "RepeatLastChar" -> repeat_last_char(s, e.n)

apply_events(s, events) ==
    LET after[i \in 0..Len(events)] ==
          IF i = 0 THEN s
          ELSE IF after[i - 1].dead # "no" THEN after[i - 1]
          ELSE apply_event(after[i - 1], events[i])
    IN after[Len(events)]

Act(s) == acts < MaxActs /\ t.dead = "no" /\ t' = s /\ acts' = acts + 1

Output == \E es \in ByteSequences : Act(apply_events(t, es))
Resize == \E to \in Sizes : Act(resize(t, to))
Points == {Home, [row |-> 1, col |-> 2]}
View == \/ \E d \in {-1, 1} : Act(scroll_view(t, d))
        \/ Act(set_scroll_offset(t, Limit + HotCap))
        \/ \E a, b \in Points : Act(set_selection(t, a, b))
        \/ Act(clear_selection(t))
(* A frame is drawn when there is something to draw.                       *)
Frame == /\ t.dead = "no" /\ t.dirty # Clean
         /\ t' = snapshot(t) /\ UNCHANGED acts

Next == Output \/ Resize \/ View \/ Frame

Spec == Init /\ [][Next]_vars

-----------------------------------------------------------------------------
(* Properties.                                                             *)

OnScreen(p, s) == p.col \in 0..(s.cols - 1) /\ p.row \in 0..(s.rows - 1)

(* TypeOK: the terminal's state has its shape.                             *)
TypeOK ==
    /\ Size(t) \in Sizes
    /\ \A b \in Range(t.cold.blocks) : b.rows = BLOCK_ROWS
    /\ Len(t.pending.body) < BLOCK_ROWS
    /\ t.dirty.rows \subseteq 0..(t.rows - 1)
    /\ t.dead \in {"no", "cursor", "insert", "view", "snapshot"}

(* ScreenHolds: whatever the output does, and however the pane is resized, *)
(* the cursor and the selection are on the screen, the grid holds the      *)
(* screen's rows, each as wide as the screen, a deferred wrap waits at the *)
(* right margin, and no write runs off the grid; as long as nothing is     *)
(* brought back that was saved at another size (vis_idx, resize,           *)
(* cursor_advance).                                                        *)
ScreenHolds ==
    ~t.stale => /\ OnScreen(t.cursor, t)
                /\ Len(t.grid) >= t.rows
                /\ \A r \in Range(t.grid) : Len(r.cells) = t.cols
                /\ t.parked => t.cursor.col = t.cols - 1
                /\ t.selection # None => /\ OnScreen(t.selection.start, t)
                                           /\ OnScreen(t.selection.end, t)
                /\ t.dead \notin {"cursor", "view"}

(* HistoryIsKept: nothing that happens rewrites the history: what is above *)
(* the screen stays there, the same through every tier, and grows at its   *)
(* end, until it is full, or is dropped as a whole; a scroll down, which   *)
(* takes the last line back, is the exception (scroll_up_one, encode_row,  *)
(* flush_cold_block, decode_block).                                        *)
HistoryGrows ==
    \/ IsPrefix(History(t), History(t'))
    \/ History(t') = <<>>
    \/ Len(History(t')) > Limit
    \/ t.alt # None /\ t'.alt = None
    \/ \E n \in Counts : t' = scroll_down(t, n)
    \/ t.stale
HistoryIsKept == [][HistoryGrows]_vars

(* HistoryIsBounded: the tiers together hold no more than the limit and    *)
(* one row (history_rows is asked with the row already taken out), and the *)
(* rows counted are those of the blocks, which are uniform: decode_window  *)
(* finds the block of a row by division.                                   *)
HistoryIsBounded ==
    /\ ~t.stale => scrollback_len(t) <= Limit + 1
    /\ t.cold.total_rows = Len(t.cold.blocks) * BLOCK_ROWS

Seen(s) == SubSeq(s.grid, Len(s.grid) - s.rows + 1, Len(s.grid))
Marked(before, after) ==
    after.dirty.full
      \/ /\ \A r \in 1..after.rows : Seen(before)[r].cells # Seen(after)[r].cells
               => r - 1 \in after.dirty.rows
         /\ before.cursor # after.cursor => after.dirty.cursor

(* NothingChangesUnmarked: a step that changes what the user sees of a     *)
(* screen that is not scrolled back marks every row it changed, and the    *)
(* cursor, for the next frame (mark_row after the wrap, mark_scroll).      *)
ChangesAreMarked ==
    \/ t.stale \/ t'.stale \/ t.offset + t'.offset > 0 \/ t'.dead # "no"
    \/ Size(t) # Size(t') \/ Marked(t, t')
NothingChangesUnmarked == [][ChangesAreMarked]_vars

(* FramesAreDrawn: a window that begins in the history that is encoded and *)
(* ends in the rows that are not is drawn like any other                   *)
(* (decode_window, snapshot).                                              *)
FramesAreDrawn == t.dead # "snapshot"
=============================================================================
