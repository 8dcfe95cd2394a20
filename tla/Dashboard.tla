----------------------------- MODULE Dashboard ------------------------------
(***************************************************************************)
(* The tree of tmh's dashboard as a value: sessions, their windows and     *)
(* panes, above them the windows linked into the active session, a cursor, *)
(* an inline filter and the preview of what is under the cursor.  One      *)
(* operator per method of dashboardModel, from a dashboard to the next.    *)
(* Pane indexes begin at 0; what a row's processes are does not matter     *)
(* here.                                                                   *)
(***************************************************************************)
EXTENDS Integers, Sequences, SequencesExt

CONSTANTS
    Fits,      \* [name -> how much of the word that is typed it contains]
    MaxTyped   \* the length of the word

(* Names joined to a target or an id; << >> is the empty string.           *)
Nothing == << >>

(* A listing is a sequence of sessions, [name, windows], a window is       *)
(* [name, index, panes]; a report says whether the active session is in    *)
(* use and which windows are linked into it, [enabled, windows].           *)
newDashboard ==
    [loaded |-> FALSE, listing |-> << >>, rows |-> << >>,
     report |-> [enabled |-> FALSE, windows |-> << >>],
     collapsed |-> {}, expanded |-> {},
     cursor |-> 1, typed |-> 0, focused |-> FALSE,
     filtered |-> [on |-> FALSE, at |-> << >>], filterCursor |-> 1,
     preview |-> Nothing, lastRow |-> Nothing, pane |-> 0]

-----------------------------------------------------------------------------
(* rebuildRows: a row's id, the targets that its kill, attach and preview  *)
(* take, and what the filter looks at.                                     *)
Row(level, id, target, names, w) ==
    [level |-> level, id |-> id, target |-> target, names |-> names, of |-> w]

NoWindow == [name |-> "", index |-> "", panes |-> 0]

SessionRow(s) == Row("session", << s.name >>, << s.name >>, {s.name}, NoWindow)

WindowRow(s, w) ==
    Row("window", << s.name, w.name >>, << s.name, w.name >>, {s.name, w.name}, w)

(* A pane is known to the tree by the window's name and to tmux by its     *)
(* index.                                                                  *)
PaneRow(s, w, i) ==
    Row("pane", << s.name, w.name, i >>, << s.name, w.index, i >>,
        {s.name, w.name}, w)

WindowRows(d, s, w) ==
    << WindowRow(s, w) >> \o
    IF << s.name, w.name >> \in d.expanded
    THEN [i \in 1..w.panes |-> PaneRow(s, w, i - 1)]
    ELSE << >>

SessionRows(d, s) ==
    << SessionRow(s) >> \o
    IF s.name \in d.collapsed
    THEN << >>
    ELSE FlattenSeq([i \in DOMAIN s.windows |-> WindowRows(d, s, s.windows[i])])

Alias(id) == Row("alias", << id >>, Nothing, {id}, NoWindow)

ActiveRows(d) ==
    IF ~d.report.enabled THEN << >>
    ELSE << Row("header", << "active-runtime" >>, Nothing, {}, NoWindow) >> \o
         [i \in DOMAIN d.report.windows |-> Alias(d.report.windows[i])]

RowsOf(d) ==
    IF ~d.loaded THEN << >>
    ELSE ActiveRows(d) \o
         FlattenSeq([i \in DOMAIN d.listing |-> SessionRows(d, d.listing[i])])

-----------------------------------------------------------------------------
effectiveRows(d) ==
    IF d.filtered.on THEN d.filtered.at ELSE [i \in DOMAIN d.rows |-> i]

effectiveCursor(d) == IF d.filtered.on THEN d.filterCursor ELSE d.cursor

HasRow(d) == effectiveCursor(d) \in DOMAIN effectiveRows(d)
currentRow(d) == d.rows[effectiveRows(d)[effectiveCursor(d)]]

currentTargetKey(d) == IF HasRow(d) THEN currentRow(d).id ELSE Nothing
SelectedTarget(d) == IF HasRow(d) THEN currentRow(d).target ELSE Nothing

Shown(d) == {d.rows[effectiveRows(d)[i]].id : i \in DOMAIN effectiveRows(d)}

setCursor(d, at) ==
    LET n == Len(effectiveRows(d))
        to == IF at < 1 THEN 1 ELSE IF at > n THEN n ELSE at
    IN IF n = 0 THEN [d EXCEPT !.cursor = 1, !.filterCursor = 1]
       ELSE IF d.filtered.on THEN [d EXCEPT !.filterCursor = to]
       ELSE [d EXCEPT !.cursor = to]

moveCursor(d, delta) ==
    IF effectiveRows(d) = << >> THEN d
    ELSE setCursor(d, effectiveCursor(d) + delta)

clampCursor(d) == setCursor(d, effectiveCursor(d))

(* The first row of that id, else the cursor where it is, within the rows. *)
restoreCursorByID(d, id) ==
    LET here == {i \in DOMAIN effectiveRows(d) :
                     d.rows[effectiveRows(d)[i]].id = id}
    IN IF id = Nothing \/ here = {} THEN clampCursor(d)
       ELSE setCursor(d, CHOOSE i \in here : \A j \in here : i <= j)

-----------------------------------------------------------------------------
(* The places of the rows that match, in their order.                      *)
Hits(rows, typed) ==
    LET upTo[i \in 0..Len(rows)] ==
            IF i = 0 THEN << >>
            ELSE IF \E n \in rows[i].names : Fits[n] >= typed
                 THEN Append(upTo[i - 1], i) ELSE upTo[i - 1]
    IN upTo[Len(rows)]

(* The slice keeps its array: one that is nil stays so if nothing matches. *)
applyFilter(d) ==
    LET hits == Hits(d.rows, d.typed)
    IN [d EXCEPT !.filtered =
           IF d.typed = 0 THEN [on |-> FALSE, at |-> << >>]
           ELSE [on |-> d.filtered.on \/ hits # << >>, at |-> hits]]

rebuildRows(d) ==
    LET next == [d EXCEPT !.rows = RowsOf(d)] IN
    IF d.typed # 0 /\ d.loaded THEN applyFilter(next) ELSE next

(* What replaces data selects the row again that was selected before.      *)
Rebuilt(was, d) == restoreCursorByID(rebuildRows(d), currentTargetKey(was))

SetData(d, listing) ==
    Rebuilt(d, [d EXCEPT !.loaded = TRUE, !.listing = listing])

(* Mutant of SetActiveStatus: the rows are rebuilt under the cursor.       *)
SetActiveStatus_atCursor(d, report) ==
    clampCursor(rebuildRows([d EXCEPT !.report = report]))

SetActiveStatus(d, report) == Rebuilt(d, [d EXCEPT !.report = report])

clearFilter(d) ==
    restoreCursorByID([d EXCEPT !.typed = 0, !.focused = FALSE,
                                !.filtered = [on |-> FALSE, at |-> << >>]],
                      currentTargetKey(d))

Typed(d, n) == restoreCursorByID(applyFilter([d EXCEPT !.typed = n]),
                                 currentTargetKey(d))

updateFilterInput(d, key) ==
    CASE key = "esc" -> clearFilter(d)
      [] key = "backspace" /\ d.typed > 0 -> Typed(d, d.typed - 1)
      [] key = "rune" /\ d.typed < MaxTyped -> Typed(d, d.typed + 1)
      [] OTHER -> d

-----------------------------------------------------------------------------
(* Left, Right and Tab on the row under the cursor.                        *)
Fold(d) ==
    LET r == currentRow(d) IN
    CASE r.level = "session" ->
            Rebuilt(d, [d EXCEPT !.collapsed = @ \cup {r.id[1]}])
      [] r.level = "window" /\ r.id \in d.expanded ->
            Rebuilt(d, [d EXCEPT !.expanded = @ \ {r.id}])
      [] r.level = "pane" -> restoreCursorByID(d, SubSeq(r.id, 1, 2))
      [] OTHER -> d

Unfold(d) ==
    LET r == currentRow(d) IN
    CASE r.level = "session" ->
            Rebuilt(d, [d EXCEPT !.collapsed = @ \ {r.id[1]}])
      [] r.level = "window" /\ r.id \notin d.expanded ->
            Rebuilt(d, [d EXCEPT !.expanded = @ \cup {r.id}])
      [] OTHER -> d

Toggle(d) ==
    LET r == currentRow(d) IN
    IF r.level = "window"
    THEN Rebuilt(d, [d EXCEPT !.expanded = SymDiff(@, {r.id})])
    ELSE d

(* Shift+Tab: the preview of the window's previous pane.                   *)
CyclePane(d) ==
    LET w == currentRow(d).of IN
    IF currentRow(d).level = "window" /\ w.panes > 0
    THEN [d EXCEPT !.pane = (@ - 1 + w.panes) % w.panes, !.preview = Nothing]
    ELSE d

Update(d, key) ==
    CASE d.focused -> updateFilterInput(d, key)
      [] ~d.focused /\ key = "down" -> moveCursor(d, 1)
      [] ~d.focused /\ key = "up" -> moveCursor(d, -1)
      [] ~d.focused /\ key = "pgdown" -> moveCursor(d, 10)
      [] ~d.focused /\ key = "pgup" -> moveCursor(d, -10)
      [] ~d.focused /\ key = "top" -> setCursor(d, 1)
      [] ~d.focused /\ key = "bottom" -> setCursor(d, Len(effectiveRows(d)))
      [] ~d.focused /\ key = "left" /\ HasRow(d) -> Fold(d)
      [] ~d.focused /\ key = "right" /\ HasRow(d) -> Unfold(d)
      [] ~d.focused /\ key = "tab" /\ HasRow(d) -> Toggle(d)
      [] ~d.focused /\ key = "shift+tab" /\ HasRow(d) -> CyclePane(d)
      [] ~d.focused /\ key = "/" ->
            [d EXCEPT !.focused = TRUE,
                      !.filtered = [on |-> TRUE, at |-> d.filtered.at]]
      [] ~d.focused /\ key = "esc" /\ (d.typed # 0 \/ d.filtered.on) ->
            clearFilter(d)
      [] OTHER -> d

-----------------------------------------------------------------------------
(* The preview: of a window it is one pane, of a session its active one.   *)
currentPreviewTarget(d) ==
    IF ~HasRow(d) THEN Nothing
    ELSE LET r == currentRow(d) IN
         CASE r.level = "session" -> r.id
           [] r.level = "window" -> << r.id[1], r.of.index, d.pane >>
           [] r.level = "pane" -> r.target
           [] OTHER -> Nothing

(* A new row begins without a preview, at the first pane.                  *)
maybeResetPreviewPane(d) ==
    IF currentTargetKey(d) = d.lastRow THEN d
    ELSE [d EXCEPT !.lastRow = currentTargetKey(d), !.pane = 0, !.preview = Nothing]

PreviewStale(d) ==
    /\ currentPreviewTarget(d) # Nothing
    /\ d.preview # currentPreviewTarget(d)

SetPreview(d, target) ==
    IF target = currentPreviewTarget(d) THEN [d EXCEPT !.preview = target] ELSE d
=============================================================================
