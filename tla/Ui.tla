---------------------------------- MODULE Ui ----------------------------------
(***************************************************************************)
(* The toolkit of ui/ in three parts: focus and events in a tree of        *)
(* windows, boxes and grids; the widgets that keep a state of their own;   *)
(* and the arithmetic that lays widgets out and draws them.  Pixels,       *)
(* fonts, colours and texts are left out.                                  *)
(***************************************************************************)
EXTENDS Integers, Sequences, SequencesExt, FiniteSetsExt

CONSTANTS
  STACK_DEPTH,   \* TIKU_KITS_UI_SCREEN_STACK_DEPTH
  MAX_ITEMS,     \* of a menu, a dialog and a tab bar (12, 3 and 6)
  S8BIT,         \* values of a signed byte on each side of 0 (128)
  CAPACITY,      \* bytes of a text box's buffer, its NUL included
  MaxLife,       \* most renders a toast is asked to live
  MaxDays,       \* days a calendar is moved from its first date
  Trees,         \* the widget trees an application may build
  Dates,         \* dates a calendar is set to, as <<year, month, day>>
  Ranges,        \* of a slider, as <<min, max, step>>
  Shapes         \* inputs of the layout and drawing arithmetic

VARIABLES ui, ref
Signed8(v) == ((v + S8BIT) % (2 * S8BIT)) - S8BIT
U16(v) == v % 65536
S16(v) == ((v + 32768) % 65536) - 32768
Clamp(v, lo, hi) == IF v < lo THEN lo ELSE IF v > hi THEN hi ELSE v
\* What a handler gives back: the widget and whether the event is consumed.
Took(s) == [s |-> s, ok |-> TRUE]
Left(s) == [s |-> s, ok |-> FALSE]

(***************************************************************************)
(* Widgets with a state.                                                   *)
(***************************************************************************)
button_handle_event(s, e) == IF e = "ACTIVATE" /\ s.on_click THEN Took(s) ELSE Left(s)
icon_handle_event(s, e) == IF e = "ACTIVATE" /\ s.on_click THEN Took(s) ELSE Left(s)
icon_is_focusable(s) == s.on_click
checkbox_handle_event(s, e) == IF e = "ACTIVATE" THEN Took([s EXCEPT !.checked = 1 - @]) ELSE Left(s)
toggle_handle_event(s, e) == IF e = "ACTIVATE" THEN Took([s EXCEPT !.on = 1 - @]) ELSE Left(s)

\* Buttons of one group share its selected_idx; `id` is the button's group_idx.
radio_handle_event(s, e, id) ==
  IF e # "ACTIVATE" THEN Left(s)
  ELSE IF s.selected_idx = id THEN Took(s)
  ELSE Took([s EXCEPT !.selected_idx = id, !.told = id])
radio_group_init(i) == [k |-> "radio", selected_idx |-> i, told |-> -1]
radio_group_select(s, i) == [s EXCEPT !.selected_idx = i]

slider_init(min, max, step, value) ==
  LET lo == IF max < min THEN max ELSE min
      hi == IF max < min THEN min ELSE max
  IN  [k |-> "slider", min |-> lo, max |-> hi, step |-> IF step > 0 THEN step ELSE 1, value |-> Clamp(value, lo, hi)]
slider_set_value(s, v) == [s EXCEPT !.value = Clamp(v, s.min, s.max)]
slider_handle_event(s, e) ==
  CASE e = "INC" -> Took([s EXCEPT !.value = Clamp(S16(@ + s.step), s.min, s.max)])
    [] e = "DEC" -> Took([s EXCEPT !.value = Clamp(S16(@ - s.step), s.min, s.max)])
    [] e = "ACTIVATE" -> Took([s EXCEPT !.value = IF @ + s.step > s.max THEN s.min ELSE @ + s.step])
    [] OTHER -> Left(s)

\* A list and a menu show `vis` of their rows, from row `scroll` on.
list_init(n, vis) == [k |-> "list", n |-> n, selected |-> IF n > 0 THEN 0 ELSE -1, scroll |-> 0, vis |-> vis]
menu_init(vis) == [k |-> "menu", n |-> 0, selected |-> -1, scroll |-> 0, vis |-> vis]
ensure_visible_up(s) == IF s.selected < s.scroll THEN [s EXCEPT !.scroll = s.selected] ELSE s
ensure_visible(s) ==
  LET up == ensure_visible_up(s)
      to == IF up.selected >= Signed8(up.scroll + up.vis) THEN Signed8(up.selected - Signed8(up.vis) + 1) ELSE up.scroll
  IN  IF s.vis = 0 THEN s ELSE [up EXCEPT !.scroll = IF to < 0 THEN 0 ELSE to]
list_handle_event(s, e) ==
  CASE s.n = 0 -> Left(s)
    [] e = "INC" -> Took(IF s.selected < Signed8(s.n - 1) THEN ensure_visible([s EXCEPT !.selected = @ + 1]) ELSE s)
    [] e = "DEC" -> Took(IF s.selected > 0 THEN ensure_visible([s EXCEPT !.selected = @ - 1]) ELSE s)
    [] e = "ACTIVATE" -> Took(s)
    [] OTHER -> Left(s)
list_set_selected(s, i) ==
  IF s.n = 0 THEN s ELSE ensure_visible([s EXCEPT !.selected = Clamp(i, 0, Signed8(s.n - 1))])
menu_add(s) == IF s.n >= MAX_ITEMS THEN s ELSE [s EXCEPT !.n = @ + 1, !.selected = IF @ < 0 THEN 0 ELSE @]
menu_clear(s) == [s EXCEPT !.n = 0, !.selected = -1, !.scroll = 0]
\* list_render: the rows drawn, top to bottom, up to the end of the rows.
DrawnRows(s) ==
  LET row(i) == Signed8(Clamp(s.scroll, 0, S8BIT) + i)
      end == {i \in 0..(s.vis - 1) : row(i) >= Signed8(s.n)}
  IN  {row(i) : i \in {j \in 0..(s.vis - 1) : \A k \in end : j < k}}

dialog_init == [k |-> "dialog", n |-> 0, selected |-> -1, fired |-> -1]
dialog_add_button(s) == IF s.n >= MAX_ITEMS THEN s ELSE [s EXCEPT !.n = @ + 1, !.selected = IF @ < 0 THEN 0 ELSE @]
dialog_handle_event(s, e) ==
  CASE s.n = 0 -> Left(s)
    [] e = "INC" -> Took([s EXCEPT !.selected = (@ + 1) % s.n])
    [] e = "DEC" -> Took([s EXCEPT !.selected = (@ + s.n - 1) % s.n])
    [] e = "ACTIVATE" -> Took([s EXCEPT !.fired = s.selected])
    [] e = "BACK" -> Took([s EXCEPT !.fired = 0])
    [] OTHER -> Left(s)
tab_bar_init == [k |-> "tab_bar", n |-> 0, selected |-> -1, fired |-> -1]
tab_bar_add(s) == IF s.n >= MAX_ITEMS THEN s ELSE [s EXCEPT !.n = @ + 1, !.selected = IF @ < 0 THEN 0 ELSE @]
tab_bar_set_selected(s, i) == IF s.n = 0 THEN s ELSE [s EXCEPT !.selected = Clamp(i, 0, s.n - 1)]
tab_bar_handle_event(s, e) ==
  LET to(i) == Took([s EXCEPT !.selected = i, !.fired = i])
  IN  CASE s.n = 0 -> Left(s)
        [] e \in {"INC", "ACTIVATE"} -> to((s.selected + 1) % s.n)
        [] e = "DEC" -> to((s.selected + s.n - 1) % s.n)
        [] OTHER -> Left(s)

\* The buffer counts from 0 and ends with a 0 byte; behind it old bytes stay.
textbox_init(cap, kind) ==
  [k |-> "textbox", buffer |-> [i \in 0..(cap - 1) |-> 0], capacity |-> cap, length |-> 0, cursor |-> 0, kind |-> kind]
textbox_insert(s, c) ==
  IF s.length + 1 >= s.capacity THEN s
  ELSE [s EXCEPT !.length = @ + 1, !.cursor = @ + 1,
                 !.buffer = [i \in DOMAIN @ |-> CASE i = s.length + 1 -> 0
                                                  [] i = s.cursor -> c
                                                  [] i > s.cursor /\ i <= s.length -> @[i - 1]
                                                  [] OTHER -> @[i]]]
textbox_backspace(s) ==
  IF s.cursor = 0 THEN s
  ELSE [s EXCEPT !.length = @ - 1, !.cursor = @ - 1,
                 !.buffer = [i \in DOMAIN @ |-> CASE i = s.length - 1 -> 0
                                                  [] i >= s.cursor - 1 /\ i < s.length - 1 -> @[i + 1]
                                                  [] OTHER -> @[i]]]
textbox_set_text(s, text) ==
  LET n == Min({Len(text), s.capacity - 1})
  IN  [s EXCEPT !.length = n, !.cursor = n,
                !.buffer = [i \in DOMAIN @ |-> IF i < n THEN text[i + 1] ELSE IF i = n THEN 0 ELSE @[i]]]
textbox_handle_event(s, e) ==
  CASE e = "DIGIT" -> IF s.kind = "numeric" THEN Took(textbox_insert(s, 1)) ELSE Left(s)
    [] e = "BACK" -> IF s.cursor = 0 THEN Left(s) ELSE Took(textbox_backspace(s))
    [] e = "LEFT" -> IF s.cursor = 0 THEN Left(s) ELSE Took([s EXCEPT !.cursor = @ - 1])
    [] e = "RIGHT" -> IF s.cursor >= s.length THEN Left(s) ELSE Took([s EXCEPT !.cursor = @ + 1])
    [] e = "ACTIVATE" -> Took(s)
    [] OTHER -> Left(s)
\* Where the cursor is drawn: the text is cut at n for the time of the measure.
StrLen(b) == CHOOSE i \in DOMAIN b : b[i] = 0 /\ \A j \in 0..(i - 1) : b[j] # 0
prefix_width(s, n) == IF n >= s.length THEN StrLen(s.buffer) ELSE StrLen([s.buffer EXCEPT ![n] = 0])

is_leap(y) == (y % 4 = 0 /\ y % 100 # 0) \/ y % 400 = 0
days_in_month(y, m) == IF m = 2 THEN (IF is_leap(y) THEN 29 ELSE 28)
  ELSE <<31, 28, 31, 30, 31, 30, 31, 31, 30, 31, 30, 31>>[m]
dow_first_of_month(y, m) ==
  LET MM == IF m < 3 THEN m + 12 ELSE m
      Y == IF m < 3 THEN y - 1 ELSE y
      K == Y % 100
      J == Y \div 100
      h == (1 + (13 * (MM + 1)) \div 5 + K + K \div 4 + J \div 4 + 5 * J) % 7
  IN  (h + 6) % 7
\* add_days is called with 1 and with 7: at most one month is crossed.
add_days(d, delta) ==
  LET dd == d.day + delta
      pm == IF d.month = 1 THEN 12 ELSE d.month - 1
      py == IF d.month = 1 THEN U16(d.year - 1) ELSE d.year
      dim == days_in_month(d.year, d.month)
  IN  CASE dd < 1 -> [d EXCEPT !.year = py, !.month = pm, !.day = dd + days_in_month(py, pm)]
        [] dd > dim -> [d EXCEPT !.year = IF d.month = 12 THEN U16(@ + 1) ELSE @,
                                 !.month = IF @ = 12 THEN 1 ELSE @ + 1, !.day = dd - dim]
        [] OTHER -> [d EXCEPT !.day = dd]
shift_month(d, delta) ==
  LET mm == d.month + delta
      y == IF mm < 1 THEN U16(d.year - 1) ELSE IF mm > 12 THEN U16(d.year + 1) ELSE d.year
      m == ((mm + 11) % 12) + 1
  IN  [d EXCEPT !.year = y, !.month = m, !.day = Min({@, days_in_month(y, m)})]
calendar_set_date(s, y, m, d) ==
  LET mm == IF m \in 1..12 THEN m ELSE 1
  IN  [s EXCEPT !.year = y, !.month = mm, !.day = IF d \in 1..days_in_month(y, mm) THEN d ELSE 1]
calendar_init(y, m, d) == calendar_set_date([k |-> "calendar", year |-> 0, month |-> 1, day |-> 1], y, m, d)
calendar_handle_event(s, e) ==
  CASE e \in {"LEFT", "DEC"} -> Took(add_days(s, -1))
    [] e \in {"RIGHT", "INC"} -> Took(add_days(s, 1))
    [] e = "UP" -> Took(add_days(s, -7))
    [] e = "DOWN" -> Took(add_days(s, 7))
    [] e = "BACK" -> Took(shift_month(s, -1))
    [] e = "MENU" -> Took(shift_month(s, 1))
    [] e = "ACTIVATE" -> Took(s)
    [] OTHER -> Left(s)
\* calendar_render: the cell of a day in the grid of six weeks.
cell_idx(s, day) == dow_first_of_month(s.year, s.month) + day - 1

toast_init == [k |-> "toast", message |-> FALSE, visible |-> FALSE, lifetime_renders |-> 0, renders_seen |-> 0]
toast_show(s, life) == [s EXCEPT !.message = TRUE, !.visible = TRUE, !.lifetime_renders = life, !.renders_seen = 0]
toast_hide(s) == [s EXCEPT !.visible = FALSE]
\* One for ever is counted too: `renders_seen` comes round unnoticed.
toast_render(s) ==
  CASE ~s.visible \/ ~s.message -> s
    [] s.lifetime_renders > 0 /\ s.renders_seen >= s.lifetime_renders -> [s EXCEPT !.visible = FALSE]
    [] OTHER -> [s EXCEPT !.renders_seen = (@ + 1) % (2 * S8BIT)]
ToastDrawn(s) == s.visible /\ s.message /\ ~(s.lifetime_renders > 0 /\ s.renders_seen >= s.lifetime_renders)

(***************************************************************************)
(* Focus and events.  `ref` is the tree: kids[c] lists what the program    *)
(* adds to container c, kind[x] tells what x is, at[x] the cell of a grid's *)
(* child.  ui.n[c] of the kids are added; ui.idx[c] is the focused one, 0  *)
(* for none, and `marked` the widgets whose `focused` flag is set.         *)
(***************************************************************************)
Kids(u, c) == SubSeq(ref.kids[c], 1, u.n[c])
Containers == DOMAIN ref.kids
IsContainer(x) == x \in Containers
Parent(x) == CHOOSE c \in Containers : x \in ToSet(ref.kids[c])

RECURSIVE Focusable(_, _)
box_is_focusable(u, x) == \E c \in ToSet(Kids(u, x)) : Focusable(u, c)
grid_is_focusable(u, x) == \E c \in ToSet(Kids(u, x)) : Focusable(u, c)
Focusable(u, x) ==
  /\ x \notin u.hidden
  /\ CASE ref.kind[x] \in {"vbox", "hbox"} -> box_is_focusable(u, x)
       [] ref.kind[x] = "grid" -> grid_is_focusable(u, x)
       [] ref.kind[x] = "label" -> FALSE
       [] ref.kind[x] = "icon" -> icon_is_focusable(u.leaf[x])
       [] OTHER -> TRUE

\* The first of the places `walk` whose widget can be focused, 0 if there is none.
FirstFocusable(u, c, walk) ==
  LET good == SelectSeq(walk, LAMBDA i : Focusable(u, ref.kids[c][i]))
  IN  IF good = <<>> THEN 0 ELSE Head(good)
\* window: round the children, back to where it began.
find_focusable(u, c, step) ==
  LET n == u.n[c]
      i == u.idx[c]
  IN  FirstFocusable(u, c, [t \in 1..n |-> IF i = 0 /\ step = -1 THEN n - t + 1 ELSE ((i - 1 + step * t) % n) + 1])
\* box: on to the end and no further.
box_find_focusable(u, c, step) ==
  FirstFocusable(u, c, IF step = 1 THEN [t \in 1..(u.n[c] - u.idx[c]) |-> u.idx[c] + t]
                       ELSE [t \in 1..Max({u.idx[c] - 1, 0}) |-> u.idx[c] - t])
\* grid: the nearest child on that side, four times nearer along the way than
\* across it; the one added first if two are as near.
Abs(v) == IF v < 0 THEN -v ELSE v
Beyond(way, dr, dc) ==
  CASE way = "DOWN" -> dr > 0 [] way = "UP" -> dr < 0 [] way = "RIGHT" -> dc > 0 [] way = "LEFT" -> dc < 0
find_in_dir(u, c, way) ==
  LET cur == IF u.idx[c] = 0 THEN <<-1, -1>> ELSE ref.at[ref.kids[c][u.idx[c]]]
      dr(i) == ref.at[ref.kids[c][i]][1] - cur[1]
      dc(i) == ref.at[ref.kids[c][i]][2] - cur[2]
      score(i) == IF way \in {"UP", "DOWN"} THEN Abs(dr(i)) + 4 * Abs(dc(i)) ELSE Abs(dc(i)) + 4 * Abs(dr(i))
      open == {i \in 1..u.n[c] : i # u.idx[c] /\ Focusable(u, ref.kids[c][i]) /\ Beyond(way, dr(i), dc(i))}
      best == {i \in open : \A j \in open : score(i) < score(j) \/ (score(i) = score(j) /\ i <= j)}
  IN  IF best = {} THEN 0 ELSE CHOOSE i \in best : TRUE

\* The mutant forgets to take the mark from the child that had it.
set_focus_keeps_old(u, c, i) ==
  [u EXCEPT !.idx[c] = i, !.marked = @ \union (IF i = 0 THEN {} ELSE {ref.kids[c][i]})]
\* The flags of the direct children only: what is marked inside a box stays so.
set_focus(u, c, i) ==
  LET kids == ToSet(Kids(u, c))
  IN  [u EXCEPT !.idx[c] = i, !.marked = (@ \ kids) \union (IF i = 0 THEN {} ELSE {ref.kids[c][i]})]
\* window_add, box_add and grid_add: the first that can be focused is.
window_add(u, c) ==
  LET more == [u EXCEPT !.n[c] = @ + 1]
  IN  IF u.idx[c] = 0 /\ Focusable(more, ref.kids[c][u.n[c] + 1]) THEN set_focus(more, c, u.n[c] + 1) ELSE more

leaf_handle_event(u, x, e) ==
  LET s == u.leaf[x]
  IN  CASE ref.kind[x] = "button" -> button_handle_event(s, e)
        [] ref.kind[x] = "icon" -> icon_handle_event(s, e)
        [] ref.kind[x] = "checkbox" -> checkbox_handle_event(s, e)
        [] ref.kind[x] = "toggle" -> toggle_handle_event(s, e)
        [] ref.kind[x] = "textbox" -> textbox_handle_event(s, e)
        [] ref.kind[x] = "slider" -> slider_handle_event(s, e)
        [] OTHER -> Left(s)
Reply(u, ok) == [u |-> u, ok |-> ok]
\* Hidden or not, the focused child is given the event.
RECURSIVE HandleEvent(_, _, _)
Forward(u, c, e) == IF u.idx[c] = 0 THEN Reply(u, FALSE) ELSE HandleEvent(u, ref.kids[c][u.idx[c]], e)
Moved(u, c, i) == IF i = 0 THEN Reply(u, FALSE) ELSE Reply(set_focus(u, c, i), TRUE)
box_handle_event(u, c, e) ==
  LET step == IF e = (IF ref.kind[c] = "vbox" THEN "DOWN" ELSE "RIGHT") THEN 1
              ELSE IF e = (IF ref.kind[c] = "vbox" THEN "UP" ELSE "LEFT") THEN -1 ELSE 0
  IN  CASE u.n[c] = 0 -> Reply(u, FALSE)
        [] step # 0 -> Moved(u, c, box_find_focusable(u, c, step))
        [] OTHER -> Forward(u, c, e)
grid_handle_event(u, c, e) ==
  CASE u.n[c] = 0 -> Reply(u, FALSE)
    [] e \in {"UP", "DOWN", "LEFT", "RIGHT"} -> Moved(u, c, find_in_dir(u, c, e))
    [] OTHER -> Forward(u, c, e)
HandleEvent(u, x, e) ==
  CASE ref.kind[x] \in {"vbox", "hbox"} -> box_handle_event(u, x, e)
    [] ref.kind[x] = "grid" -> grid_handle_event(u, x, e)
    [] OTHER -> LET r == leaf_handle_event(u, x, e)
                IN  Reply([u EXCEPT !.leaf[x] = r.s, !.hit = IF r.ok /\ e = "ACTIVATE" THEN x ELSE @], r.ok)
window_event(u, c, e) ==
  LET turn(v, step) == set_focus(v, c, find_focusable(v, c, step))
      r == Forward(u, c, e)
  IN  CASE e = "NEXT" -> turn(u, 1)
        [] e = "PREV" -> turn(u, -1)
        [] e \in {"DOWN", "RIGHT"} -> IF r.ok THEN r.u ELSE turn(r.u, 1)
        [] e \in {"UP", "LEFT"} -> IF r.ok THEN r.u ELSE turn(r.u, -1)
        [] OTHER -> r.u

\* A window may be on the stack twice; the last one stays.
screen_stack_push(u, c) == IF Len(u.stack) >= STACK_DEPTH THEN u ELSE [u EXCEPT !.stack = Append(@, c)]
screen_stack_pop(u) == IF Len(u.stack) <= 1 THEN u ELSE [u EXCEPT !.stack = Front(@)]
screen_stack_event(u, e) ==
  CASE e = "BACK" -> screen_stack_pop(u)
    [] u.stack = <<>> -> u
    [] OTHER -> window_event(u, Last(u.stack), e)

\* The widget drawn as focused on the screen: marked, and all that holds it too.
Shown(u) ==
  LET shown(x) == /\ x \in u.marked
                  /\ LET c == Parent(x) IN c = Last(u.stack) \/ (c \in u.marked /\ Parent(c) = Last(u.stack))
      leaves == IF u.stack = <<>> THEN {} ELSE {x \in u.marked : ~IsContainer(x) /\ shown(x)}
  IN  leaves
FocusInit ==
  /\ ref \in Trees
  /\ ui = [k |-> "focus", n |-> [c \in DOMAIN ref.kids |-> 0], idx |-> [c \in DOMAIN ref.kids |-> 0], marked |-> {},
           hidden |-> {}, leaf |-> ref.leaf, stack |-> <<>>, hit |-> "none", asked |-> {}]
Add(c) == ui.n[c] < Len(ref.kids[c]) /\ ui' = window_add(ui, c)
\* The application sets `visible` itself.
SetVisible(x) ==
  ui' = [ui EXCEPT !.hidden = IF x \in @ THEN @ \ {x} ELSE @ \union {x}]
Event(e) ==
  ui' = screen_stack_event([ui EXCEPT !.hit = "none", !.asked = IF e = "ACTIVATE" THEN Shown(ui) ELSE {}], e)
FocusNext ==
  /\ UNCHANGED ref
  /\ \/ \E c \in Containers : Add(c)
     \/ \E x \in ref.hides : SetVisible(x)
     \/ \E e \in {"NEXT", "PREV", "ACTIVATE", "INC", "BACK", "UP", "DOWN", "LEFT", "RIGHT"} : Event(e)
     \/ \E c \in ref.windows : ui' = screen_stack_push(ui, c)
     \/ ui' = screen_stack_pop(ui)

(***************************************************************************)
(* A widget by itself; `ref` keeps what the calls so far should have made  *)
(* of it.                                                                  *)
(***************************************************************************)
\* tiku_kits_ui_window_render_dirty: what is painted anew, and one rectangle round it.
Rect(x, y, w, h) == [x |-> x, y |-> y, w |-> w, h |-> h]
rect_union(a, b) ==
  LET x0 == Min({a.x, b.x})
      y0 == Min({a.y, b.y})
  IN  CASE b.w = 0 \/ b.h = 0 -> a
        [] a.w = 0 \/ a.h = 0 -> b
        [] OTHER -> Rect(x0, y0, Max({a.x + a.w, b.x + b.w}) - x0, Max({a.y + a.h, b.y + b.h}) - y0)
DirtyKids(s) == {i \in DOMAIN s.kids : s.kids[i].visible /\ s.kids[i].dirty}
window_render_dirty(s) ==
  [s EXCEPT !.kids = [i \in DOMAIN @ |-> IF i \in DirtyKids(s) THEN [@[i] EXCEPT !.dirty = FALSE] ELSE @[i]],
            !.bbox = FoldLeft(LAMBDA box, i : IF i \in DirtyKids(s) THEN rect_union(box, s.kids[i].r) ELSE box,
                              Rect(0, 0, 0, 0), [i \in DOMAIN s.kids |-> i])]

\* A day's place in the calendar of all years, day 1 being Monday, 1 January 1.
DayNumber(y, m, d) ==
  LET p == y - 1
      before == <<0, 31, 59, 90, 120, 151, 181, 212, 243, 273, 304, 334>>[m]
  IN  365 * p + p \div 4 - p \div 100 + p \div 400 + before + (IF m > 2 /\ is_leap(y) THEN 1 ELSE 0) + d
NumberOf(s) == DayNumber(s.year, s.month, s.day)
\* Ideal arithmetic for a slider, without widths.
Slid(s, e) == CASE e = "INC" -> Min({s.value + s.step, s.max}) [] e = "DEC" -> Max({s.value - s.step, s.min})
                [] OTHER -> IF s.value + s.step > s.max THEN s.min ELSE s.value + s.step

WidgetInit ==
  \/ ui \in {list_init(n, v) : n, v \in 0..(S8BIT - 1)} /\ ref = [stale |-> FALSE]
  \/ ui \in {menu_init(v) : v \in 0..(S8BIT - 1)} /\ ref = [stale |-> FALSE]
  \/ ui \in {textbox_init(c, k) : c \in 1..CAPACITY, k \in {"numeric", "text"}}
       /\ ref = [before |-> <<>>, after |-> <<>>]
  \/ ui \in {slider_init(r[1], r[2], r[3], v) : r \in Ranges, v \in {-3, 0, 9}} /\ ref = [value |-> ui.value]
  \/ ui \in {dialog_init, tab_bar_init} /\ ref = [turned |-> 0]
  \/ ui \in {radio_group_init(i) : i \in -1..1} /\ ref = [app |-> TRUE]
  \/ ui \in {calendar_init(d[1], d[2], d[3]) : d \in Dates} /\ ref = [n |-> NumberOf(ui), start |-> NumberOf(ui)]
  \/ ui = toast_init /\ ref = [drawn |-> 0]
  \/ /\ ui \in {[k |-> "window", bbox |-> Rect(0, 0, 0, 0),
                 kids |-> [i \in 1..3 |-> [r |-> r[i], visible |-> TRUE, dirty |-> FALSE]]] :
                 r \in [1..3 -> {Rect(0, 0, 3, 2), Rect(2, 1, 4, 4), Rect(7, 5, 1, 1), Rect(9, 9, 0, 4)}]}
     /\ ref = [painted |-> {}]

RowsNext ==
  \/ \E e \in {"INC", "DEC", "ACTIVATE"} :
       /\ ui' = list_handle_event(ui, e).s
       /\ ref' = [stale |-> ref.stale /\ ui'.selected = ui.selected]
  \/ \E v \in (0..(S8BIT - 1)) \ {ui.vis} : ui' = [ui EXCEPT !.vis = v] /\ ref' = [stale |-> TRUE]
  \/ ui.k = "list" /\ (\E i \in -1..S8BIT : ui' = list_set_selected(ui, i)) /\ ref' = [stale |-> FALSE]
  \/ ui.k = "menu" /\ ui' = menu_add(ui) /\ UNCHANGED ref
  \/ ui.k = "menu" /\ ui' = menu_clear(ui) /\ ref' = [stale |-> FALSE]
TextNext ==
  LET room == ui.length + 1 < ui.capacity
      typed(c) == ref' = IF room THEN [ref EXCEPT !.before = Append(@, c)] ELSE ref
  IN  \/ \E c \in {1, 2} : ui' = textbox_insert(ui, c) /\ typed(c)
      \/ /\ ui' = textbox_handle_event(ui, "DIGIT").s
         /\ IF ui.kind = "numeric" THEN typed(1) ELSE UNCHANGED ref
      \/ /\ ui' = textbox_handle_event(ui, "BACK").s
         /\ ref' = IF ref.before = <<>> THEN ref ELSE [ref EXCEPT !.before = Front(@)]
      \/ /\ ui' = textbox_handle_event(ui, "LEFT").s
         /\ ref' = IF ref.before = <<>> THEN ref
              ELSE [before |-> Front(ref.before), after |-> <<Last(ref.before)>> \o ref.after]
      \/ /\ ui' = textbox_handle_event(ui, "RIGHT").s
         /\ ref' = IF ref.after = <<>> THEN ref
              ELSE [before |-> Append(ref.before, Head(ref.after)), after |-> Tail(ref.after)]
      \/ \E t \in UNION {[1..n -> {1, 2}] : n \in 0..2} :
           /\ ui' = textbox_set_text(ui, t)
           /\ ref' = [before |-> SubSeq(t, 1, Min({Len(t), ui.capacity - 1})), after |-> <<>>]
SliderNext ==
  \/ \E e \in {"INC", "DEC", "ACTIVATE"} :
       ui' = slider_handle_event(ui, e).s /\ ref' = [value |-> Slid([ui EXCEPT !.value = ref.value], e)]
  \/ \E v \in {-40, 1, 40} : ui' = slider_set_value(ui, v) /\ ref' = [value |-> Clamp(v, ui.min, ui.max)]
ButtonsNext ==
  \/ \E e \in {"INC", "DEC", "ACTIVATE", "BACK"} :
       /\ ui' = (IF ui.k = "dialog" THEN dialog_handle_event(ui, e) ELSE tab_bar_handle_event(ui, e)).s
       /\ ref' = [turned |-> CASE e = "INC" \/ (e = "ACTIVATE" /\ ui.k = "tab_bar") -> ref.turned + 1
                               [] e = "DEC" -> ref.turned - 1 [] OTHER -> ref.turned]
       /\ ref'.turned \in -MAX_ITEMS..(2 * MAX_ITEMS)
  \/ /\ ui' = IF ui.k = "dialog" THEN dialog_add_button(ui) ELSE tab_bar_add(ui)
     /\ ref' = [turned |-> ui'.selected]
  \/ ui.k = "tab_bar" /\ (\E i \in -1..MAX_ITEMS : ui' = tab_bar_set_selected(ui, i))
       /\ ref' = [turned |-> ui'.selected]
RadioNext ==
  \/ \E id \in 0..1 : ui' = radio_handle_event(ui, "ACTIVATE", id).s /\ ref' = [app |-> ref.app /\ ui' = ui]
  \/ \E i \in -1..1 : ui' = radio_group_select(ui, i) /\ ref' = [app |-> TRUE]
CalendarNext ==
  \/ \E e \in {"LEFT", "RIGHT", "UP", "DOWN"} :
       /\ ui' = calendar_handle_event(ui, e).s
       /\ ref' = [ref EXCEPT !.n = @ + (CASE e = "LEFT" -> -1 [] e = "RIGHT" -> 1 [] e = "UP" -> -7 [] e = "DOWN" -> 7)]
       /\ Abs(ref'.n - ref.start) <= MaxDays
  \/ \E e \in {"BACK", "MENU"} :
       /\ ui' = calendar_handle_event(ui, e).s
       \* The same day of the month before or behind, or that month's last.
       /\ LET y == ui.year + (IF e = "BACK" /\ ui.month = 1 THEN -1 ELSE IF e = "MENU" /\ ui.month = 12 THEN 1 ELSE 0)
              m == ((ui.month + (IF e = "BACK" THEN 10 ELSE 0)) % 12) + 1
          IN  ref' = [ref EXCEPT !.n = Min({DayNumber(y, m, ui.day),
                                            (IF m = 12 THEN DayNumber(y + 1, 1, 1) ELSE DayNumber(y, m + 1, 1)) - 1})]
       /\ Abs(ref'.n - ref.start) <= MaxDays
ToastNext ==
  \/ \E life \in 0..MaxLife : ui' = toast_show(ui, life) /\ ref' = [drawn |-> 0]
  \/ ui' = toast_hide(ui) /\ UNCHANGED ref
  \/ ui' = toast_render(ui) /\ ref' = [drawn |-> Min({ref.drawn + (IF ToastDrawn(ui) THEN 1 ELSE 0), MaxLife + 1})]
DirtyNext ==
  \/ \E i \in 1..3 : ui' = [ui EXCEPT !.kids[i].dirty = TRUE] /\ UNCHANGED ref
  \/ \E i \in 1..3 : ui' = [ui EXCEPT !.kids[i].visible = ~@] /\ UNCHANGED ref
  \/ ui' = window_render_dirty(ui) /\ ref' = [painted |-> {ui.kids[i].r : i \in DirtyKids(ui)}]
WidgetNext ==
  CASE ui.k \in {"list", "menu"} -> RowsNext
    [] ui.k = "textbox" -> TextNext
    [] ui.k = "slider" -> SliderNext
    [] ui.k \in {"dialog", "tab_bar"} -> ButtonsNext
    [] ui.k = "radio" -> RadioNext
    [] ui.k = "calendar" -> CalendarNext
    [] ui.k = "toast" -> ToastNext
    [] ui.k = "window" -> DirtyNext

(***************************************************************************)
(* Layout and drawing.  A shape `s` is a widget's size and what it shows.  *)
(* A span is <<first, size>>, counted from the widget's own edge.          *)
(***************************************************************************)
ShapeInit == ui \in Shapes /\ ref = 0
\* Boxes: a child has a natural size along (main) and across (cross) the box.
Sum(f, S) == FoldSet(LAMBDA i, t : t + f[i], 0, S)
box_intrinsic_size(s) ==
  LET n == Len(s.kids)
      main == Sum([i \in 1..n |-> s.kids[i].main], 1..n) + (IF n > 1 THEN (n - 1) * s.spacing ELSE 0) + 2 * s.pad
  IN  [main |-> Min({main, 65535}), cross |-> U16(Max({s.kids[i].cross : i \in 1..n} \union {0}) + 2 * s.pad_cross)]
BoxRoom(s) ==
  LET n == Len(s.kids)
      avail == U16(s.main - 2 * s.pad)
      spacing_total == IF n > 1 THEN U16((n - 1) * s.spacing) ELSE 0
      inner == avail - Min({spacing_total, avail})
      fixed_total == U16(Sum([i \in 1..n |-> s.kids[i].main], {i \in 1..n : s.kids[i].flex = 0}))
  IN  [avail |-> avail, inner |-> inner, fixed |-> fixed_total,
       pool |-> IF inner > fixed_total THEN inner - fixed_total ELSE 0,
       fits |-> spacing_total <= avail /\ fixed_total <= inner, cross |-> U16(s.cross - 2 * s.pad_cross)]
box_main(s, i) ==
  LET room == BoxRoom(s)
      flex_sum == Sum([j \in DOMAIN s.kids |-> s.kids[j].flex], DOMAIN s.kids)
      own == IF s.kids[i].flex > 0 THEN (room.pool * s.kids[i].flex) \div flex_sum ELSE s.kids[i].main
  IN  Min({own, room.avail})
box_cross(s, i) ==
  LET inner == BoxRoom(s).cross
      own == Min({s.kids[i].cross, inner})
      space == CASE s.align = "CENTER" -> (inner - own) \div 2 [] s.align = "RIGHT" -> inner - own [] OTHER -> 0
  IN  <<s.pad_cross + space, own>>
box_render(s) ==
  LET from(i) == s.pad + Sum([j \in 1..(i - 1) |-> box_main(s, j) + s.spacing], 1..(i - 1))
  IN  [i \in DOMAIN s.kids |-> [main |-> <<from(i), box_main(s, i)>>, cross |-> box_cross(s, i)]]

\* One axis of a grid: place `at`, over `span` of n tracks.
cell_rect(s, at, span) ==
  LET inner == U16(s.w - 2 * s.pad)
      gap == IF s.n > 1 THEN (s.n - 1) * s.spacing ELSE 0
      cell == IF inner > gap THEN (inner - gap) \div s.n ELSE 0
  IN  <<s.pad + at * (cell + s.spacing), span * cell + (span - 1) * s.spacing>>

status_bar_slots(w) == LET slot == w \div 3 IN <<<<0, slot>>, <<slot, slot>>, <<2 * slot, w - 2 * slot>>>>
tab_bar_tabs(w, n) ==
  LET tab == w \div n IN [i \in 1..n |-> <<(i - 1) * tab, IF i = n THEN w - (i - 1) * tab ELSE tab>>]
dialog_buttons(w, n) == LET bw == U16(w - 12 - 4 * (n - 1)) \div n IN [i \in 1..n |-> <<6 + (i - 1) * (bw + 4), bw>>]
\* The gap is given up when it would be wider than what a bar has.
bar_spans(w, n, gap0) ==
  LET gap == IF (w + gap0) \div n <= gap0 THEN 0 ELSE gap0
      span == w + gap
      left(i) == ((i - 1) * span) \div n
      right(i) == (i * span) \div n - gap
  IN  SelectSeq([i \in 1..n |-> <<left(i), right(i) - left(i)>>], LAMBDA b : b[2] > 0)
bar_height(h, v, max, all) ==
  LET hi == Max(all \union {0})
      top == IF max > 0 THEN max ELSE IF hi > 0 THEN hi ELSE 1
  IN  (Clamp(v, 0, top) * (h - 1)) \div top
battery_cells(w, level) ==
  LET body == w - Max({w \div 6, 2})
      cell == (body - 4) \div 4
  IN  IF body <= 4 THEN <<>> ELSE [i \in 1..Min({level, 4}) |-> <<2 + (i - 1) * cell, cell>>]
signal_bars(w) == LET bar == Max({(w - 3) \div 4, 1}) IN [i \in 1..4 |-> <<(i - 1) * (bar + 1), bar>>]
progress_fill(w, value, max) ==
  IF value <= 0 \/ w < 4 THEN 0 ELSE IF value >= max THEN w - 2 ELSE (value * (w - 2)) \div max
progress_set(max, v) == Clamp(v, 0, max)
gauge_filled(span, min, max, value) ==
  IF max - min > 0 /\ value > min THEN (span * (Min({value, max}) - min)) \div (max - min) ELSE 0
thumb_cx(w, min, max, value) ==
  2 + (IF max - min <= 0 THEN 0 ELSE ((value - min) * Max({w - 4, 1})) \div (max - min))

\* C's quotient is cut towards 0; here both signs are the same or `a` is 0.
Quot(a, b) == IF b < 0 THEN (-a) \div (-b) ELSE a \div b
LowHigh(values) == LET lo == Min(values) hi == Max(values) IN <<lo, IF lo = hi THEN S16(lo + 1) ELSE hi>>
compute_x_range(s) == IF s.x_dom[1] # s.x_dom[2] THEN s.x_dom ELSE IF s.xs = <<>> THEN <<0, 1>>
  ELSE LowHigh(ToSet(s.xs))
compute_y_range(s) == IF s.y_dom[1] # s.y_dom[2] THEN s.y_dom ELSE IF s.ys = <<>> THEN <<0, 1>>
  ELSE LowHigh(ToSet(s.ys))
ClampTwice(v, lo, hi) == LET u == IF v < lo THEN lo ELSE v IN IF u > hi THEN hi ELSE u
map_point(s, i) ==
  LET x == compute_x_range(s)
      y == compute_y_range(s)
      dx == ClampTwice(s.xs[i], x[1], x[2])
      dy == ClampTwice(s.ys[i], y[1], y[2])
  IN  <<Quot((dx - x[1]) * (s.w - 1), x[2] - x[1]), Quot((y[2] - dy) * (s.h - 1), y[2] - y[1])>>
compute_range(s) == IF s.y_dom[1] # s.y_dom[2] THEN s.y_dom ELSE IF s.ys = <<>> THEN <<0, 1>> ELSE LowHigh(ToSet(s.ys))
sample_to_y(s, i) ==
  LET r == compute_range(s)
  IN  Quot((r[2] - ClampTwice(s.ys[i], r[1], r[2])) * (s.h - 1), r[2] - r[1])
sparkline_x(s, i) == IF Len(s.ys) > 1 THEN ((i - 1) * (s.w - 1)) \div (Len(s.ys) - 1) ELSE 0

\* tiku_kits_ui_focus_walk: `spots` are the centres of the children that can be
\* focused, `from` the place walked from.
focus_walk(spots, from, way) ==
  LET dx(c) == c[1] - from[1]
      dy(c) == c[2] - from[2]
      score(c) == IF way \in {"UP", "DOWN"} THEN Abs(dy(c)) + 4 * Abs(dx(c)) ELSE Abs(dx(c)) + 4 * Abs(dy(c))
      open == {c \in spots : Beyond(way, dy(c), dx(c))}
  IN  {c \in open : \A d \in open : score(c) <= score(d)}
\* Without a current child the walk begins at the corner it leads away from.
walk_start(way) == <<IF way = "LEFT" THEN 32767 ELSE -1, IF way = "UP" THEN 32767 ELSE -1>>

(***************************************************************************)
(* Properties.                                                             *)
(***************************************************************************)
\* Set_focus, window_event, box and grid_handle_event: exactly the child that has
\* the focus is marked among its siblings.  One ACTIVATE acts on one widget, the
\* one drawn as focused on the top window, and on none else.  While a child of a
\* window can be focused, NEXT finds one, and PREV undoes it.  Every widget that
\* can be focused is reached by keys, out of and into boxes and grids (in no box
\* or grid of its own kind: there its container takes the keys).
Marks == \A c \in Containers :
  ui.marked \intersect ToSet(ref.kids[c]) = IF ui.idx[c] = 0 THEN {} ELSE {ref.kids[c][ui.idx[c]]}
OneActs == Cardinality(ui.asked) <= 1 /\ (ui.hit # "none" => ui.asked = {ui.hit})
NextFinds == \A w \in ref.windows :
  LET good(i) == i \in 1..ui.n[w] /\ Focusable(ui, ref.kids[w][i])
      on == window_event(ui, w, "NEXT")
  IN  (\E i \in 1..ui.n[w] : good(i)) => good(on.idx[w])
    /\ (good(ui.idx[w]) => window_event(on, w, "PREV").idx[w] = ui.idx[w])
Keys(u, w, es) == FoldLeft(LAMBDA v, e : window_event(v, w, e), u, es)
Ways == {"UP", "DOWN", "LEFT", "RIGHT"}
Strokes == {<<>>} \union {<<a>> : a \in Ways} \union {<<a, b>> : a, b \in Ways}
Reached(u, w, x) ==
  LET c == Parent(x)
      top == IF c = w THEN x ELSE c
      u2 == CHOOSE v \in {Keys(u, w, [i \in 1..n |-> "NEXT"]) : n \in 0..u.n[w]} :
              v.idx[w] # 0 /\ ref.kids[w][v.idx[w]] = top
  IN  \E es \in Strokes : LET v == Keys(u2, w, es)
                          IN  /\ v.idx[w] # 0 /\ ref.kids[w][v.idx[w]] = top
                              /\ c # w => v.idx[c] # 0 /\ ref.kids[c][v.idx[c]] = x
AllReached == \A w \in ref.windows : \A top \in ToSet(Kids(ui, w)) :
  Focusable(ui, top) =>
    IF IsContainer(top) THEN \A x \in ToSet(Kids(ui, top)) : Focusable(ui, x) => Reached(ui, w, x)
      ELSE Reached(ui, w, top)
\* An arrow in a grid goes to its side, passes over nobody in its own line, and
\* leaves the grid only when nobody is there.
GridMoves == \A c \in {d \in Containers : d \in DOMAIN ref.kind /\ ref.kind[d] = "grid"} :
  LET cell(i) == ref.at[ref.kids[c][i]]
      here == cell(ui.idx[c])
      side(way) == {i \in 1..ui.n[c] : /\ Focusable(ui, ref.kids[c][i])
                                      /\ Beyond(way, cell(i)[1] - here[1], cell(i)[2] - here[2])}
      steps(i) == Abs(cell(i)[1] - here[1]) + Abs(cell(i)[2] - here[2])
      line(i) == cell(i)[1] = here[1] \/ cell(i)[2] = here[2]
  IN  ui.idx[c] # 0 => \A way \in Ways :
        LET r == grid_handle_event(ui, c, way)
        IN  IF side(way) = {} THEN ~r.ok
            ELSE /\ r.ok /\ r.u.idx[c] \in side(way)
                 /\ \A i \in side(way) : line(i) => line(r.u.idx[c]) /\ steps(r.u.idx[c]) <= steps(i)
\* Enough arrows of one kind lead out of a box or grid, if there is a way on.
NoTrap == \A w \in ref.windows :
  LET i == ui.idx[w]
      c == ref.kids[w][i]
  IN  i # 0 /\ IsContainer(c) /\ (\E j \in 1..ui.n[w] : j # i /\ Focusable(ui, ref.kids[w][j])) =>
        \A way \in Ways : \E n \in 1..(ui.n[c] + 1) : Keys(ui, w, [k \in 1..n |-> way]).idx[w] # i
FocusSound == Marks /\ OneActs /\ NextFinds /\ GridMoves /\ NoTrap /\ AllReached

\* The handlers of the widgets.  List and menu: the selected row exists and is among
\* the rows drawn, as soon as it moves after a change of size.  Text box: the bytes
\* are the text before and behind the cursor, within the buffer.  Calendar: a date
\* that exists, as far from the last as the key says, in the column of its day of
\* the week.  Slider: where unbounded arithmetic would put it.  Toast: drawn as often
\* as asked.  Radio: the program is told every choice of the user.  A repaint's
\* rectangle holds all that was painted and no more than that needs.
RowShown ==
  /\ IF ui.n = 0 THEN ui.selected = -1 ELSE ui.selected \in 0..(ui.n - 1)
  /\ DrawnRows(ui) \subseteq 0..(ui.n - 1)
  /\ ui.n > 0 /\ ui.vis > 0 /\ ~ref.stale => ui.selected \in DrawnRows(ui)
TextKept ==
  LET text == ref.before \o ref.after
  IN  /\ ui.length = Len(text) /\ ui.cursor = Len(ref.before) /\ ui.length < ui.capacity
      /\ \A i \in 1..Len(text) : ui.buffer[i - 1] = text[i]
      /\ ui.buffer[ui.length] = 0 /\ prefix_width(ui, ui.cursor) = ui.cursor
DateRight ==
  /\ ui.month \in 1..12 /\ ui.day \in 1..days_in_month(ui.year, ui.month) /\ NumberOf(ui) = ref.n
  /\ \A d \in 1..days_in_month(ui.year, ui.month) :
       cell_idx(ui, d) \in 0..41 /\ cell_idx(ui, d) % 7 = DayNumber(ui.year, ui.month, d) % 7
Hull(S) == LET x0 == Min({r.x : r \in S})
               y0 == Min({r.y : r \in S})
           IN  Rect(x0, y0, Max({r.x + r.w : r \in S}) - x0, Max({r.y + r.h : r \in S}) - y0)
RepaintTold ==
  LET seen == {r \in ref.painted : r.w > 0 /\ r.h > 0}
  IN  seen # {} => ui.bbox = Hull(seen)
WidgetSound ==
  CASE ui.k \in {"list", "menu"} -> RowShown
    [] ui.k = "textbox" -> TextKept
    [] ui.k = "slider" -> ui.value = ref.value /\ ui.value \in ui.min..ui.max
    [] ui.k \in {"dialog", "tab_bar"} ->
         IF ui.n = 0 THEN ui.selected = -1 ELSE ui.selected = ref.turned % ui.n /\ ui.fired \in -1..(ui.n - 1)
    [] ui.k = "radio" -> ~ref.app => ui.told = ui.selected_idx
    [] ui.k = "calendar" -> DateRight
    [] ui.k = "toast" -> ui.visible /\ ui.lifetime_renders > 0 => ref.drawn = ui.renders_seen
         /\ ref.drawn <= ui.lifetime_renders
    [] ui.k = "window" -> RepaintTold

\* The renderers.  Children and cells lie within their container, in order and
\* apart, when the container has room for them, and a container of its intrinsic
\* size has.  What is drawn of a value, a bar or a sample lies within the widget and
\* is full just when the value is.
InOrder(spans, lo, hi) ==
  /\ \A i \in DOMAIN spans : spans[i][1] >= lo /\ spans[i][2] >= 0 /\ spans[i][1] + spans[i][2] <= hi
  /\ \A i \in 1..(Len(spans) - 1) : spans[i][1] + spans[i][2] <= spans[i + 1][1]
BoxSound(s) ==
  LET room == BoxRoom(s)
      out == box_render(s)
      flexed == {i \in DOMAIN s.kids : s.kids[i].flex > 0}
      own == box_intrinsic_size(s)
      grown == [s EXCEPT !.main = own.main, !.cross = own.cross]
      mains(o) == [i \in DOMAIN s.kids |-> o[i].main]
  IN  /\ 2 * s.pad <= s.main /\ 2 * s.pad_cross <= s.cross =>
           /\ \A i \in DOMAIN s.kids : InOrder(<<out[i].cross>>, s.pad_cross, s.cross - s.pad_cross)
           /\ room.fits => InOrder(mains(out), s.pad, s.main - s.pad)
           /\ room.fits /\ flexed # {} =>
                room.pool - Sum([i \in flexed |-> out[i].main[2]], flexed) \in 0..(Cardinality(flexed) - 1)
      /\ flexed = {} => \A i \in DOMAIN s.kids :
           /\ box_render(grown)[i].main[2] = s.kids[i].main /\ box_render(grown)[i].cross[2] = s.kids[i].cross
           /\ InOrder(mains(box_render(grown)), s.pad, own.main - s.pad)
GridSound(s) ==
  2 * s.pad + (s.n - 1) * s.spacing <= s.w =>
    \A a, b \in 0..(s.n - 1) : \A m, n \in 1..s.n :
      a + m <= b /\ b + n <= s.n => InOrder(<<cell_rect(s, a, m), cell_rect(s, b, n)>>, s.pad, s.w - s.pad)
StripSound(s) ==
  LET bars == bar_spans(s.w, s.n, s.gap)
  IN  /\ InOrder(status_bar_slots(s.w), 0, s.w) /\ InOrder(tab_bar_tabs(s.w, s.n), 0, s.w)
      /\ s.w >= 12 + 4 * (s.n - 1) => InOrder(dialog_buttons(s.w, s.n), 6, s.w - 6)
      /\ InOrder(bars, 0, s.w) /\ (s.n <= s.w => Len(bars) = s.n)
      /\ s.w >= 6 => InOrder(battery_cells(s.w, s.n), 0, s.w)
      /\ s.w >= 8 => InOrder(signal_bars(s.w), 0, s.w)
ValueSound(s) ==
  LET max == IF s.max > 0 THEN s.max ELSE 100
      fill == progress_fill(s.w, progress_set(max, s.value), max)
      arc == gauge_filled(270, s.min, s.max, s.value)
      v == Clamp(s.value, s.min, s.max)
      tall == bar_height(s.w, s.value, s.max, {s.value, s.min})
  IN  /\ s.w >= 4 => fill \in 0..(s.w - 2) /\ (fill = s.w - 2 <=> s.value >= max)
      /\ s.min < s.max => arc \in 0..270 /\ (arc = 270 <=> s.value >= s.max)
      /\ s.w >= 5 /\ s.min < s.max =>
           /\ thumb_cx(s.w, s.min, s.max, v) \in 2..(s.w - 2)
           /\ thumb_cx(s.w, s.min, s.max, s.min) = 2 /\ thumb_cx(s.w, s.min, s.max, s.max) = s.w - 2
      /\ tall \in 0..(s.w - 1)
PlotSound(s) ==
  LET at(i) == map_point(s, i)
      plain == s.x_dom[1] = s.x_dom[2] /\ s.y_dom[1] = s.y_dom[2]
  IN  /\ \A i \in DOMAIN s.ys : at(i) \in (0..(s.w - 1)) \X (0..(s.h - 1)) /\ sample_to_y(s, i) \in 0..(s.h - 1)
                                 /\ sparkline_x(s, i) \in 0..(s.w - 1)
      /\ plain => \A i, j \in DOMAIN s.ys : (s.xs[i] < s.xs[j] => at(i)[1] <= at(j)[1])
           /\ (s.ys[i] < s.ys[j] => at(i)[2] >= at(j)[2])
WalkSound(s) ==
  /\ \A from \in s.spots, way \in Ways :
       LET next == focus_walk(s.spots, from, way)
       IN  \A c \in s.spots : Beyond(way, c[2] - from[2], c[1] - from[1]) => next # {}
         /\ from \notin focus_walk(s.spots, from, way)
  /\ \A way \in Ways : focus_walk(s.spots, walk_start(way), way) # {}
ShapeSound(s) ==
  CASE s.k = "box" -> BoxSound(s)
    [] s.k = "grid" -> GridSound(s)
    [] s.k = "strip" -> StripSound(s)
    [] s.k = "value" -> ValueSound(s)
    [] s.k = "plot" -> PlotSound(s)
    [] s.k = "walk" -> WalkSound(s)
=============================================================================
