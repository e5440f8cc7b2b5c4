---- MODULE DiskEditor ----
\* The list of the partition editor (diskeditor.c) as main() of partedit.c
\* shows it again and again: which item is selected, which items are in view,
\* and what becomes of both when the list has grown or shrunk in between.
EXTENDS Integers

CONSTANTS
  Rows,      \* lines of the list's window: partlist_height - 2
  MaxItems   \* bound: the longest list of devices and partitions

ASSUME RowsAssumption == Rows \in Nat \ {0}
ASSUME ItemsAssumption == MaxItems \in Nat \ {0}

VARIABLES
  pc,         \* "main" between two calls of diskeditor_show(), "keys" in one
  nitems,     \* items in the list shown
  selected,   \* main()'s i and nscroll, kept from call to call
  nscroll,
  cur_part,   \* the same two inside a call
  cur_scroll,
  cur_button

vars == <<pc, nitems, selected, nscroll, cur_part, cur_scroll, cur_button>>

Buttons == 0..5    \* Create, Delete, Modify, Revert, Auto, Finish

Init ==
  /\ pc = "main" /\ nitems = 0
  /\ selected = 0 /\ nscroll = 0
  /\ cur_part = 0 /\ cur_scroll = 0 /\ cur_button = 5

-----------------------------------------------------------------------------
InView(part, scroll) == scroll <= part /\ part < scroll + Rows

\* Mutant: main() without its check of i.
ClampedNever(n) == selected

\* main() pulls a selection past the end of the list back, diskeditor_show()
\* scrolls to the selection where the old scrolling does not show it.
Clamped(n) == IF selected >= n THEN n - 1 ELSE selected

\* The list is read again: whatever was done meanwhile, it has some items.
Show(n) ==
  /\ pc = "main"
  /\ nitems' = n
  /\ selected' = Clamped(n)
  /\ cur_part' = Clamped(n)
  /\ cur_scroll' = IF InView(Clamped(n), nscroll) THEN nscroll ELSE Clamped(n)
  /\ cur_button' = 5
  /\ pc' = "keys"
  /\ UNCHANGED nscroll

Move(part, scroll) ==
  /\ cur_part' = part
  /\ cur_scroll' = scroll
  /\ UNCHANGED <<pc, nitems, selected, nscroll, cur_button>>

ItemNext ==
  /\ pc = "keys"
  /\ cur_part # nitems - 1
  /\ Move(cur_part + 1,
          IF cur_part + 1 - cur_scroll >= Rows THEN cur_part + 1 ELSE cur_scroll)

ItemPrev ==
  /\ pc = "keys"
  /\ cur_part # 0
  /\ Move(cur_part - 1,
          IF cur_part - 1 - cur_scroll < 0 THEN cur_part - 1 ELSE cur_scroll)

\* The last full window of the list, or its beginning.
LastPage == IF nitems - Rows < 0 THEN 0 ELSE nitems - Rows

PageNext ==
  /\ pc = "keys"
  /\ LET down == IF cur_scroll + Rows + Rows >= nitems THEN LastPage
                 ELSE cur_scroll + Rows
     IN Move(IF cur_part < down THEN down ELSE cur_part, down)

PagePrev ==
  /\ pc = "keys"
  /\ LET up == IF cur_scroll - Rows < 0 THEN 0 ELSE cur_scroll - Rows
     IN Move(IF cur_part >= up + Rows THEN up ELSE cur_part, up)

PageFirst == pc = "keys" /\ Move(0, 0)
PageLast == pc = "keys" /\ Move(LastPage, LastPage)

\* TAB and the arrows: dialog(3) names the next button, or -1 outside of them.
Field(b) ==
  /\ pc = "keys"
  /\ cur_button' = IF b < 0 THEN 0 ELSE b
  /\ UNCHANGED <<pc, nitems, selected, nscroll, cur_part, cur_scroll>>

\* Enter takes the current button; a hot key or the mouse names one.
Leave(b) ==
  /\ pc = "keys"
  /\ cur_button' = b
  /\ selected' = cur_part /\ nscroll' = cur_scroll
  /\ pc' = "main"
  /\ UNCHANGED <<nitems, cur_part, cur_scroll>>

Next ==
  \/ \E n \in 1..MaxItems : Show(n)
  \/ ItemNext
  \/ ItemPrev
  \/ PageNext
  \/ PagePrev
  \/ PageFirst
  \/ PageLast
  \/ \E b \in Buttons \cup {-1} : Field(b)
  \/ \E b \in Buttons : Leave(b)

Spec == Init /\ [][Next]_vars

-----------------------------------------------------------------------------
\* Every variable has a value of its type: no index is negative.
TypeOK ==
  /\ pc \in {"main", "keys"}
  /\ nitems \in 0..MaxItems
  /\ selected \in Nat /\ nscroll \in Nat
  /\ cur_part \in Nat /\ cur_scroll \in Nat
  /\ cur_button \in Buttons

\* The item a button acts on is one of the list just read, and the user sees
\* it highlighted: however the list was paged, and although scrolling and
\* selection are those of a list that may have been longer or shorter.
SelectionVisible ==
  pc = "keys" => /\ cur_part < nitems
                 /\ InView(cur_part, cur_scroll)

====
