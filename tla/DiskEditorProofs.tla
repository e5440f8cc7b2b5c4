---- MODULE DiskEditorProofs ----
\* For every height of the window and every length of the list, the selected
\* item exists and is in view.
EXTENDS DiskEditor, TLAPS

\* The two invariants are inductive together: scrolling is only right because
\* no index is negative, and the last page only because the list is not empty.
IInv == TypeOK /\ SelectionVisible

LEMMA InitHolds == Init => IInv
BY RowsAssumption, ItemsAssumption
   DEF Init, IInv, TypeOK, SelectionVisible, Buttons

\* main() brings the selection into the list it has read.
LEMMA ClampedInList ==
  ASSUME TypeOK, NEW n \in 1..MaxItems
  PROVE  Clamped(n) \in 0..n-1
BY ItemsAssumption DEF TypeOK, Clamped

\* The last page begins in the list and shows its last item.
LEMMA LastPageInList ==
  ASSUME TypeOK, nitems > 0
  PROVE  LastPage \in 0..nitems-1 /\ LastPage + Rows >= nitems
BY RowsAssumption, ItemsAssumption DEF TypeOK, LastPage

\* A call shows the selection, wherever it was left.
LEMMA ShowHolds ==
  ASSUME IInv, NEW n \in 1..MaxItems, Show(n)
  PROVE  IInv'
<1>1. Clamped(n) \in 0..n-1
  BY ClampedInList DEF IInv
<1>2. cur_scroll' \in Nat /\ InView(cur_part, cur_scroll)'
  BY <1>1, RowsAssumption DEF Show, InView, IInv, TypeOK
<1>3. TypeOK'
  BY <1>1, <1>2, ItemsAssumption DEF Show, IInv, TypeOK, Buttons
<1>4. QED
  BY <1>1, <1>2, <1>3 DEF Show, IInv, SelectionVisible

\* Whatever moves the selection has to bring it into the list and the view.
LEMMA MoveHolds ==
  ASSUME IInv, pc = "keys", NEW part \in 0..nitems-1, NEW scroll \in Nat,
         InView(part, scroll), Move(part, scroll)
  PROVE  IInv'
<1>1. part \in Nat /\ part < nitems
  BY ItemsAssumption DEF IInv, TypeOK
<1>2. TypeOK'
  BY <1>1 DEF Move, IInv, TypeOK
<1>3. QED
  BY <1>1, <1>2 DEF Move, IInv, SelectionVisible, InView

LEMMA NextHolds ==
  ASSUME IInv, [Next]_vars
  PROVE  IInv'
<1> USE RowsAssumption, ItemsAssumption
<1>a. pc = "keys" => nitems \in Nat /\ nitems > 0 /\ cur_part \in 0..nitems-1
                     /\ cur_scroll \in Nat
                     /\ cur_scroll <= cur_part /\ cur_part < cur_scroll + Rows
  BY DEF IInv, TypeOK, SelectionVisible, InView
<1>1. CASE \E n \in 1..MaxItems : Show(n)
  BY <1>1, ShowHolds
<1>2. CASE ItemNext
  <2> DEFINE scroll == IF cur_part + 1 - cur_scroll >= Rows THEN cur_part + 1
                       ELSE cur_scroll
  <2>1. pc = "keys" /\ Move(cur_part + 1, scroll)
    BY <1>2 DEF ItemNext
  <2>2. cur_part + 1 \in 0..nitems-1 /\ scroll \in Nat
    BY <1>a, <1>2 DEF ItemNext
  <2>3. InView(cur_part + 1, scroll)
    BY <1>a, <2>1 DEF InView
  <2>4. QED
    BY <2>1, <2>2, <2>3, MoveHolds
<1>3. CASE ItemPrev
  <2> DEFINE scroll == IF cur_part - 1 - cur_scroll < 0 THEN cur_part - 1
                       ELSE cur_scroll
  <2>1. pc = "keys" /\ Move(cur_part - 1, scroll)
    BY <1>3 DEF ItemPrev
  <2>2. cur_part - 1 \in 0..nitems-1 /\ scroll \in Nat
    BY <1>a, <1>3 DEF ItemPrev
  <2>3. InView(cur_part - 1, scroll)
    BY <1>a, <2>1, <2>2 DEF InView
  <2>4. QED
    BY <2>1, <2>2, <2>3, MoveHolds
<1>4. CASE PageNext
  <2> DEFINE down == IF cur_scroll + Rows + Rows >= nitems THEN LastPage
                     ELSE cur_scroll + Rows
             part == IF cur_part < down THEN down ELSE cur_part
  <2>1. pc = "keys" /\ Move(part, down)
    BY <1>4 DEF PageNext
  <2>2. LastPage \in 0..nitems-1 /\ LastPage + Rows >= nitems
    BY <1>a, <2>1, LastPageInList DEF IInv
  <2>3. part \in 0..nitems-1 /\ down \in Nat
    BY <1>a, <2>1, <2>2
  <2>4. InView(part, down)
    BY <1>a, <2>1, <2>2 DEF InView
  <2>5. QED
    BY <2>1, <2>3, <2>4, MoveHolds
<1>5. CASE PagePrev
  <2> DEFINE up == IF cur_scroll - Rows < 0 THEN 0 ELSE cur_scroll - Rows
             part == IF cur_part >= up + Rows THEN up ELSE cur_part
  <2>1. pc = "keys" /\ Move(part, up)
    BY <1>5 DEF PagePrev
  <2>2. part \in 0..nitems-1 /\ up \in Nat
    BY <1>a, <2>1
  <2>3. InView(part, up)
    BY <1>a, <2>1 DEF InView
  <2>4. QED
    BY <2>1, <2>2, <2>3, MoveHolds
<1>6. CASE PageFirst
  <2>1. InView(0, 0) /\ 0 \in 0..nitems-1
    BY <1>a, <1>6 DEF PageFirst, InView
  <2>2. QED
    BY <1>6, <2>1, MoveHolds DEF PageFirst
<1>7. CASE PageLast
  <2>1. LastPage \in 0..nitems-1 /\ InView(LastPage, LastPage)
    BY <1>a, <1>7, LastPageInList DEF PageLast, InView, IInv
  <2>2. QED
    BY <1>7, <2>1, MoveHolds DEF PageLast
<1>8. CASE \E b \in Buttons \cup {-1} : Field(b)
  BY <1>8 DEF Field, IInv, TypeOK, SelectionVisible, InView, Buttons
<1>9. CASE \E b \in Buttons : Leave(b)
  BY <1>9 DEF Leave, IInv, TypeOK, SelectionVisible, InView
<1>10. CASE UNCHANGED vars
  BY <1>10 DEF vars, IInv, TypeOK, SelectionVisible, InView
<1>11. QED
  BY <1>1, <1>2, <1>3, <1>4, <1>5, <1>6, <1>7, <1>8, <1>9, <1>10 DEF Next

\* No index is ever negative, and none outgrows the list.
THEOREM TypeCorrect == Spec => []TypeOK
<1>1. IInv => TypeOK
  BY DEF IInv
<1>2. QED
  BY InitHolds, NextHolds, <1>1, PTL DEF Spec

\* The partition acted on is the one the user sees highlighted, after any keys
\* and any growing and shrinking of the list.
THEOREM SelectionIsVisible == Spec => []SelectionVisible
<1>1. IInv => SelectionVisible
  BY DEF IInv
<1>2. QED
  BY InitHolds, NextHolds, <1>1, PTL DEF Spec
====
