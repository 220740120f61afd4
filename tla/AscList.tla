------------------------------- MODULE AscList -------------------------------
(***************************************************************************)
(* asc_list_t (core/list.c, core/list.h): an array of pointers with a      *)
(* cursor of its own, which insertions and removals adjust so that a loop  *)
(* over the cursor may change the list.  `current' counts from 0 as in the *)
(* code.  How much memory is allocated for the array is left out.          *)
(***************************************************************************)
EXTENDS Naturals, Sequences, SequencesExt

EmptyList == [items |-> << >>, current |-> 0]

Count(l) == Len(l.items)

Eol(l) == l.current >= Count(l)

(* asc_list_data; the caller has checked for the end of the list *)
Data(l) == l.items[l.current + 1]

First(l) == [l EXCEPT !.current = 0]

Advance(l) ==
    [l EXCEPT !.current = IF @ < Count(l) THEN @ + 1 ELSE Count(l)]

InsertTail(l, x) == [l EXCEPT !.items = Append(@, x)]

(* The cursor moves along with the elements behind the removed one, and is *)
(* never left beyond the end.                                              *)
RemoveIndex(l, idx) ==
    LET left == Count(l) - 1
        cursor == IF idx < l.current THEN l.current - 1 ELSE l.current
    IN  [items |-> RemoveAt(l.items, idx + 1),
         current |-> IF cursor > left THEN left ELSE cursor]

RemoveCurrent(l) == RemoveIndex(l, l.current)

(* the first element equal to x, if there is one *)
RemoveItem(l, x) ==
    LET at == {i \in DOMAIN l.items : l.items[i] = x}
    IN  IF at = {} THEN l
        ELSE RemoveIndex(l, (CHOOSE i \in at : \A j \in at : i <= j) - 1)

Elements(l) == {l.items[i] : i \in DOMAIN l.items}

IsList(l, S) ==
    /\ l.items \in Seq(S)
    /\ l.current \in 0..Count(l)
=============================================================================
