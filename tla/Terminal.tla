------------------------------- MODULE Terminal -------------------------------
(* What a console promises: the last Rows lines written to it, each cut at *)
(* Columns characters; the last of them is the one being written.          *)
EXTENDS Integers, SequencesExt

CONSTANTS Rows, Columns, Texts
VARIABLE lines

Init == lines = << <<>> >>

(* The lines a text leaves behind; a text is characters and newlines.      *)
PutLine(ls, c) ==
  CASE c = "\n" -> (IF Len(ls) = Rows THEN Tail(ls) ELSE ls) \o << <<>> >>
    [] c # "\n" /\ Len(ls[Len(ls)]) < Columns ->
         [ls EXCEPT ![Len(ls)] = Append(@, c)]
    [] OTHER -> ls

Put(s) == lines' = FoldLeft(PutLine, lines, s)

Next == \E s \in Texts : Put(s)
Spec == Init /\ [][Next]_lines
=============================================================================
