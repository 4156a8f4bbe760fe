------------------------------ MODULE MCDesktop ------------------------------
(* Desktop for TLC: a frame of a few pixels, a console of two rows of two  *)
(* letters, a cursor of two pixels; "~" has no glyph.                      *)
EXTENDS Desktop

AFont  == [c \in {"a"} |-> {<<0, 0>>}]
Black  == {<<0, 0>>}
White  == {<<1, 0>>}
AButton == [pos |-> <<1, 2>>, size |-> <<2, 1>>]
Middle == <<1, 1>>
SomeTexts == { <<"a">>, <<"~", "\n">>, <<"\n", "a", "~", "a">> }
Around == (-1 .. 3) \X (-1 .. 3)
Steps  == { <<1, 0>>, <<-1, -1>>, <<0, 1>> }
=============================================================================
