-------------------------- MODULE MCScreenNavigation --------------------------
(***************************************************************************)
(* ScreenNavigation with three managers: the first has a current row,      *)
(* hidden until the user asks for all rows; the second an update and a     *)
(* delayed row; the third a blocked row that nothing can be done about.    *)
(* Two rows fit the terminal.  The first character typed matches two rows, *)
(* the second one of them, the third none.                                 *)
(***************************************************************************)
EXTENDS ScreenNavigation

MCRow(m, visible, update, options, removable) ==
  [manager |-> m, visible |-> visible, update |-> update, options |-> options, removable |-> removable]

MCView == <<
  MCRow(1, FALSE, FALSE, <<>>, TRUE),
  MCRow(2, TRUE, TRUE, <<"recommended", "exact">>, FALSE),
  MCRow(2, TRUE, FALSE, <<"forced">>, FALSE),
  MCRow(3, TRUE, FALSE, <<>>, FALSE) >>

MCMatches == << {1, 2}, {2}, {} >>

=============================================================================
