--------------------------- MODULE MCCmThreadSpace ---------------------------
(* Boards of even, odd and narrow sizes; blocks smaller than a board, of a    *)
(* single row, of odd width, and wider than a narrow board.                   *)
EXTENDS CmThreadSpace

MCBoards == {<<4, 4>>, <<6, 4>>, <<5, 3>>, <<2, 5>>, <<2, 4>>}
MCBlocks == {<<2, 2>>, <<4, 2>>, <<3, 1>>}
MCDefaultBlock == <<4, 2>>
=============================================================================
