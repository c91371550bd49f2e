------------------------------ MODULE MCOXGame ------------------------------
(***************************************************************************)
(* Instances of OXGame for TLC.                                            *)
(***************************************************************************)
EXTENDS OXGame

\* Seen from row y = 0 (x = 0, 1, 2) down.
Grid(r0, r1, r2) ==
    [c \in Cells |-> CASE c[2] = 0 -> r0[c[1] + 1]
                       [] c[2] = 1 -> r1[c[1] + 1]
                       [] c[2] = 2 -> r2[c[1] + 1]]

\* The cursor is on the centre.  In the first game X wins by playing there,
\* in the second O does, in the third the last free cell makes a draw.
MCStartBoards == { Grid(<<1, 2, 0>>, <<0, 0, 0>>, <<2, 0, 1>>),
                   Grid(<<1, 1, 2>>, <<0, 0, 1>>, <<2, 0, 0>>),
                   Grid(<<1, 2, 1>>, <<1, 0, 2>>, <<2, 1, 2>>) }

=============================================================================
