------------------------------ MODULE MpcShift ------------------------------
(***************************************************************************)
(* MPC._shift_xx (pyjmi/optimization/mpc.py): the vector of a solution of  *)
(* the nonlinear program, shifted by one sample of nes elements, as guess  *)
(* for the next one; and the row of the result that MPC._get_opt_input     *)
(* takes the input from.  Vectors are sequences laid out as in NlpLayout;  *)
(* the code numbers their entries from 0 and slices [a:b].                 *)
(***************************************************************************)
EXTENDS NlpLayout

Slice(xx, a, b) == SubSeq(xx, a + 1, IF b < Len(xx) THEN b ELSE Len(xx))
Repeat(s, n) == FlattenSeq([j \in 1..n |-> s])

\* A group of n variables at m points of each element: the first sample is
\* dropped and the last point is repeated to fill the end.
ShiftGroup(xx, start, end, n, points) ==
    Slice(xx, start + n * points, end) \o Repeat(Slice(xx, end - n, end), points)

\* The inputs with blocking factors: nbf is the number of such inputs.
ShiftBlocked(p, xx, start) ==
    LET nbf == p.nu - Len(Free(p))
        from(b) == start + Total([c \in 1..(b - 1) |-> Len(p.bf[c][2])])
        to(b) == from(b) + Len(p.bf[b][2])
    IN  FlattenSeq([b \in DOMAIN p.bf |->
            Slice(xx, from(b) + nbf, to(b)) \o Slice(xx, to(b) - nbf, to(b))])

\* The value of n variables at the end of the first sample, which is the
\* initial point of the next problem.
EndOfFirstElement(xx, start, n, points) == Slice(xx, start, start + n)
EndOfSample(xx, start, n, points) ==
    Slice(xx, start + (points - 1) * n, start + points * n)

ShiftXX(p, nes, xx) ==
    LET gsi    == SplitIndices(p)
        points == p.ncp * nes
        ncont  == Len(Free(p))
        endCont == gsi[4] + ncont * p.ncp * p.ne
    IN  ShiftGroup(xx, gsi[1], gsi[2], p.nx, nes * (p.ncp + 1))
        \o ShiftGroup(xx, gsi[2], gsi[3], p.nx, points)
        \o ShiftGroup(xx, gsi[3], gsi[4], p.nw, points)
        \o ShiftGroup(xx, gsi[4], endCont, ncont, points)
        \o ShiftBlocked(p, xx, endCont)
        \o EndOfSample(xx, gsi[4], ncont, points)
        \o EndOfSample(xx, gsi[2], p.nx, points)
        \o EndOfSample(xx, gsi[3], p.nw, points)
        \o Slice(xx, gsi[6], gsi[7])

-----------------------------------------------------------------------------
\* _calculate_nbr_values_sample
ValuesPerSample(p, nes, mode, neval) ==
    IF mode = "collocation_points" THEN nes * p.ncp + 1
    ELSE IF mode = "mesh_points" THEN nes + 1
    ELSE nes * neval

\* _get_opt_input: the row of the result after so many failures in a row.
InputRow(p, nes, mode, neval, fails) ==
    (ValuesPerSample(p, nes, mode, neval) - 1) * fails + 1
=============================================================================
