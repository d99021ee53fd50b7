------------------------------ MODULE MCScaler ------------------------------
(***************************************************************************)
(* Scaler on every scale, widths around the sizes of its blocks, pitches   *)
(* of the width and wider, aligned and not.                                *)
(***************************************************************************)
EXTENDS Scaler

CONSTANTS Widths,   \* bound: widths of a frame
          Heights,  \* bound: heights of a frame
          MaxRow    \* bound: pixels of a row drawn

Sizes == Widths \X Heights

\* a and b: pixels the pitches are wider than the rows; 0 pitch: the default.
Plain == {[fn |-> fn, k |-> k, sw |-> z[1], sh |-> z[2], sp |-> z[1] + a, dp |-> k * z[1] + b,
           src |-> o, dst |-> 2 * a] :
            fn \in {"n16", "c16"}, k \in 1 .. 6, z \in Sizes, a \in 0 .. 1, b \in 0 .. 1, o \in 0 .. 1}

Default == {[fn |-> "n16", k |-> k, sw |-> z[1], sh |-> z[2], sp |-> 0, dp |-> 0, src |-> 0, dst |-> 0] :
              k \in 1 .. 6, z \in Sizes}

\* A frame wider than the screen: only at 1x, cut at the pitch.
Cut == {[fn |-> fn, k |-> 1, sw |-> w, sh |-> 2, sp |-> w, dp |-> w - 2, src |-> 0, dst |-> 0] :
          fn \in {"n16", "c16"}, w \in {x \in Widths : x > 4}}

Effects == {[fn |-> fk[1], k |-> fk[2], sw |-> z[1], sh |-> z[2], sp |-> z[1] + a, dp |-> fk[2] * z[1] + b,
             src |-> 0, dst |-> 0] :
              fk \in {<<"line", 1>>, <<"line", 2>>, <<"line", 3>>, <<"line", 4>>, <<"grid", 2>>, <<"grid", 3>>},
              z \in {q \in Sizes : q[1] # 0}, a \in 0 .. 1, b \in 0 .. 1}

MCCalls == {c \in {p \in Plain : p.fn = "n16" \/ p.k = 1} \cup Default \cup Cut \cup Effects :
              c.sw * c.k <= MaxRow}

=============================================================================
