----------------------------- MODULE MCOptions ------------------------------
EXTENDS Options, TLC

Symmetric == Permutations(Games)

Cfg(lines, locked) == [on |-> TRUE, lines |-> lines, locked |-> locked]

\* The shipped system.cfg of one console: sharpness set, not hidden.
MCSystems == {Cfg([k \in {"sharpness"} |-> 0], {})}

\* No default.cfg lines; a pak that sets and hides an option and binds a control
\* with MENU+; one that names a value the core no longer has.
MCDefaults == {Cfg(Nothing, {}),
               Cfg([k \in {"scaling", "control"} |-> IF k = "control" THEN 4 ELSE 0], {"scaling"}),
               Cfg([k \in CoreKeys |-> 2], CoreKeys)}
=============================================================================
