---- MODULE MCSandboxes ----
EXTENDS Sandboxes, TLC

CONSTANTS t1, t2, s1, s2, coding, test, b1, b2

\* Nothing tells two tasks, two stages, two roles or two boxes apart.
MCSymmetry ==
    {f @@ g @@ h @@ k : f \in Permutations({t1, t2}), g \in Permutations({s1, s2}),
                        h \in Permutations({coding, test}), k \in Permutations({b1, b2})}
====
