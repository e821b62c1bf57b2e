----------------------------- MODULE MCGameLoop -----------------------------
(* Contracts whose plugins share names, share plugins, and add each other. *)
EXTENDS GameLoop, TLC

CONSTANTS e1, e2, zk, rules, extra, n0, n1, n2

System(s) == [adds |-> "system", what |-> s]

Uses(p) == [adds |-> "plugin", what |-> p]

Names(a, b, c) == zk :> a @@ rules :> b @@ extra :> c

Builds(a, b, c) == zk :> a @@ rules :> b @@ extra :> c

\* A circle of plugins that is entered twice, a plugin that two others share,
\* and a plugin that is shadowed by another of its name.
SomeContracts ==
    {[main  |-> <<Uses(rules), Uses(zk)>>,
      name  |-> Names(n0, n1, n2),
      build |-> Builds(<<System("deadline"), System("cleanup"), Uses(rules)>>,
                       <<Uses(extra), System("game")>>,
                       <<Uses(rules), Uses(zk), [adds |-> "hook"]>>)],
     [main  |-> <<Uses(zk), System("game"), Uses(rules), Uses(extra)>>,
      name  |-> Names(n0, n1, n2),
      build |-> Builds(<<System("game"), System("deadline")>>,
                       <<Uses(extra), Uses(zk), System("cleanup")>>,
                       <<Uses(zk)>>)],
     [main  |-> <<Uses(rules), Uses(extra), Uses(zk)>>,
      name  |-> Names(n0, n1, n1),
      build |-> Builds(<<System("cleanup")>>,
                       <<System("deadline"), Uses(extra)>>,
                       <<System("game"), System("game")>>)]}
=============================================================================
