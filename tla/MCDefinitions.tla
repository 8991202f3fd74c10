---- MODULE MCDefinitions ----
(* Definitions with one mod, one version to pin, two packs and two names. *)
EXTENDS Definitions

CONSTANTS s1, s2, p1, p2, a, v1, c1

Def(rows) == [rows |-> rows, admins |-> {}]
RowsOf(pin, at) == [m \in {a} |-> [pin |-> pin, at |-> at]]
Doc(d, lists) == [servers |-> [s \in {s1} |-> d], packs |-> lists]
Items(M) == [p \in {p1} |-> M]

(* Exports of another day: a pin with its time, no mod at all.              *)
SomeBackups == {Doc(Def(RowsOf(v1, TRUE)), Items({a})), Doc(Def(<<>>), <<>>)}

NoAdmin == {{}}
OneAdmin == {{}, {"admin"}}
AdminBackups == {Doc([rows |-> <<>>, admins |-> {"admin"}], <<>>)}
====
