------------------------------- MODULE MCHome -------------------------------
(***************************************************************************)
(* Two sessions and a command.  The first set-up is about the socket and    *)
(* the database, the others about templates, with files of the user's that  *)
(* stand before or behind the saved ones.                                   *)
(***************************************************************************)
EXTENDS Home, TLC

CONSTANTS s1, s2, c1, n1, n2, t1, t2, u

TwoServers == {s1, s2}
OneCommand == {c1}
TwoNames == {n1, n2}
OneEmbedded == {n2}
Texts == {t1, t2, u}
Splices == {<<t1, "quoting">>}
TextRequires == (t1 :> {}) @@ (t2 :> {"path"}) @@ (u :> {})

Nothing == [n \in TwoNames |-> "absent"]
Nowhere == [s \in TwoServers |-> Nothing]

EmptyShelf == [local_yaml |-> Nowhere, local_yml |-> Nowhere, home_yml |-> Nothing]
HomeYml == [EmptyShelf EXCEPT !.home_yml = [Nothing EXCEPT ![n1] = u]]
(* One of the two works in a project with a template of the same name, the  *)
(* other in one with a file that is no YAML.                                *)
LocalYml ==
  [EmptyShelf EXCEPT !.local_yml = [Nowhere EXCEPT ![s1] = [Nothing EXCEPT ![n1] = u]],
                     !.local_yaml = [Nowhere EXCEPT ![s2] = [Nothing EXCEPT ![n1] = "garbled"]]]
SomeShelves == {EmptyShelf, HomeYml, LocalYml}

SomeSetups ==
  {[processes |-> {s1, s2, c1}, saves |-> {}, shelf |-> EmptyShelf,
    migrated |-> FALSE],
   [processes |-> {s1, s2}, saves |-> {<<n1, t1, "plain">>, <<n1, t2, "quoting">>}, shelf |-> HomeYml,
    migrated |-> TRUE],
   [processes |-> {s1, s2}, saves |-> {<<n1, t1, "plain">>, <<n1, t1, "quoting">>, <<n2, t1, "none">>}, shelf |-> LocalYml,
    migrated |-> TRUE]}
==============================================================================
