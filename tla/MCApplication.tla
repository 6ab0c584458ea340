---------------------------- MODULE MCApplication ----------------------------
(* Two processes. Packages with the tickets of one or both rights, before and     *)
(* behind the .cnmt.xml, with another key under the same name, with the .xml first,*)
(* which never ends, and lists with files that are no packages.                   *)
EXTENDS Application, TLC

AnyInstance == Permutations(Instances)

Tik(id, key) == [is |-> "tik", id |-> id, key |-> key]
Nca(rights) == [is |-> "nca", rights |-> rights]
Cnmt == [is |-> "cnmt"]
Xml == [is |-> "cnmt.xml"]
Nsp(files) == [is |-> "package", files |-> files]
File(kind) == [is |-> kind]

MCGames == {
    <<Nsp(<<Tik("a", "k1"), Tik("b", "k1"), Cnmt, Nca("a"), Nca(None)>>), File("unknown")>>,
    <<Nsp(<<Cnmt, Tik("a", "k2"), Xml, Nca("a"), Tik("b", "k2")>>)>>,
    <<File("nopfs"), Nsp(<<Cnmt, Nca(None)>>), File("nopfs")>>,
    <<Nsp(<<Tik("b", "k1"), Cnmt, Nca("b")>>), Nsp(<<Tik("b", "k2"), Cnmt, Nca("b")>>), File("small")>>,
    <<Nsp(<<Xml, Cnmt>>)>>,
    <<File("diverges")>>,
    <<File("unknown"), Nsp(<<Cnmt, Nca("a")>>)>>}
=============================================================================
