---------------------------- MODULE MCNamespaceDdl ----------------------------
(* Three cells that already serve two tiered namespaces, and what befalls them. *)
EXTENDS NamespaceDdl

TwoTiered == {[id |-> 1, name |-> "a", mode |-> "tiered", val |-> 0],
              [id |-> 2, name |-> "b", mode |-> "tiered", val |-> 0]}

Workload(ddl, extra, crash) == [ddl |-> ddl, extra |-> extra, crash |-> crash]

\* Two DDLs of one name, of two, and of a new one and an old one, with a crash anywhere;
\* one of an old and one of a new name with a crash and another event anywhere.
ThreeCellWorkloads ==
    {Workload(ddl, 0, 1) : ddl \in {<<"a", "a">>, <<"a", "b">>, <<"c", "a">>}} \cup
    {Workload(ddl, 1, 1) : ddl \in {<<"a">>, <<"c">>}}
==============================================================================
