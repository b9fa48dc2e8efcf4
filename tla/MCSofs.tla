------------------------------- MODULE MCSofs -------------------------------
(* Constants of the bounded instance of Sofs: names of up to three stored   *)
(* characters, one of them cut, sizes around a multiple of four.            *)
EXTENDS Sofs

File(name, size) == [name |-> name, size |-> size]
Sizes == {0, 1, 3, 4, 5}

MCDirectories ==
  {<<File(<<"a">>, s)>> : s \in Sizes}
    \union {<<File(<<"a", "b", "c", "d">>, s), File(<<"a", "b", "c", "e">>, t),
              File(<<"b">>, 4)>> : s \in Sizes, t \in Sizes}
    \union {<<File(<<"a">>, s), File(<<"a", "b">>, 2), File(<<"a", "b", "c">>, t)>> :
              s \in Sizes, t \in Sizes}
=============================================================================
