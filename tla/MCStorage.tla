------------------------------- MODULE MCStorage ------------------------------
(* Two procedures over three names: a scalar of each width but two, an     *)
(* array, a record and a pointer, in every storage class that changes the  *)
(* layout; one symbol more than a scope holds.                             *)
EXTENDS Storage
CONSTANTS x, y, z, P, Q, f, g

Field(n, ty, dim) == [n |-> n, ty |-> ty, dim |-> dim]
D(n, ty, dim, stor, fields) ==
  [n |-> n, ty |-> ty, dim |-> dim, stor |-> stor, fields |-> fields, init |-> FALSE]
Scalar(n, ty, stor) == D(n, ty, 0, stor, <<>>)
Rec(n, stor) == D(n, "RECORD", 0, stor, <<Field(f, "BYTE", 0), Field(g, "INT24", 0)>>)

MCNames == {x, y, z, P, Q}
MCFieldNames == {f, g}
MCProcs == <<P, Q>>
MCBare == {FALSE}
NakedBare == {TRUE}
MCDecls == {Scalar(x, "BYTE", "AUTO"), Scalar(y, "INT24", "AUTO"), Scalar(x, "INT24", "STATIC"),
            D(y, "BYTE", 3, "AUTO", <<>>), D(z, "INT24", 2, "STATIC", <<>>), Rec(P, "AUTO")}
HalfDecls == {Scalar(x, "INT16", "AUTO"), Scalar(y, "BYTE", "AUTO"), Scalar(x, "INT16", "STATIC")}
HalfArrays == {D(x, "INT16", 2, "STATIC", <<>>)}
PtrDecls == {Rec(z, "BASED"), Rec(y, "AUTO"), Scalar(x, "PTR", "AUTO")}
StaticDecls == {Scalar(x, "INT24", "STATIC"), Scalar(y, "BYTE", "STATIC")}
ASSUME OrdinaryDecls == \A d \in MCDecls : Ordinary(d)
(* Labels that tell what they were joined from; P and x joined as Q and y  *)
(* are; and P and y joined to a name.                                      *)
MCJoined == [p \in MCNames |-> [n \in MCNames |-> <<p, n>>]]
Ambiguous == [MCJoined EXCEPT ![Q][y] = <<P, x>>]
Taken == [MCJoined EXCEPT ![P][x] = y]
ASSUME OrdinaryNames ==
  /\ \A i, j \in DOMAIN MCProcs : MCProcs[i] = MCProcs[j] => i = j
  /\ \A p, n \in MCNames : MCJoined[p][n] \notin MCNames
  /\ \A p, q, n, m \in MCNames : MCJoined[p][n] = MCJoined[q][m] => p = q /\ n = m
MCParams == {[n |-> x, ty |-> "BYTE"], [n |-> y, ty |-> "INT24"]}
MCScopeMax == 3
MCTDescMax == 2
MCFieldMax == 2
MCMaxGlobals == 2
MCMaxParams == 2
MCMaxLocals == 2
One == 1
MCLibrary == FALSE
=============================================================================
