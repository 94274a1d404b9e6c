------------------------------ MODULE MCMenus ------------------------------
(* MenuViews on a small instance. A body submits what its form sends for one type, *)
(* an edit one field or the two or three a change of type needs.               *)
EXTENDS MenuViews

Form(type, fields) == [type |-> type, status |-> 1] @@ fields

\* Edits of parents, paths and highlights, and every change of type, with and without
\* the fields the new type needs.
MCCreates(ids, names, paths) ==
    LET pids == ids \cup {None} IN
    {Form("catalog", [name |-> n, path |-> p, redirect |-> 1, pid |-> q]) :
        n \in names, p \in paths, q \in pids}
    \cup {Form("menu", [name |-> n, path |-> p, component |-> 1, authCode |-> 1,
                        activePath |-> a, pid |-> q]) :
        n \in names, p \in paths, a \in paths \cup {None}, q \in pids}
    \cup {Form("link", [name |-> n, linkSrc |-> u, pid |-> q]) :
        n \in names, u \in {1, None, Bad}, q \in pids}
    \cup {Form("button", [name |-> n, authCode |-> 1, pid |-> q]) : n \in names, q \in pids}

MCPatches(ids, paths) ==
    {<<>>}
    \cup {[pid |-> q] : q \in ids \cup {None}}
    \cup {[path |-> p] : p \in paths \cup {None, Bad}}
    \cup {[activePath |-> p] : p \in paths \cup {None}}
    \cup {[type |-> t] : t \in Types}
    \cup {[type |-> t, linkSrc |-> 1] : t \in Types}
    \cup {[type |-> t, linkSrc |-> 1, path |-> p] : t \in {"embedded", "link"}, p \in paths \cup {None}}
    \cup {[type |-> "button", authCode |-> 1], [authCode |-> None], [component |-> 1, type |-> "menu"],
          [meta |-> [link |-> 1, iframeSrc |-> 1]]}

TheIds == 1..3
TheNames == 1..3
ThePaths == 1..2
TheCreates == MCCreates(1..2, 1..2, ThePaths)
ThePatches == MCPatches(1..2, ThePaths)

\* Tables of three rows, and damaged ones, are read but not written.
Explored == Intact /\ Cardinality(menus) < 3

=============================================================================
