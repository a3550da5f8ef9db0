------------------------------ MODULE MCFrozen ------------------------------
(***************************************************************************)
(* An instance of FrozenChange for TLC: two tracked files and two new      *)
(* ones, so that a deletion, an addition and a rename can come together.   *)
(* The first one is a .gitignore, which in its first version names the     *)
(* last one, and is checked out with other line endings than it is stored. *)
(***************************************************************************)
EXTENDS FrozenChange, FiniteSets, TLC

CONSTANTS f1, f2, f3, f4, v1, v2, crlf, link, gbk, repository, r1, r2

MCHolds ==
  (f1 :> {v1, crlf, v2}) @@ (f2 :> {v1}) @@ (f3 :> {v2, link, gbk}) @@ (f4 :> {v1, repository})

MCBase == (f1 :> v1) @@ (f2 :> v1) @@ (f3 :> NoFile) @@ (f4 :> NoFile)

MCClean == [t \in Trees |-> [f \in Files |-> IF t[f] = crlf THEN v1 ELSE t[f]]]

MCCheckOut == [i \in Trees |-> [f \in Files |-> IF f = f1 /\ i[f] = v1 THEN crlf ELSE i[f]]]

\* The link is to the first file.
MCFollow ==
  [t \in Trees |-> [f \in Files |-> CASE t[f] = link -> t[f1]
                                      [] t[f] = repository -> NoFile
                                      [] OTHER -> t[f]]]

MCIgnored == [t \in Trees |-> IF t[f1] \in {v1, crlf} THEN {f4} ELSE {}]

MCLossy == {t \in Trees : t[f3] = gbk}

Pairs(t) ==
  {r \in Files \X Files : Base[r[1]] # NoFile /\ t[r[1]] = NoFile
                          /\ Base[r[2]] = NoFile /\ t[r[2]] # NoFile}

\* A largest matching of the deleted and the added files.
MCRenames ==
  [t \in Trees |->
     LET Matching(m) == \A r, s \in m : r[1] = s[1] <=> r[2] = s[2]
         matchings == {m \in SUBSET Pairs(t) : Matching(m)}
     IN CHOOSE m \in matchings : \A n \in matchings : Cardinality(n) <= Cardinality(m)]

MCDirectories == {MCBase, [f \in Files |-> IF f = f3 THEN v2 ELSE NoFile]}

\* The requests are interchangeable.
Interchangeable == Permutations(Appliers)
=============================================================================
