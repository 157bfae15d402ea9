------------------------------- MODULE MCLinks -------------------------------
(* Small instances of Links.  *)
EXTENDS Links, TLC

CONSTANTS p1, p2, n1, n2, n3, a1, a2

(* Nobody uses another's nick; p2's account is the word p1 uses as a nick. *)
PersonalNicks    == (p1 :> {n1, n2}) @@ (p2 :> {n3})
PersonalAccounts == (p1 :> {a1}) @@ (p2 :> {a2})
CrossNamesakes   == {<<n1, a2>>, <<n2, a1>>}

(* Everybody uses every nick. *)
SharedNicks      == [p \in Persons |-> Nicks]
OneAccount       == (p1 :> {}) @@ (p2 :> {a1})
OneNamesake      == {<<n1, a1>>}

NothingRaced == ~raced

=============================================================================
