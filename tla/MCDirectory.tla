------------------------------ MODULE MCDirectory ------------------------------
(***************************************************************************)
(* The master data of the system.  Its parts share no table that any of    *)
(* them writes, so that one run explores each of them with the others at   *)
(* rest: the structure, the users of a company, two companies of guests,   *)
(* passwords, the catalogue.  Identifiers of different tables may be the   *)
(* same value, which keeps the symmetry group small.                       *)
(***************************************************************************)
EXTENDS Structure, Accounts, Catalogue, TLC

CONSTANTS a, b, c, d, x, t, y, shirt, bag, old

VARIABLE part

Usable    == {[total |-> None, usable |-> 10001], [total |-> 9500, usable |-> 9000]}
ZoneAreas == {None, 450, 9000}
Symmetry  == Permutations({a, b}) \cup Permutations({c, d})

Init == /\ StructureInit /\ AccountsInit /\ CatalogueInit
        /\ user[Root].email = x
        /\ part \in {"structure", "people", "guests", "passwords", "catalogue"}

Structures == part = "structure" /\ StructureNext /\ UNCHANGED <<part, accounts, catalogue>>
People     == /\ part = "people"
              /\ UserCalls \/ TenantCalls \/ \E p \in Places : Contract(p)
              /\ company'[y] = None
              /\ UNCHANGED <<part, structure, catalogue>>
Guests     == part = "guests" /\ TenantCalls /\ UNCHANGED <<part, structure, catalogue>>
Passwords  == /\ part = "passwords"
              /\ \/ UserCalls \/ PasswordCalls \/ Restart
                 \/ \E e \in Emails : OtpExpires(e)
                 \/ \E u \in Users : TokenExpires(u)
              /\ UNCHANGED <<part, structure, catalogue>>
Catalogues == part = "catalogue" /\ CatalogueNext /\ UNCHANGED <<part, structure, accounts>>

Next == Structures \/ People \/ Guests \/ Passwords \/ Catalogues
Spec == Init /\ [][Next]_<<part, structure, accounts, catalogue>>

================================================================================
