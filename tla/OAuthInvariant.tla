--------------------------- MODULE OAuthInvariant ---------------------------
(***************************************************************************)
(* The inductive invariants behind OAuthRequirements: what has to be known *)
(* of a state so that every step preserves the requirements.               *)
(***************************************************************************)
EXTENDS OAuthRequirements

\* Every stored credential and family was minted, so a value that is fresh
\* names no row.
StoredIsMinted ==
    /\ \A d \in DOMAIN authorizations : <<"transaction", d>> \in minted
    /\ \A d \in DOMAIN consents : <<"consent", d>> \in minted
    /\ \A d \in DOMAIN codes : <<"code", d>> \in minted
    /\ \A d \in DOMAIN grants : /\ <<"refresh", d>> \in minted
                                /\ <<"family", grants[d].family>> \in minted

\* Every credential that has advanced the flow, and every successor of a
\* refresh token, was minted: neither can be drawn again.
LineageIsMinted ==
    \A l \in lineage :
        /\ l[1] = "login" => <<"transaction", l[2]>> \in minted
        /\ l[1] = "decision" => <<"consent", l[2]>> \in minted
        /\ l[1] = "exchange" => <<"code", l[2]>> \in minted
        /\ l[1] = "rotation" => /\ <<"refresh", l[2]>> \in minted
                                /\ <<"refresh", l[3]>> \in minted
        /\ l[1] = "exchange" => <<"refresh", l[3]>> \in minted

\* The row of a credential that has advanced the flow is marked consumed for
\* as long as it is stored, and the credential has a single successor.
OneTime(table, kind, links) ==
    /\ \A l \in links : l[1] = kind /\ l[2] \in DOMAIN table => table[l[2]].consumed
    /\ \A a, b \in links : a[1] = kind /\ b[1] = kind /\ a[2] = b[2] => a[3] = b[3]

OneTimeInv ==
    /\ OneTime(authorizations, "login", lineage)
    /\ OneTime(consents, "decision", lineage)
    /\ OneTime(codes, "exchange", lineage)
    /\ OneTime(grants, "rotation", lineage)

\* FamiliesAreChains, AuthorityOnlyNarrows and ReplayDetectable of any grants
\* table, together with: the grants of a family are revoked together.
FamilyInv(table, links) ==
    /\ \A d, e \in DOMAIN table :
        table[d].family = table[e].family =>
            /\ table[d].generation = table[e].generation => d = e
            /\ table[d].generation < table[e].generation => table[d].consumed
            /\ table[d].client = table[e].client
            /\ table[d].subject = table[e].subject
            /\ table[d].resource = table[e].resource
            /\ table[d].expires = table[e].expires
            /\ table[d].generation =< table[e].generation
                 => table[e].scopes \subseteq table[d].scopes
            /\ table[d].revoked => table[e].revoked
    /\ \A l \in links :
        (l[1] = "rotation" /\ l[3] \in DOMAIN table) =>
            /\ l[2] \in DOMAIN table
            /\ table[l[2]].consumed
            /\ table[l[2]].family = table[l[3]].family

\* A login that has read its client commits only while the transaction is
\* unspent, and until then the transaction keeps the client registered.
LoginsProtected ==
    \A r \in Requests :
        /\ req[r].op \in {"login_client", "login_commit"} =>
             (req[r].d \in DOMAIN authorizations =>
                authorizations[req[r].d].binding = req[r].binding)
        /\ req[r].op = "login_commit" =>
             (req[r].d \in DOMAIN authorizations /\ ~authorizations[req[r].d].consumed =>
                req[r].binding.client \in DOMAIN clients)
        /\ req[r].op \in {"login_client", "login_commit"} =>
             <<"transaction", req[r].d>> \in minted

\* The conjunction that every step preserves.
IndInv ==
    /\ TypeOK
    /\ StoredIsMinted
    /\ LineageIsMinted
    /\ OneTimeInv
    /\ FamilyInv(grants, lineage)
    /\ ClientsProtected
    /\ LoginsProtected
    /\ AuthorizationOutlivesCode
=============================================================================
