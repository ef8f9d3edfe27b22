-------------------------- MODULE MCServiceEnrollment --------------------------
(***************************************************************************)
(* Three Enrolls of one Agent with a required and an optional claim, and a *)
(* required and an optional document, and one edit of its record by the    *)
(* application.                                                            *)
(***************************************************************************)
EXTENDS ServiceEnrollment, TLC

CONSTANTS c1, c2, c3, e1, email, phone, terms, news, unlisted

MCCalls == {c1, c2, c3}
MCEdits == {e1}

Ask(claims, acknowledged) == [claims |-> claims, acknowledged |-> acknowledged]

Full     == Ask({email}, {terms, unlisted})
Silent   == Ask({email, phone}, None)
Addition == Ask({phone}, {news})
Optional == Ask({email, phone}, {news})

\* An Enroll that declares the required document and one outside the catalog, or
\* nothing; an addition that lacks the required claim; and an Enroll that declares
\* the optional document only.
MCRequestsOf == (c1 :> {Full, Silent}) @@ (c2 :> {Addition}) @@ (c3 :> {Optional})
================================================================================
