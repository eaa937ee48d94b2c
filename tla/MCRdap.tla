------------------------------- MODULE MCRdap -------------------------------
(***************************************************************************)
(* Rdap with concurrent lookups of one domain, which IANA's map knows and  *)
(* the fallback does not.                                                  *)
(***************************************************************************)
EXTENDS Rdap

MCDomainOf == [l \in Lookups |-> "rare"]
MCCovered == [m \in {"iana", "fallback"} |-> IF m = "iana" THEN {"rare"} ELSE {}]
=============================================================================
