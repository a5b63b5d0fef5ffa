------------------------------ MODULE Services ------------------------------
(***************************************************************************)
(* The parts of the API that keep tables of their own, side by side.  Each *)
(* statement of the code writes the tables of one part, but for one: the   *)
(* DELETE FROM teams of TeamRepo.Delete, whose cascades reach all of them. *)
(* What one part reads of another (the suppressions that a provider event  *)
(* brings, the plan of billing, the route of a domain) enters it as a free *)
(* choice.                                                                 *)
(*                                                                         *)
(* ApiSpec is that composition: steps of the parts in any order, and       *)
(* Cascade, which deletes a team from all of them at once.  Each part also *)
(* has its share of the cascade as a step of its own: the rows of each are *)
(* those of a team that it picks for itself, and it need not be the one of *)
(* the others.  ServicesSpec is ApiSpec cut down for TLC: one part, which  *)
(* it may choose, moves in a behaviour, with its share of the cascade.     *)
(* That loses nothing a part can do, since each is free to be deleted from *)
(* at any time whatever the others do.                                     *)
(***************************************************************************)
EXTENDS Accounts, Billing, Domains, Consent, Intake, Inbound

VARIABLE focus      \* the part that moves in this behaviour

serviceVars == <<accountVars, billingVars, domainVars, consentVars, intakeVars, inboundVars, focus>>

Parts == {"accounts", "billing", "domains", "consent", "intake", "inbound"}

ServicesTypeOK ==
    /\ AccountsTypeOK /\ BillingTypeOK /\ DomainsTypeOK
    /\ ConsentTypeOK /\ IntakeTypeOK /\ InboundTypeOK
    /\ focus \in Parts

ServicesInit ==
    /\ AccountsInit /\ BillingInit /\ DomainsInit /\ ConsentInit /\ IntakeInit /\ InboundInit
    /\ focus \in Parts

PartMoves(p) ==
    \/ /\ p = "accounts" /\ AccountsNext
       /\ UNCHANGED <<billingVars, domainVars, consentVars, intakeVars, inboundVars>>
    \/ /\ p = "billing" /\ BillingNext
       /\ UNCHANGED <<accountVars, domainVars, consentVars, intakeVars, inboundVars>>
    \/ /\ p = "domains" /\ DomainsNext
       /\ UNCHANGED <<accountVars, billingVars, consentVars, intakeVars, inboundVars>>
    \/ /\ p = "consent" /\ ConsentNext
       /\ UNCHANGED <<accountVars, billingVars, domainVars, intakeVars, inboundVars>>
    \/ /\ p = "intake" /\ IntakeNext
       /\ UNCHANGED <<accountVars, billingVars, domainVars, consentVars, inboundVars>>
    \/ /\ p = "inbound" /\ InboundNext
       /\ UNCHANGED <<accountVars, billingVars, domainVars, consentVars, intakeVars>>

ServicesNext == PartMoves(focus) /\ UNCHANGED focus

ServicesSpec == ServicesInit /\ [][ServicesNext]_serviceVars

-----------------------------------------------------------------------------
(* One DELETE FROM teams: r is the request that its owner sent, and the    *)
(* team goes by the name t among the domains and u in the inbound mail.    *)
Cascade(r, t, u) ==
    /\ DoDeleteTeam(r) /\ DeleteTeamBilling /\ DeleteTeamDomains(t)
    /\ DeleteTeamContacts /\ DeleteTeamEmails /\ DeleteTeamInbound(u)
    /\ UNCHANGED focus

ApiNext ==
    \/ \E p \in Parts : PartMoves(p) /\ UNCHANGED focus
    \/ \E r \in Requests, t \in DomainTeams, u \in InboundTeams : Cascade(r, t, u)

ApiSpec == ServicesInit /\ [][ApiNext]_serviceVars
=============================================================================
