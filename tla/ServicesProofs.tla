--------------------------- MODULE ServicesProofs ---------------------------
(***************************************************************************)
(* The services together.  Services has two specifications: ServicesSpec,  *)
(* in which one part moves, for TLC, and ApiSpec, in which all of them do  *)
(* and one DELETE FROM teams reaches the tables of all at once.  Here the  *)
(* first is shown to be a case of the second, the second to implement the  *)
(* specification of every part, and what the parts promise to hold of it.  *)
(***************************************************************************)
EXTENDS Services, TeamProofs, PermissionProofs, InboundProofs, IntakeProofs

\* The parts side by side: any of them may move in any step, or several at once.
Parallel ==
    AccountsSpec /\ BillingSpec /\ DomainsSpec /\ ConsentSpec /\ IntakeSpec /\ InboundSpec

EachMoves ==
    /\ [AccountsNext]_accountVars /\ [BillingNext]_billingVars /\ [DomainsNext]_domainVars
    /\ [ConsentNext]_consentVars /\ [IntakeNext]_intakeVars /\ [InboundNext]_inboundVars

\* A deletion is, for every part, its own share of it.
LEMMA CascadeMovesAll ==
    ASSUME NEW r \in Requests, NEW t \in DomainTeams, NEW u \in InboundTeams, Cascade(r, t, u)
    PROVE  EachMoves
<1>1. AccountsNext
  BY DEF Cascade, AccountsNext
<1>2. BillingNext
  BY DEF Cascade, BillingNext
<1>3. DomainsNext
  BY DEF Cascade, DomainsNext
<1>4. ConsentNext
  BY DEF Cascade, ConsentNext
<1>5. IntakeNext
  BY DEF Cascade, IntakeNext
<1>6. InboundNext
  BY DEF Cascade, InboundNext
<1> QED
  BY <1>1, <1>2, <1>3, <1>4, <1>5, <1>6 DEF EachMoves

\* Every step of the API is a step, or none, of each part.
LEMMA EachPartMoves == [ApiNext]_serviceVars => EachMoves /\ UNCHANGED focus
<1> SUFFICES ASSUME [ApiNext]_serviceVars PROVE EachMoves /\ UNCHANGED focus
  OBVIOUS
<1>1. ASSUME NEW p \in Parts, PartMoves(p), UNCHANGED focus
      PROVE  EachMoves
  BY <1>1 DEF PartMoves, EachMoves
<1>2. CASE UNCHANGED serviceVars
  BY <1>2 DEF serviceVars, EachMoves
<1>3. ASSUME NEW r \in Requests, NEW t \in DomainTeams, NEW u \in InboundTeams, Cascade(r, t, u)
      PROVE  EachMoves /\ UNCHANGED focus
  BY <1>3, CascadeMovesAll DEF Cascade
<1>4. UNCHANGED serviceVars => UNCHANGED focus
  BY DEF serviceVars
<1> QED
  BY <1>1, <1>2, <1>3, <1>4 DEF ApiNext

\* What TLC explores is a behaviour of the API: the part that focus names moves.
THEOREM ServicesImplementApi == ServicesSpec => ApiSpec
<1>1. [ServicesNext]_serviceVars => [ApiNext]_serviceVars
  <2> SUFFICES ASSUME ServicesNext PROVE ApiNext
    OBVIOUS
  <2>1. focus \in Parts
    BY DEF ServicesNext, PartMoves, Parts
  <2> QED
    BY <2>1 DEF ServicesNext, ApiNext
<1> QED
  BY <1>1, PTL DEF ServicesSpec, ApiSpec

\* The composition implements each of its parts.  The statements of a repository
\* write the tables of their part; the one that does not, TeamRepo.Delete, does to
\* every part what the part's own specification lets a deletion do to it.
THEOREM ApiImplementsItsParts == ApiSpec => Parallel
<1>1. ServicesInit =>
        AccountsInit /\ BillingInit /\ DomainsInit /\ ConsentInit /\ IntakeInit /\ InboundInit
  BY DEF ServicesInit
<1>2. [ApiNext]_serviceVars =>
        /\ [AccountsNext]_accountVars /\ [BillingNext]_billingVars /\ [DomainsNext]_domainVars
        /\ [ConsentNext]_consentVars /\ [IntakeNext]_intakeVars /\ [InboundNext]_inboundVars
  BY EachPartMoves DEF EachMoves
<1> QED
  BY <1>1, <1>2, PTL
  DEF ApiSpec, Parallel, AccountsSpec, BillingSpec, DomainsSpec, ConsentSpec, IntakeSpec, InboundSpec

\* The columns of every table, and the state of every request, worker and queue,
\* keep their types: no statement of one of the services writes a value that the
\* schema or a later step of the code does not know.
THEOREM ServicesTypeCorrectness == ApiSpec => []ServicesTypeOK
<1>1. BillingInit => BillingInv /\ StripeInv
  BY BillingInitInv, StripeInitInv
<1>2. BillingInv /\ StripeInv /\ [BillingNext]_billingVars => BillingInv' /\ StripeInv'
  BY BillingNextKeeps, StripeNextKeeps
<1>3. BillingSpec => [](BillingInv /\ StripeInv)
  BY <1>1, <1>2, PTL DEF BillingSpec
<1>4. ServicesInit => focus \in Parts
  BY DEF ServicesInit
<1>5. focus \in Parts /\ [ApiNext]_serviceVars => (focus \in Parts)'
  BY EachPartMoves
<1>6. ApiSpec => [](focus \in Parts)
  BY <1>4, <1>5, PTL DEF ApiSpec
<1>7. /\ AccountsInv /\ BillingInv /\ StripeInv /\ DomainsInv /\ ConsentInv /\ IntakeInv /\ InboundInv
      /\ focus \in Parts
      => ServicesTypeOK
  <2>1. AccountsInv => AccountsTypeOK
    BY DEF AccountsInv
  <2>2. BillingInv /\ StripeInv => BillingTypeOK
    BY DEF BillingInv, StripeInv, ColumnsOK, BillingTypeOK
  <2>3. (DomainsInv => DomainsTypeOK) /\ (ConsentInv => ConsentTypeOK)
    BY DEF DomainsInv, ConsentInv
  <2>4. (IntakeInv => IntakeTypeOK) /\ (InboundInv => InboundTypeOK)
    BY DEF IntakeInv, InboundInv
  <2> QED
    BY <2>1, <2>2, <2>3, <2>4 DEF ServicesTypeOK
<1> QED
  BY <1>3, <1>6, <1>7, ApiImplementsItsParts, AccountsInvariance, DomainsInvariance, ConsentInvariance,
     IntakeInvariance, InboundInvariance, PTL
  DEF Parallel

\* What the parts promise holds of the API: whichever of them move, however their
\* steps are interleaved, and when a team is deleted from all of them while mails,
\* jobs and requests of it are under way.
THEOREM PromisesHoldTogether ==
    ApiSpec => /\ [](/\ CreatorStaysOwner /\ NothingOutlivesTeam
                     /\ NewestEventWins /\ OneCustomer
                     /\ OwnershipProved /\ RoutingIsUnambiguous
                     /\ NoMailAfterRefusal
                     /\ KeysAreExact /\ BatchesAreWhole /\ QuotaIsExact
                     /\ NoMailIsLost /\ OneEventPerMail /\ RetentionLeavesNoObject)
               /\ InvitationsAreSingleUse /\ SuppressionsOnlyGrow
BY ApiImplementsItsParts, OneOwner, DeletionIsComplete, JoiningUsesInvitation, PlanOfNewest,
   SingleCustomer, VerifiedMeansOwned, OneTeamPerName, RefusalsAreKept, SuppressionsGrow,
   OneEmailPerKey, BatchesKeepTheirPayload, QuotaIsNeverWrong, MailIsKept, MailIsStoredOnce,
   RetentionIsThorough, PTL
DEF Parallel
=============================================================================
