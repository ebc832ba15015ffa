--------------------------- MODULE IdentityRoutes ---------------------------
(***************************************************************************)
(* The controllers of accounts, identities and what belongs to them.  One  *)
(* definition per route.                                                   *)
(***************************************************************************)
EXTENDS AssetServices

\* identities.util.ts, identity.util.ts, authorizations.util.ts, portfolios.util.ts,
\* ticker-reservations.util.ts: models that are read from the chain, and the
\* resolvers that several routes share.
createIdentityModel ==
  Query("identity", "getPrimaryAccount") ** Query("identity", "areSecondaryAccountsFrozen")
    ** Query("identity", "getSecondaryAccounts")
createIdentityResolver == ReplyRead
authorizationRequestResolver == ReplyUsed
createPortfolioModel ==
  Query("portfolio", "getAssetBalances") ** Query("portfolio", "getCustodian")
    ** (Skip \cup Query("portfolio", "getName"))
createTickerReservationModel == Query("tickerReservation", "details")

\* accounts/accounts.controller.ts
AccountsController_getTreasuryBalance ==
  Get("accounts/treasury/balance", No404, NetworkService_getTreasuryBalance)
AccountsController_getIdentity ==
  Get("accounts/:account/identity", Answers404, AccountsService_getIdentity ** Check("NotFound"))
AccountsController_getAccountBalance ==
  Get("accounts/:account/balance", No404, AccountsService_getAccountBalance)
AccountsController_transferPolyx == Post("accounts/transfer", No404, AccountsService_transferPolyx ** Reply)
AccountsController_getTransactionHistory ==
  Get("accounts/:account/transactions", No404, AccountsService_getTransactionHistory)
AccountsController_getPermissions ==
  Get("accounts/:account/permissions", Answers404, AccountsService_getPermissions)
AccountsController_getSubsidy == Get("accounts/:account/subsidy", No404, SubsidyService_getSubsidy)
AccountsController_freezeSecondaryAccounts ==
  Post("accounts/freeze", No404, AccountsService_freezeSecondaryAccounts ** Reply)
AccountsController_unfreezeSecondaryAccounts ==
  Post("accounts/unfreeze", No404, AccountsService_unfreezeSecondaryAccounts ** Reply)
AccountsController_revokePermissions ==
  Post("accounts/permissions/revoke", No404, AccountsService_revokePermissions ** Reply)
AccountsController_modifyPermissions ==
  Post("accounts/permissions/modify", No404, AccountsService_modifyPermissions ** Reply)
AccountsController_getTreasuryAccount == Get("accounts/treasury", No404, NetworkService_getTreasuryAccount)
AccountsController_getAccountDetails ==
  Get("accounts/:account", Answers404,
    AccountsService_getDetails ** (Skip \cup Ref("identity") ** createIdentityModel))
AccountsController_getOffChainReceipts ==
  Unbound(Get("accounts/:id/receipts", No404, AccountsService_fetchOffChainReceipts))

\* authorizations/authorizations.controller.ts
AuthorizationsController_accept ==
  Post("authorizations/:id/accept", Answers404, AuthorizationsService_accept ** Reply)
AuthorizationsController_remove ==
  Post("authorizations/:id/remove", Answers404, AuthorizationsService_remove ** Reply)

\* claims/claims.controller.ts
ClaimsController_addClaims == Post("claims/add", Answers404, ClaimsService_addClaimsOnDid ** Reply)
ClaimsController_editClaims == Post("claims/edit", No404, ClaimsService_editClaimsOnDid ** Reply)
ClaimsController_revokeClaims == Post("claims/remove", No404, ClaimsService_revokeClaimsFromDid ** Reply)
ClaimsController_registerCustomClaimType ==
  Post("claims/custom-claim-type", No404, ClaimsService_registerCustomClaimType ** Reply)
ClaimsController_getCustomClaimTypes ==
  Get("claims/custom-claim-types", No404, ClaimsService_getRegisteredCustomClaimTypes)
ClaimsController_getCustomClaimType ==
  Get("claims/custom-claim-types/:identifier", Answers404,
    (ClaimsService_getCustomClaimTypeById \cup ClaimsService_getCustomClaimTypeByName) ** Check("NotFound"))

\* identities/identities.controller.ts
IdentitiesController_registerIdentity ==
  Post("identities/register", No404, IdentitiesService_registerDid ** createIdentityResolver)
IdentitiesController_getIdentityDetails ==
  Get("identities/:did", No404, IdentitiesService_findOne ** createIdentityModel)
IdentitiesController_getPendingAuthorizations ==
  Get("identities/:did/pending-authorizations", No404,
    AuthorizationsService_findPendingByDid ** AuthorizationsService_findIssuedByDid)
IdentitiesController_getPendingAuthorization ==
  Get("identities/:did/pending-authorizations/:id", No404, AuthorizationsService_findOneByDid)
IdentitiesController_getAssets == Get("identities/:did/assets", No404, AssetsService_findAllByOwner)
IdentitiesController_getHeldAssets ==
  Get("identities/:did/held-assets", No404, IdentitiesService_findHeldAssets)
IdentitiesController_getPendingInstructions ==
  Get("identities/:did/pending-instructions", No404, SettlementsService_findGroupedInstructionsByDid)
IdentitiesController_getVenues == Get("identities/:did/venues", No404, SettlementsService_findVenuesByOwner)
IdentitiesController_getIssuedClaims ==
  Get("identities/:did/issued-claims", No404, ClaimsService_findIssuedByDid)
IdentitiesController_getAssociatedClaims ==
  Get("identities/:did/associated-claims", No404, ClaimsService_findAssociatedByDid)
IdentitiesController_getTrustingAssets ==
  Get("identities/:did/trusting-assets", No404, IdentitiesService_findTrustingAssets)
IdentitiesController_addSecondaryAccount ==
  Post("identities/secondary-accounts/invite", No404,
    IdentitiesService_addSecondaryAccount ** authorizationRequestResolver)
IdentitiesController_getTickerReservations ==
  Get("identities/:did/ticker-reservations", No404, TickerReservationsService_findAllByOwner)
IdentitiesController_getCddClaims ==
  Get("identities/:did/cdd-claims", No404, ClaimsService_findCddClaimsByDid)
IdentitiesController_getClaimScopes ==
  Get("identities/:did/claim-scopes", No404, ClaimsService_findClaimScopesByDid)
IdentitiesController_getGroupedInstructions ==
  Get("identities/:did/grouped-instructions", No404, SettlementsService_findGroupedInstructionsByDid)
IdentitiesController_rotatePrimaryKey ==
  Post("identities/rotate-primary-key", No404, IdentitiesService_rotatePrimaryKey ** authorizationRequestResolver)
IdentitiesController_attestPrimaryKeyRotation ==
  Post("identities/:did/rotate-primary-key", No404,
    IdentitiesService_attestPrimaryKeyRotation ** authorizationRequestResolver)
IdentitiesController_getIsAssetPreApproved ==
  Get("identities/:did/is-pre-approved", No404, IdentitiesService_isAssetPreApproved)
IdentitiesController_getPreApprovedAssets ==
  Get("identities/:did/pre-approved-assets", No404, IdentitiesService_getPreApprovedAssets)
IdentitiesController_getPendingDistributions ==
  Get("identities/:did/pending-distributions", No404, IdentitiesService_getPendingDistributions)
IdentitiesController_getAssetPermissions ==
  Get("identities/:did/external-agent", No404, IdentitiesService_findDidExternalAgentOf)

\* multi-sigs/multi-sigs.controller.ts
MultiSigsController_create == Post("multi-sigs/create", No404, MultiSigsService_create ** ReplyStored)
MultiSigsController_modify ==
  Post("multi-sigs/:multiSigAddress/modify", No404, MultiSigsService_modify ** Reply)
MultiSigsController_getProposal ==
  Get("multi-sigs/:multiSigAddress/proposals/:proposalId", No404,
    MultiSigsService_findProposal ** Query("proposal", "details"))
MultiSigsController_approveProposal ==
  Post("multi-sigs/:multiSigAddress/proposals/:proposalId/approve", Answers404, MultiSigsService_approve ** Reply)
MultiSigsController_rejectProposal ==
  Post("multi-sigs/:multiSigAddress/proposals/:proposalId/reject", Answers404, MultiSigsService_reject ** Reply)
MultiSigsController_getAdmin ==
  Get("multi-sigs/:multiSigAddress/admin", Answers404, MultiSigsService_getAdmin ** Check("NotFound"))
MultiSigsController_setAdmin ==
  Post("multi-sigs/:multiSigAddress/admin/set", No404, MultiSigsService_setAdmin ** Reply)
MultiSigsController_removeAdmin ==
  Post("multi-sigs/:multiSigAddress/admin/remove", Answers404, MultiSigsService_removeAdmin ** Reply)
MultiSigsController_getPayer ==
  Get("multi-sigs/:multiSigAddress/payer", Answers404, MultiSigsService_getPayer ** Check("NotFound"))
MultiSigsController_removePayer ==
  Post("multi-sigs/:multiSigAddress/payer/remove", Answers404, MultiSigsService_removePayer ** Reply)
MultiSigsController_getProposals ==
  Get("multi-sigs/:multiSigAddress/active-proposals", Answers404,
    MultiSigsService_getProposals ** Each(Ref("proposal") ** Query("proposal", "details")))
MultiSigsController_getHistoricalProposals ==
  Get("multi-sigs/:multiSigAddress/historical-proposals", Answers404,
    MultiSigsService_getHistoricalProposals ** Each(Ref("proposal") ** Query("proposal", "details")))

\* network/network.controller.ts
NetworkController_getNetworkProperties == Get("network", No404, NetworkService_getNetworkProperties)
NetworkController_getProtocolFees == Get("network/protocol-fees", No404, NetworkService_getProtocolFees)
NetworkController_getLatestBlock == Get("network/latest-block", No404, NetworkService_getLatestBlock)
NetworkController_getMiddleWareMetaData ==
  Get("network/middleware-metadata", Answers404, NetworkService_getMiddlewareMetadata ** Check("NotFound"))

\* portfolios/portfolios.controller.ts
PortfoliosController_getPortfolios ==
  Get("identities/:did/portfolios", No404,
    PortfoliosService_findAllByOwner ** Each(Ref("portfolio") ** createPortfolioModel))
PortfoliosController_moveAssets ==
  Post("identities/:did/portfolios/move-assets", No404, PortfoliosService_moveAssets ** Reply)
PortfoliosController_createPortfolio ==
  Post("portfolios/create", No404, PortfoliosService_createPortfolio ** ReplyUsed)
PortfoliosController_deletePortfolio ==
  InQuery(Post("identities/:did/portfolios/:id/delete", Answers404, PortfoliosService_deletePortfolio ** Reply))
PortfoliosController_modifyPortfolioName ==
  Post("identities/:did/portfolios/:id/modify-name", Answers404, PortfoliosService_updatePortfolioName ** Reply)
PortfoliosController_getCustodiedPortfolios ==
  Get("identities/:did/custodied-portfolios", No404, PortfoliosService_getCustodiedPortfolios)
PortfoliosController_getPortfolio ==
  Get("identities/:did/portfolios/:id", No404, PortfoliosService_findOne ** createPortfolioModel)
PortfoliosController_setCustodian ==
  Post("identities/:did/portfolios/:id/custodian", Answers404, PortfoliosService_setCustodian ** Reply)
PortfoliosController_getTransactionHistory ==
  Get("identities/:did/portfolios/:id/transactions", Answers404, PortfoliosService_getTransactions)
PortfoliosController_quitCustody ==
  Post("identities/:did/portfolios/:id/quit-custody", Answers404, PortfoliosService_quitCustody ** Reply)
PortfoliosController_createdAt ==
  Get("identities/:did/portfolios/:id/created-at", Answers404, PortfoliosService_createdAt ** Check("NotFound"))

\* signing/signing.controller.ts
SigningController_getSignerAddress == Get("signer/:signer", Answers404, SigningAccount)

\* subsidy/subsidy.controller.ts
SubsidyController_getSubsidy ==
  Get("accounts/subsidy/:subsidizer/:beneficiary", Answers404, SubsidyService_getAllowance)
SubsidyController_subsidizeAccount ==
  Post("accounts/subsidy/create", No404, SubsidyService_subsidizeAccount ** authorizationRequestResolver)
SubsidyController_setAllowance ==
  Post("accounts/subsidy/allowance/set", Answers404, SubsidyService_modifyAllowance("setAllowance") ** Reply)
SubsidyController_increaseAllowance ==
  Post("accounts/subsidy/allowance/increase", Answers404,
    SubsidyService_modifyAllowance("increaseAllowance") ** Reply)
SubsidyController_decreaseAllowance ==
  Post("accounts/subsidy/allowance/decrease", Answers404,
    SubsidyService_modifyAllowance("decreaseAllowance") ** Reply)
SubsidyController_quitSubsidy == Post("accounts/subsidy/quit", Answers404, SubsidyService_quit ** Reply)

\* ticker-reservations/ticker-reservations.controller.ts
TickerReservationsController_reserve ==
  Post("ticker-reservations/reserve-ticker", No404, TickerReservationsService_reserve ** Reply)
TickerReservationsController_getDetails ==
  Get("ticker-reservations/:ticker", No404, TickerReservationsService_findOne ** createTickerReservationModel)
TickerReservationsController_transferOwnership ==
  Post("ticker-reservations/:ticker/transfer-ownership", No404,
    TickerReservationsService_transferOwnership ** ReplyUsed)
TickerReservationsController_extendReservation ==
  Post("ticker-reservations/:ticker/extend", No404, TickerReservationsService_extend ** ReplyRead)

\* transactions/transactions.controller.ts
TransactionsController_getTransactionByHash ==
  Get("transactions/:hash/details", Answers404, NetworkService_getTransactionByHash ** Check("NotFound"))
TransactionsController_submitTransaction ==
  Post("transactions/submit", No404, NetworkService_submitTransaction)

---------------------------------------------------------------------------
IdentityRouteSet ==
  {AccountsController_getTreasuryBalance, AccountsController_getIdentity,
   AccountsController_getAccountBalance, AccountsController_transferPolyx,
   AccountsController_getTransactionHistory, AccountsController_getPermissions,
   AccountsController_getSubsidy, AccountsController_freezeSecondaryAccounts,
   AccountsController_unfreezeSecondaryAccounts, AccountsController_revokePermissions,
   AccountsController_modifyPermissions, AccountsController_getTreasuryAccount,
   AccountsController_getAccountDetails, AccountsController_getOffChainReceipts,
   AuthorizationsController_accept, AuthorizationsController_remove, ClaimsController_addClaims,
   ClaimsController_editClaims, ClaimsController_revokeClaims,
   ClaimsController_registerCustomClaimType, ClaimsController_getCustomClaimTypes,
   ClaimsController_getCustomClaimType, IdentitiesController_registerIdentity,
   IdentitiesController_getIdentityDetails, IdentitiesController_getPendingAuthorizations,
   IdentitiesController_getPendingAuthorization, IdentitiesController_getAssets,
   IdentitiesController_getHeldAssets, IdentitiesController_getPendingInstructions,
   IdentitiesController_getVenues, IdentitiesController_getIssuedClaims,
   IdentitiesController_getAssociatedClaims, IdentitiesController_getTrustingAssets,
   IdentitiesController_addSecondaryAccount, IdentitiesController_getTickerReservations,
   IdentitiesController_getCddClaims, IdentitiesController_getClaimScopes,
   IdentitiesController_getGroupedInstructions, IdentitiesController_rotatePrimaryKey,
   IdentitiesController_attestPrimaryKeyRotation, IdentitiesController_getIsAssetPreApproved,
   IdentitiesController_getPreApprovedAssets, IdentitiesController_getPendingDistributions,
   IdentitiesController_getAssetPermissions, MultiSigsController_create, MultiSigsController_modify,
   MultiSigsController_getProposal, MultiSigsController_approveProposal,
   MultiSigsController_rejectProposal, MultiSigsController_getAdmin, MultiSigsController_setAdmin,
   MultiSigsController_removeAdmin, MultiSigsController_getPayer, MultiSigsController_removePayer,
   MultiSigsController_getProposals, MultiSigsController_getHistoricalProposals,
   NetworkController_getNetworkProperties, NetworkController_getProtocolFees,
   NetworkController_getLatestBlock, NetworkController_getMiddleWareMetaData,
   PortfoliosController_getPortfolios, PortfoliosController_moveAssets,
   PortfoliosController_createPortfolio, PortfoliosController_deletePortfolio,
   PortfoliosController_modifyPortfolioName, PortfoliosController_getCustodiedPortfolios,
   PortfoliosController_getPortfolio, PortfoliosController_setCustodian,
   PortfoliosController_getTransactionHistory, PortfoliosController_quitCustody,
   PortfoliosController_createdAt, SigningController_getSignerAddress, SubsidyController_getSubsidy,
   SubsidyController_subsidizeAccount, SubsidyController_setAllowance,
   SubsidyController_increaseAllowance, SubsidyController_decreaseAllowance,
   SubsidyController_quitSubsidy, TickerReservationsController_reserve,
   TickerReservationsController_getDetails, TickerReservationsController_transferOwnership,
   TickerReservationsController_extendReservation, TransactionsController_getTransactionByHash,
   TransactionsController_submitTransaction}
============================================================================
