-------------------------- MODULE IdentityServices --------------------------
(***************************************************************************)
(* The services of accounts, identities and what belongs to them:          *)
(* authorizations, claims, portfolios, multi-sigs, subsidies, ticker       *)
(* reservations and the network.  One definition per method: the paths     *)
(* through it, in the order in which the code awaits.                      *)
(***************************************************************************)
EXTENDS Steps

\* accounts/accounts.service.ts
AccountsService_findOne == Find("account")
AccountsService_getIdentity == AccountsService_findOne ** Query("account", "getIdentity")
AccountsService_getAccountBalance == Query("api", "getAccountBalance")
AccountsService_transferPolyx == Options ** Submit("api", "transferPolyx")
AccountsService_getTransactionHistory == AccountsService_findOne ** Query("account", "getTransactionHistory")
AccountsService_getPermissions == AccountsService_findOne ** MappedQuery("account", "getPermissions")
AccountsService_freezeSecondaryAccounts == Options ** Submit("api", "freezeSecondaryAccounts")
AccountsService_unfreezeSecondaryAccounts == Options ** Submit("api", "unfreezeSecondaryAccounts")
AccountsService_revokePermissions == Options ** Submit("api", "revokePermissions")
AccountsService_modifyPermissions == Options ** Submit("api", "modifyPermissions")
AccountsService_getMultiSigDetails == Skip \cup Ref("multiSig") ** Query("multiSig", "details")
AccountsService_getDetails ==
  AccountsService_findOne ** Query("account", "getIdentity") ** Query("account", "getMultiSig")
    ** AccountsService_getMultiSigDetails
AccountsService_fetchOffChainReceipts == AccountsService_findOne ** Query("account", "getOffChainReceipts")

\* identities/identities.service.ts
IdentitiesService_findOne == Find("identity")
IdentitiesService_findTrustingAssets == IdentitiesService_findOne ** Query("identity", "getTrustingAssets")
IdentitiesService_findHeldAssets == IdentitiesService_findOne ** Query("identity", "getHeldAssets")
IdentitiesService_addSecondaryAccount == Options ** Submit("api", "inviteAccount")
IdentitiesService_registerDid == Options ** Submit("api", "registerIdentity")
IdentitiesService_rotatePrimaryKey == Options ** Submit("api", "rotatePrimaryKey")
IdentitiesService_attestPrimaryKeyRotation ==
  IdentitiesService_findOne ** Options ** Submit("api", "attestPrimaryKeyRotation")
IdentitiesService_getPreApprovedAssets == IdentitiesService_findOne ** Query("identity", "preApprovedAssets")
IdentitiesService_isAssetPreApproved == IdentitiesService_findOne ** Query("identity", "isAssetPreApproved")
IdentitiesService_getPendingDistributions == IdentitiesService_findOne ** Query("identity", "getPendingDistributions")
IdentitiesService_findDidExternalAgentOf == IdentitiesService_findOne ** Query("identity", "assetPermissions.get")

\* authorizations/authorizations.service.ts
AuthorizationsService_findPendingByDid == IdentitiesService_findOne ** Query("identity", "authorizations.getReceived")
AuthorizationsService_findIssuedByDid == IdentitiesService_findOne ** Query("identity", "authorizations.getSent")
AuthorizationsService_findOne == Find("authorization")
AuthorizationsService_findOneByDid == IdentitiesService_findOne ** AuthorizationsService_findOne
\* The identity of the account is asked first, and the account itself when the
\* identity is absent or has no such authorization.
AuthorizationsService_getAuthRequest ==
  AccountsService_findOne ** Query("account", "getIdentity")
    ** (Skip \cup TryFind("authorization")) ** OrFind("authorization")
AuthorizationsService_accept ==
  Options ** SigningAccount ** AuthorizationsService_getAuthRequest ** Submit("authorization", "accept")
AuthorizationsService_remove ==
  Options ** SigningAccount ** AuthorizationsService_getAuthRequest ** Submit("authorization", "remove")

\* claims/claims.service.ts
ClaimsService_findIssuedByDid == Query("api", "getIssuedClaims")
\* data?.[0].claims: a page without an identity has no element 0.
ClaimsService_findAssociatedByDid == Query("api", "getIdentitiesWithClaims") ** Dereference("api")
ClaimsService_addClaimsOnDid == Options ** Submit("api", "addClaims")
ClaimsService_editClaimsOnDid == Options ** Submit("api", "editClaims")
ClaimsService_revokeClaimsFromDid == Options ** Submit("api", "revokeClaims")
ClaimsService_findClaimScopesByDid == Query("api", "getClaimScopes")
ClaimsService_findCddClaimsByDid == Query("api", "getCddClaims")
ClaimsService_getCustomClaimTypeByName == Query("api", "getCustomClaimTypeByName")
ClaimsService_getCustomClaimTypeById == Query("api", "getCustomClaimTypeById")
ClaimsService_registerCustomClaimType == Options ** Submit("api", "registerCustomClaimType")
ClaimsService_getRegisteredCustomClaimTypes == Query("api", "getAllCustomClaimTypes")

\* portfolios/portfolios.service.ts
PortfoliosService_findAllByOwner == IdentitiesService_findOne ** Query("identity", "portfolios.getPortfolios")
PortfoliosService_findOne == IdentitiesService_findOne ** Find("portfolio")
PortfoliosService_moveAssets == Options ** PortfoliosService_findOne ** Submit("portfolio", "moveFunds")
PortfoliosService_createPortfolio == Options ** Submit("api", "createPortfolio")
PortfoliosService_deletePortfolio == IdentitiesService_findOne ** Options ** Submit("identity", "portfolios.delete")
PortfoliosService_getCustodiedPortfolios ==
  IdentitiesService_findOne ** Query("identity", "portfolios.getCustodiedPortfolios")
PortfoliosService_updatePortfolioName ==
  Check("Validation") ** Options ** PortfoliosService_findOne ** Submit("portfolio", "modifyName")
PortfoliosService_setCustodian == PortfoliosService_findOne ** Options ** Submit("portfolio", "setCustodian")
PortfoliosService_getTransactions == PortfoliosService_findOne ** Query("portfolio", "getTransactionHistory")
PortfoliosService_quitCustody == PortfoliosService_findOne ** Options ** Submit("portfolio", "quitCustody")
PortfoliosService_createdAt == Check("Validation") ** PortfoliosService_findOne ** Query("portfolio", "createdAt")

\* multi-sigs/multi-sigs.service.ts
MultiSigsService_findOne == AccountsService_findOne ** Check("Validation") ** Ref("multiSig")
MultiSigsService_findProposal == MultiSigsService_findOne ** Find("proposal")
MultiSigsService_create == Options ** Each(AccountsService_findOne) ** Submit("api", "createMultiSigAccount")
MultiSigsService_modify ==
  Options ** Each(RawFind("account")) ** MultiSigsService_findOne ** Submit("multiSig", "modify")
MultiSigsService_approve == Options ** MultiSigsService_findProposal ** Submit("proposal", "approve")
MultiSigsService_reject == Options ** MultiSigsService_findProposal ** Submit("proposal", "reject")
MultiSigsService_getAdmin == MultiSigsService_findOne ** MappedQuery("multiSig", "getAdmin")
MultiSigsService_getPayer == MultiSigsService_findOne ** MappedQuery("multiSig", "getPayer")
MultiSigsService_setAdmin == Options ** MultiSigsService_findOne ** Submit("multiSig", "setAdmin")
MultiSigsService_removeAdmin == Options ** MultiSigsService_findOne ** Submit("multiSig", "setAdmin")
MultiSigsService_removePayer == Options ** MultiSigsService_findOne ** Submit("multiSig", "removePayer")
MultiSigsService_getProposals == MultiSigsService_findOne ** MappedQuery("multiSig", "getProposals")
MultiSigsService_getHistoricalProposals == MultiSigsService_findOne ** Query("multiSig", "getHistoricalProposals")

\* subsidy/subsidy.service.ts
SubsidyService_getSubsidy == AccountsService_findOne ** Query("account", "subsidies.getSubsidizer")
SubsidyService_findOne == Ref("subsidy")
SubsidyService_subsidizeAccount == Options ** Submit("api", "subsidizeAccount")
SubsidyService_quit ==
  Options ** SigningAccount ** Check("Validation") ** SubsidyService_findOne ** Submit("subsidy", "quit")
SubsidyService_modifyAllowance(operation) ==
  Options ** SigningAccount ** SubsidyService_findOne ** Submit("subsidy", operation)
SubsidyService_getAllowance == SubsidyService_findOne ** MappedQuery("subsidy", "getAllowance")

\* ticker-reservations/ticker-reservations.service.ts
TickerReservationsService_findOne == RawFind("tickerReservation")
TickerReservationsService_reserve == Options ** Submit("api", "reserveTicker")
TickerReservationsService_transferOwnership ==
  Options ** TickerReservationsService_findOne ** Submit("tickerReservation", "transferOwnership")
TickerReservationsService_extend ==
  Options ** TickerReservationsService_findOne ** Submit("tickerReservation", "extend")
TickerReservationsService_findAllByOwner == Query("api", "getTickerReservations")

\* network/network.service.ts
NetworkService_getNetworkProperties == Query("api", "getNetworkProperties")
NetworkService_getLatestBlock == Query("api", "getLatestBlock")
NetworkService_getTreasuryAccount == Ref("account")
NetworkService_getTreasuryBalance == Query("api", "getTreasuryBalance")
NetworkService_getProtocolFees == Query("api", "getProtocolFees")
NetworkService_getTransactionByHash == Query("api", "getTransactionByHash")
NetworkService_submitTransaction == SubmitSigned
NetworkService_getMiddlewareMetadata == Query("api", "getMiddlewareMetadata")
=============================================================================
