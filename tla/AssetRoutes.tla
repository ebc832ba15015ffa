---------------------------- MODULE AssetRoutes ----------------------------
(***************************************************************************)
(* The controllers of assets and what belongs to them.  One definition per *)
(* route.                                                                  *)
(***************************************************************************)
EXTENDS IdentityRoutes

\* assets.util.ts, metadata.util.ts, settlements.util.ts: models that are read from
\* the chain.
createAssetDetailsModel ==
  Query("asset", "details") ** Query("asset", "getIdentifiers")
    ** (Skip \cup Query("asset", "currentFundingRound")) ** Query("asset", "isFrozen")
createMetadataDetailsModel == Query("metadata", "details") ** Query("metadata", "value")
createInstructionModel ==
  Query("instruction", "details") ** Query("instruction", "getLegs") ** Query("instruction", "getStatus")
    ** Query("instruction", "getMediators")

\* assets/assets.controller.ts
AssetsController_getGlobalMetadataKeys == Get("assets/global-metadata", No404, MetadataService_findGlobalKeys)
AssetsController_getDetails == Get("assets/:asset", No404, AssetsService_findOne ** createAssetDetailsModel)
AssetsController_getHolders == Get("assets/:asset/holders", No404, AssetsService_findHolders)
AssetsController_getDocuments == Get("assets/:asset/documents", No404, AssetsService_findDocuments)
AssetsController_setDocuments ==
  Post("assets/:asset/documents/set", Answers404, AssetsService_setDocuments ** Reply)
AssetsController_enableVenueFiltering ==
  Post("assets/:asset/venue-filtering/enable", No404, AssetsService_enableVenueFiltering ** Reply)
AssetsController_disableVenueFiltering ==
  Post("assets/:asset/venue-filtering/disable", No404, AssetsService_disableVenueFiltering ** Reply)
AssetsController_allowVenues ==
  Post("assets/:asset/venue-filtering/allow", No404, AssetsService_allowVenues ** Reply)
AssetsController_disallowVenues ==
  Post("assets/:asset/venue-filtering/disallow", No404, AssetsService_disallowVenues ** Reply)
AssetsController_getVenueFilteringDetails ==
  Get("assets/:asset/venue-filtering", No404, AssetsService_getVenueFilteringDetails)
AssetsController_issue == Post("assets/:asset/issue", Answers404, AssetsService_issue ** Reply)
AssetsController_createAsset == Post("assets/create", Answers404, AssetsService_createAsset ** ReplyStored)
AssetsController_transferOwnership ==
  Post("assets/:asset/transfer-ownership", No404, AssetsService_transferOwnership ** authorizationRequestResolver)
AssetsController_redeem == Post("assets/:asset/redeem", Answers404, AssetsService_redeem ** Reply)
AssetsController_freeze == Post("assets/:asset/freeze", Answers404, AssetsService_freeze ** Reply)
AssetsController_unfreeze == Post("assets/:asset/unfreeze", Answers404, AssetsService_unfreeze ** Reply)
AssetsController_controllerTransfer ==
  Post("assets/:asset/controller-transfer", Answers404, AssetsService_controllerTransfer ** Reply)
AssetsController_getOperationHistory ==
  Get("assets/:asset/operations", No404, AssetsService_getOperationHistory)
AssetsController_getRequiredMediators ==
  Get("assets/:asset/required-mediators", No404, AssetsService_getRequiredMediators)
AssetsController_addRequiredMediators ==
  Post("assets/:asset/add-required-mediators", Answers404, AssetsService_addRequiredMediators ** Reply)
AssetsController_removeRequiredMediators ==
  Post("assets/:asset/remove-required-mediators", Answers404, AssetsService_removeRequiredMediators ** Reply)
AssetsController_preApprove ==
  Post("assets/:asset/pre-approve", Answers404, AssetsService_preApprove ** Reply)
AssetsController_removePreApproval ==
  Post("assets/:asset/remove-pre-approval", Answers404, AssetsService_removePreApproval ** Reply)
AssetsController_linkTicker ==
  Post("assets/:asset/link-ticker", Answers404, AssetsService_linkTickerToAsset ** Reply)
AssetsController_unlinkTicker ==
  Post("assets/:asset/unlink-ticker", Answers404, AssetsService_unlinkTickerFromAsset ** Reply)
AssetsController_getTransferRestrictions ==
  Get("assets/:asset/transfer-restrictions", No404, AssetsService_getTransferRestrictions)
AssetsController_getTransferRestrictionValues ==
  Get("assets/:asset/transfer-restrictions/values", No404, AssetsService_getTransferRestrictionValues)
AssetsController_setTransferRestrictions ==
  Post("assets/:asset/transfer-restrictions/set", Answers404, AssetsService_setTransferRestrictions ** Reply)
AssetsController_addTransferRestrictions ==
  Post("assets/:asset/transfer-restrictions/add", Answers404, AssetsService_addTransferRestrictions ** Reply)
AssetsController_removeTransferRestrictions ==
  Post("assets/:asset/transfer-restrictions/remove", Answers404, AssetsService_removeTransferRestrictions ** Reply)
AssetsController_getStats == Get("assets/:asset/transfer-restrictions/stats", No404, AssetsService_getStats)
AssetsController_setStats ==
  Post("assets/:asset/transfer-restrictions/stats/set", Answers404, AssetsService_setStats ** Reply)

\* checkpoints/checkpoints.controller.ts
CheckpointsController_getCheckpoints ==
  Get("assets/:asset/checkpoints", No404, CheckpointsService_findAllByAsset)
CheckpointsController_createCheckpoint ==
  Post("assets/:asset/checkpoints", No404, CheckpointsService_createByAsset ** ReplyStored)
CheckpointsController_getSchedules ==
  Get("assets/:asset/checkpoints/schedules", No404, CheckpointsService_findSchedulesByAsset)
CheckpointsController_getSchedule ==
  Get("assets/:asset/checkpoints/schedules/:id", Answers404, CheckpointsService_findScheduleById)
CheckpointsController_createSchedule ==
  Post("assets/:asset/checkpoints/schedules/create", No404, CheckpointsService_createScheduleByAsset ** ReplyFound)
CheckpointsController_getHolders ==
  Get("assets/:asset/checkpoints/:id/balances", Answers404, CheckpointsService_getHolders)
CheckpointsController_getAssetBalance ==
  Get("assets/:asset/checkpoints/:id/balances/:did", Answers404, CheckpointsService_getAssetBalance)
CheckpointsController_deleteSchedule ==
  InQuery(Post("assets/:asset/checkpoints/schedules/:id/delete", Answers404,
    CheckpointsService_deleteScheduleByAsset ** Reply))
CheckpointsController_getCheckpointsBySchedule ==
  Get("assets/:asset/checkpoints/schedules/:id/checkpoints", Answers404,
    CheckpointsService_findCheckpointsByScheduleId)
CheckpointsController_getComplexity ==
  Get("assets/:asset/checkpoints/complexity", Answers404, CheckpointsService_getComplexityForAsset)
CheckpointsController_getPeriodComplexity ==
  Get("assets/:asset/checkpoints/schedules/:id/complexity", Answers404, CheckpointsService_getComplexityForPeriod)
CheckpointsController_getCheckpoint ==
  Get("assets/:asset/checkpoints/:id", Answers404,
    CheckpointsService_findOne ** Query("checkpoint", "createdAt") ** Query("checkpoint", "totalSupply"))

\* compliance/compliance-requirements.controller.ts
ComplianceRequirementsController_getComplianceRequirements ==
  Get("assets/:asset/compliance-requirements", Answers404,
    ComplianceRequirementsService_findComplianceRequirements)
ComplianceRequirementsController_setRequirements ==
  Post("assets/:asset/compliance-requirements/set", Answers404,
    ComplianceRequirementsService_setRequirements ** Reply)
ComplianceRequirementsController_pauseRequirements ==
  Post("assets/:asset/compliance-requirements/pause", Answers404,
    ComplianceRequirementsService_pauseRequirements ** Reply)
ComplianceRequirementsController_unpauseRequirements ==
  Post("assets/:asset/compliance-requirements/unpause", Answers404,
    ComplianceRequirementsService_unpauseRequirements ** Reply)
ComplianceRequirementsController_deleteRequirement ==
  Post("assets/:asset/compliance-requirements/:id/delete", Answers404,
    ComplianceRequirementsService_deleteOne ** Reply)
ComplianceRequirementsController_deleteRequirements ==
  Post("assets/:asset/compliance-requirements/delete", Answers404,
    ComplianceRequirementsService_deleteAll ** Reply)
ComplianceRequirementsController_addRequirement ==
  Post("assets/:asset/compliance-requirements/add", Answers404, ComplianceRequirementsService_add ** Reply)
ComplianceRequirementsController_modifyComplianceRequirement ==
  Post("assets/:asset/compliance-requirements/:id/modify", Answers404,
    ComplianceRequirementsService_modify ** Reply)
ComplianceRequirementsController_areRequirementsPaused ==
  Get("assets/:asset/compliance-requirements/status", Answers404, ComplianceRequirementsService_arePaused)

\* compliance/trusted-claim-issuers.controller.ts
TrustedClaimIssuersController_getTrustedClaimIssuers ==
  Get("assets/:asset/trusted-claim-issuers", No404, TrustedClaimIssuersService_find)
TrustedClaimIssuersController_setTrustedClaimIssuers ==
  Post("assets/:asset/trusted-claim-issuers/set", Answers404, TrustedClaimIssuersService_set ** Reply)
TrustedClaimIssuersController_addTrustedClaimIssuers ==
  Post("assets/:asset/trusted-claim-issuers/add", Answers404, TrustedClaimIssuersService_add ** Reply)
TrustedClaimIssuersController_removeTrustedClaimIssuers ==
  Post("assets/:asset/trusted-claim-issuers/remove", Answers404, TrustedClaimIssuersService_remove ** Reply)

\* corporate-actions/corporate-actions.controller.ts
CorporateActionsController_getDefaultConfig ==
  Get("assets/:asset/corporate-actions/default-config", No404, CorporateActionsService_findDefaultConfigByAsset)
CorporateActionsController_updateDefaultConfig ==
  Post("assets/:asset/corporate-actions/default-config/modify", No404,
    CorporateActionsService_updateDefaultConfigByAsset ** Reply)
CorporateActionsController_getDividendDistributions ==
  Get("assets/:asset/corporate-actions/dividend-distributions", No404,
    CorporateActionsService_findDistributionsByAsset)
CorporateActionsController_getDividendDistribution ==
  Get("assets/:asset/corporate-actions/dividend-distributions/:id", No404,
    CorporateActionsService_findDistribution)
CorporateActionsController_createDividendDistribution ==
  Post("assets/:asset/corporate-actions/dividend-distributions/create", Answers404,
    CorporateActionsService_createDividendDistribution ** ReplyUsed)
CorporateActionsController_deleteCorporateAction ==
  InQuery(Post("assets/:asset/corporate-actions/:id/delete", No404, CorporateActionsService_remove ** Reply))
CorporateActionsController_payDividends ==
  Post("assets/:asset/corporate-actions/dividend-distributions/:id/payments/pay", No404,
    CorporateActionsService_payDividends ** Reply)
CorporateActionsController_linkDocuments ==
  Post("assets/:asset/corporate-actions/:id/documents/link", No404, CorporateActionsService_linkDocuments ** Reply)
CorporateActionsController_claimDividends ==
  Post("assets/:asset/corporate-actions/:id/payments/claim", No404,
    CorporateActionsService_claimDividends ** Reply)
CorporateActionsController_reclaimRemainingFunds ==
  Post("assets/:asset/corporate-actions/:id/reclaim-funds", No404,
    CorporateActionsService_reclaimRemainingFunds ** Reply)
CorporateActionsController_modifyDistributionCheckpoint ==
  Post("assets/:asset/corporate-actions/dividend-distributions/:id/modify-checkpoint", Answers404,
    CorporateActionsService_modifyCheckpoint ** Reply)
CorporateActionsController_getPaymentHistory ==
  Get("assets/:asset/corporate-actions/dividend-distributions/:id/payment-history", Answers404,
    CorporateActionsService_getPaymentHistory)

\* metadata/metadata.controller.ts
MetadataController_getMetadata == Get("assets/:asset/metadata", No404, MetadataService_findAll)
MetadataController_getSingleMetadata ==
  Get("assets/:asset/metadata/:type/:id", Answers404, MetadataService_findOne ** createMetadataDetailsModel)
MetadataController_createMetadata ==
  Post("assets/:asset/metadata/create", Answers404, MetadataService_create ** ReplyUsed)
MetadataController_setMetadata ==
  Post("assets/:asset/metadata/:type/:id/set", Answers404, MetadataService_setValue ** Reply)
MetadataController_clearMetadata ==
  Post("assets/:asset/metadata/:type/:id/clear", Answers404, MetadataService_clearValue ** Reply)
MetadataController_removeLocalMetadata ==
  Post("assets/:asset/metadata/:type/:id/remove", Answers404, MetadataService_removeKey ** Reply)

\* nfts/nfts.controller.ts
NftsController_getCollectionKeys == Get("nfts/:asset/collection-keys", No404, NftsService_getCollectionKeys)
NftsController_getNftDetails == Get("nfts/:asset/:id", No404, NftsService_nftDetails)
NftsController_createNftCollection ==
  Post("nfts/create", No404, NftsService_createNftCollection ** ReplyStored)
NftsController_issueNft == Post("nfts/:asset/issue", No404, NftsService_issueNft ** Reply)
NftsController_redeem == Post("nfts/:asset/:id/redeem", No404, NftsService_redeemNft ** Reply)

\* offerings/offerings.controller.ts
OfferingsController_getOfferings == Get("assets/:asset/offerings", No404, OfferingsService_findAllByAsset)
OfferingsController_getInvestments ==
  Get("assets/:asset/offerings/:id/investments", No404, OfferingsService_findInvestmentsByAsset)

\* permission-groups/permission-groups.controller.ts
PermissionGroupsController_createGroup ==
  Post("assets/:asset/permission-groups/create", Answers404,
    PermissionGroupsService_createPermissionGroup ** ReplyStored)
PermissionGroupsController_getPermissionGroupsWithPermissions ==
  Get("assets/:asset/permission-groups", Answers404, PermissionGroupsService_getPermissionGroups)
PermissionGroupsController_inviteAgent ==
  Post("assets/:asset/permission-groups/invite-agent", Answers404,
    PermissionGroupsService_inviteAgentToGroup ** authorizationRequestResolver)
PermissionGroupsController_assignAgentToGroup ==
  Post("assets/:asset/permission-groups/assign-agent", Answers404,
    PermissionGroupsService_assignAgentToGroup ** Reply)
PermissionGroupsController_removeAgent ==
  Post("assets/:asset/permission-groups/remove-agent", Answers404,
    PermissionGroupsService_removeAgentFromAsset ** Reply)
PermissionGroupsController_abdicateAgent ==
  Post("assets/:asset/permission-groups/abdicate", Answers404, PermissionGroupsService_abdicateAgent ** Reply)
PermissionGroupsController_checkPermissions ==
  Get("assets/:asset/permission-groups/check-permissions", Answers404, PermissionGroupsService_checkPermissions)
PermissionGroupsController_getGroupPermissions ==
  Get("assets/:asset/permission-groups/:id", Answers404, PermissionGroupsService_getGroupPermissions)
PermissionGroupsController_setPermissions ==
  Post("assets/:asset/permission-groups/:id/set", Answers404, PermissionGroupsService_modifyPermissions ** Reply)

\* settlements/settlements.controller.ts
SettlementsController_getInstruction ==
  Get("instructions/:id", Answers404, SettlementsService_findInstruction ** createInstructionModel)
SettlementsController_affirmInstruction ==
  Post("instructions/:id/affirm", No404, SettlementsService_affirmInstruction ** Reply)
SettlementsController_rejectInstruction ==
  Post("instructions/:id/reject", No404, SettlementsService_rejectInstruction ** Reply)
SettlementsController_withdrawAffirmation ==
  Post("instructions/:id/withdraw", Answers404, SettlementsService_withdrawAffirmation ** Reply)
SettlementsController_affirmInstructionAsMediator ==
  Post("instructions/:id/affirm-as-mediator", No404, SettlementsService_affirmInstructionAsMediator ** Reply)
SettlementsController_rejectInstructionAsMediator ==
  Post("instructions/:id/reject-as-mediator", No404, SettlementsService_rejectInstructionAsMediator ** Reply)
SettlementsController_withdrawAffirmationAsMediator ==
  Post("instructions/:id/withdraw-as-mediator", Answers404,
    SettlementsService_withdrawAffirmationAsMediator ** Reply)
SettlementsController_getAffirmations ==
  Get("instructions/:id/affirmations", No404, SettlementsService_findAffirmations)
SettlementsController_getOffChainAffirmations ==
  Get("instructions/:id/off-chain-affirmations", No404, SettlementsService_fetchOffChainAffirmations)
SettlementsController_getOffChainAffirmationForLeg ==
  Get("instructions/:id/off-chain-affirmations/:legId", No404, SettlementsService_fetchOffChainAffirmationForALeg)
SettlementsController_validateLeg == Get("leg-validations", No404, SettlementsService_canTransfer)
SettlementsController_executeInstruction ==
  Post("instructions/:id/execute-manually", No404, SettlementsService_executeInstruction ** Reply)
SettlementsController_addInstruction ==
  Post("instructions/create", No404, SettlementsService_createInstruction(FALSE) ** ReplyRead)

\* settlements/venues.controller.ts
VenuesController_getVenueDetails == Get("venues/:id", No404, SettlementsService_findVenueDetails)
VenuesController_getAllowedSigners == Get("venues/:id/signers", No404, SettlementsService_fetchAllowedSigners)
VenuesController_createVenue == Post("venues/create", No404, SettlementsService_createVenue ** ReplyStored)
VenuesController_modifyVenue == Post("venues/:id/modify", No404, SettlementsService_modifyVenue ** Reply)
VenuesController_addVenueSigners ==
  Post("venues/:id/add-signers", No404, SettlementsService_updateVenueSigners(TRUE) ** Reply)
VenuesController_removeVenueSigners ==
  Post("venues/:id/remove-signers", No404, SettlementsService_updateVenueSigners(FALSE) ** Reply)
VenuesController_createInstruction ==
  Post("venues/:id/instructions/create", No404, SettlementsService_createInstruction(TRUE) ** ReplyRead)

---------------------------------------------------------------------------
AssetRouteSet ==
  {AssetsController_getGlobalMetadataKeys, AssetsController_getDetails, AssetsController_getHolders,
   AssetsController_getDocuments, AssetsController_setDocuments, AssetsController_enableVenueFiltering,
   AssetsController_disableVenueFiltering, AssetsController_allowVenues,
   AssetsController_disallowVenues, AssetsController_getVenueFilteringDetails, AssetsController_issue,
   AssetsController_createAsset, AssetsController_transferOwnership, AssetsController_redeem,
   AssetsController_freeze, AssetsController_unfreeze, AssetsController_controllerTransfer,
   AssetsController_getOperationHistory, AssetsController_getRequiredMediators,
   AssetsController_addRequiredMediators, AssetsController_removeRequiredMediators,
   AssetsController_preApprove, AssetsController_removePreApproval, AssetsController_linkTicker,
   AssetsController_unlinkTicker, AssetsController_getTransferRestrictions,
   AssetsController_getTransferRestrictionValues, AssetsController_setTransferRestrictions,
   AssetsController_addTransferRestrictions, AssetsController_removeTransferRestrictions,
   AssetsController_getStats, AssetsController_setStats, CheckpointsController_getCheckpoints,
   CheckpointsController_createCheckpoint, CheckpointsController_getSchedules,
   CheckpointsController_getSchedule, CheckpointsController_createSchedule,
   CheckpointsController_getHolders, CheckpointsController_getAssetBalance,
   CheckpointsController_deleteSchedule, CheckpointsController_getCheckpointsBySchedule,
   CheckpointsController_getComplexity, CheckpointsController_getPeriodComplexity,
   CheckpointsController_getCheckpoint, ComplianceRequirementsController_getComplianceRequirements,
   ComplianceRequirementsController_setRequirements,
   ComplianceRequirementsController_pauseRequirements,
   ComplianceRequirementsController_unpauseRequirements,
   ComplianceRequirementsController_deleteRequirement,
   ComplianceRequirementsController_deleteRequirements,
   ComplianceRequirementsController_addRequirement,
   ComplianceRequirementsController_modifyComplianceRequirement,
   ComplianceRequirementsController_areRequirementsPaused,
   TrustedClaimIssuersController_getTrustedClaimIssuers,
   TrustedClaimIssuersController_setTrustedClaimIssuers,
   TrustedClaimIssuersController_addTrustedClaimIssuers,
   TrustedClaimIssuersController_removeTrustedClaimIssuers,
   CorporateActionsController_getDefaultConfig, CorporateActionsController_updateDefaultConfig,
   CorporateActionsController_getDividendDistributions,
   CorporateActionsController_getDividendDistribution,
   CorporateActionsController_createDividendDistribution,
   CorporateActionsController_deleteCorporateAction, CorporateActionsController_payDividends,
   CorporateActionsController_linkDocuments, CorporateActionsController_claimDividends,
   CorporateActionsController_reclaimRemainingFunds,
   CorporateActionsController_modifyDistributionCheckpoint,
   CorporateActionsController_getPaymentHistory, MetadataController_getMetadata,
   MetadataController_getSingleMetadata, MetadataController_createMetadata,
   MetadataController_setMetadata, MetadataController_clearMetadata,
   MetadataController_removeLocalMetadata, NftsController_getCollectionKeys,
   NftsController_getNftDetails, NftsController_createNftCollection, NftsController_issueNft,
   NftsController_redeem, OfferingsController_getOfferings, OfferingsController_getInvestments,
   PermissionGroupsController_createGroup,
   PermissionGroupsController_getPermissionGroupsWithPermissions,
   PermissionGroupsController_inviteAgent, PermissionGroupsController_assignAgentToGroup,
   PermissionGroupsController_removeAgent, PermissionGroupsController_abdicateAgent,
   PermissionGroupsController_checkPermissions, PermissionGroupsController_getGroupPermissions,
   PermissionGroupsController_setPermissions, SettlementsController_getInstruction,
   SettlementsController_affirmInstruction, SettlementsController_rejectInstruction,
   SettlementsController_withdrawAffirmation, SettlementsController_affirmInstructionAsMediator,
   SettlementsController_rejectInstructionAsMediator,
   SettlementsController_withdrawAffirmationAsMediator, SettlementsController_getAffirmations,
   SettlementsController_getOffChainAffirmations, SettlementsController_getOffChainAffirmationForLeg,
   SettlementsController_validateLeg, SettlementsController_executeInstruction,
   SettlementsController_addInstruction, VenuesController_getVenueDetails,
   VenuesController_getAllowedSigners, VenuesController_createVenue, VenuesController_modifyVenue,
   VenuesController_addVenueSigners, VenuesController_removeVenueSigners,
   VenuesController_createInstruction}
============================================================================
