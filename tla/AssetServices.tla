--------------------------- MODULE AssetServices ---------------------------
(***************************************************************************)
(* The services of assets and what belongs to them: checkpoints,           *)
(* compliance, corporate actions, metadata, NFTs, offerings, permission    *)
(* groups and settlements.  One definition per method, as in               *)
(* IdentityServices.                                                       *)
(***************************************************************************)
EXTENDS IdentityServices

\* assets/assets.service.ts
AssetsService_findOne == Find("asset")
AssetsService_findFungible == Find("asset")
AssetsService_findAllByOwner ==
  Query("api", "isIdentityValid") ** Check("NotFound") ** Query("api", "getAssets")
AssetsService_findHolders == AssetsService_findFungible ** Query("asset", "assetHolders.get")
AssetsService_findDocuments == AssetsService_findOne ** Query("asset", "documents.get")
AssetsService_setDocuments == AssetsService_findOne ** Options ** Submit("asset", "documents.set")
AssetsService_enableVenueFiltering == Options ** AssetsService_findOne ** Submit("asset", "setVenueFiltering")
AssetsService_disableVenueFiltering == Options ** AssetsService_findOne ** Submit("asset", "setVenueFiltering")
AssetsService_allowVenues == Options ** AssetsService_findOne ** Submit("asset", "setVenueFiltering")
AssetsService_disallowVenues == Options ** AssetsService_findOne ** Submit("asset", "setVenueFiltering")
AssetsService_getVenueFilteringDetails ==
  AssetsService_findOne ** MappedQuery("asset", "getVenueFilteringDetails")
AssetsService_createAsset == Options ** Submit("api", "createAsset")
AssetsService_issue == Options ** AssetsService_findFungible ** Submit("asset", "issuance.issue")
AssetsService_transferOwnership == Options ** AssetsService_findOne ** Submit("asset", "transferOwnership")
AssetsService_redeem == Options ** AssetsService_findFungible ** Submit("asset", "redeem")
AssetsService_freeze == Options ** AssetsService_findOne ** Submit("asset", "freeze")
AssetsService_unfreeze == Options ** AssetsService_findOne ** Submit("asset", "unfreeze")
AssetsService_controllerTransfer == Options ** AssetsService_findFungible ** Submit("asset", "controllerTransfer")
AssetsService_getOperationHistory == AssetsService_findFungible ** Query("asset", "getOperationHistory")
AssetsService_getRequiredMediators == AssetsService_findOne ** MappedQuery("asset", "getRequiredMediators")
AssetsService_addRequiredMediators == Options ** AssetsService_findOne ** Submit("asset", "addRequiredMediators")
AssetsService_removeRequiredMediators ==
  Options ** AssetsService_findOne ** Submit("asset", "removeRequiredMediators")
AssetsService_preApprove == Options ** AssetsService_findOne ** Submit("asset", "preApprove")
AssetsService_removePreApproval == Options ** AssetsService_findOne ** Submit("asset", "removePreApproval")
AssetsService_linkTickerToAsset == Options ** AssetsService_findOne ** Submit("asset", "linkTicker")
AssetsService_unlinkTickerFromAsset == Options ** AssetsService_findOne ** Submit("asset", "unlinkTicker")
AssetsService_getTransferRestrictions ==
  AssetsService_findFungible ** Query("asset", "transferRestrictions.getRestrictions")
AssetsService_getTransferRestrictionValues ==
  AssetsService_findFungible ** Query("asset", "transferRestrictions.getValues")
\* A restriction of claims names the identity of the issuer, which is looked up.
transferRestrictionsDtoToRestrictions == Each(IdentitiesService_findOne)
AssetsService_setTransferRestrictions ==
  Options ** AssetsService_findFungible ** transferRestrictionsDtoToRestrictions
    ** Submit("asset", "setRestrictions")
AssetsService_addTransferRestrictions ==
  Options ** AssetsService_findFungible ** Query("asset", "transferRestrictions.getRestrictions")
    ** transferRestrictionsDtoToRestrictions ** Check("Validation") ** Submit("asset", "setRestrictions")
AssetsService_removeTransferRestrictions ==
  BodyIsOptions ** AssetsService_findFungible ** Submit("asset", "setRestrictions")
AssetsService_getStats == AssetsService_findFungible ** Query("asset", "transferRestrictions.getStats")
AssetsService_setStats == Options ** AssetsService_findFungible ** Submit("asset", "setStats")

\* checkpoints/checkpoints.service.ts
CheckpointsService_findAllByAsset == AssetsService_findFungible ** Query("asset", "checkpoints.get")
CheckpointsService_findOne == AssetsService_findFungible ** Find("checkpoint")
CheckpointsService_findSchedulesByAsset == AssetsService_findFungible ** Query("asset", "schedules.get")
CheckpointsService_findScheduleById == AssetsService_findFungible ** Find("schedule")
CheckpointsService_createByAsset == Options ** AssetsService_findFungible ** Submit("asset", "checkpoints.create")
CheckpointsService_createScheduleByAsset ==
  Options ** AssetsService_findFungible ** Submit("asset", "schedules.create")
CheckpointsService_getAssetBalance == CheckpointsService_findOne ** Query("checkpoint", "balance")
CheckpointsService_getHolders == CheckpointsService_findOne ** Query("checkpoint", "allBalances")
CheckpointsService_deleteScheduleByAsset ==
  Options ** AssetsService_findFungible ** Submit("asset", "schedules.remove")
CheckpointsService_findCheckpointsByScheduleId ==
  CheckpointsService_findScheduleById ** Query("schedule", "getCheckpoints")
    ** Each(Ref("checkpoint") ** Query("checkpoint", "createdAt") ** Query("checkpoint", "totalSupply"))
CheckpointsService_getComplexityForAsset ==
  AssetsService_findFungible ** Query("asset", "schedules.get") ** Query("asset", "schedules.maxComplexity")
CheckpointsService_getComplexityForPeriod ==
  CheckpointsService_findScheduleById ** Query("schedule", "getCheckpoints")
    ** Each(Ref("checkpoint") ** Query("checkpoint", "createdAt"))

\* compliance/compliance-requirements.service.ts
ComplianceRequirementsService_findComplianceRequirements ==
  AssetsService_findOne ** Query("asset", "requirements.get")
ComplianceRequirementsService_setRequirements ==
  Options ** AssetsService_findOne ** Submit("asset", "requirements.set")
ComplianceRequirementsService_pauseRequirements ==
  Options ** AssetsService_findOne ** Submit("asset", "requirements.pause")
ComplianceRequirementsService_unpauseRequirements ==
  Options ** AssetsService_findOne ** Submit("asset", "requirements.unpause")
ComplianceRequirementsService_deleteOne ==
  Options ** AssetsService_findOne ** Submit("asset", "requirements.remove")
ComplianceRequirementsService_deleteAll ==
  Options ** AssetsService_findOne ** Submit("asset", "requirements.reset")
ComplianceRequirementsService_add == Options ** AssetsService_findOne ** Submit("asset", "requirements.add")
ComplianceRequirementsService_modify == Options ** AssetsService_findOne ** Submit("asset", "requirements.modify")
ComplianceRequirementsService_arePaused == AssetsService_findOne ** Query("asset", "requirements.arePaused")

\* compliance/trusted-claim-issuers.service.ts
TrustedClaimIssuersService_find == AssetsService_findOne ** Query("asset", "trustedClaimIssuers.get")
TrustedClaimIssuersService_set == Options ** AssetsService_findOne ** Submit("asset", "trustedClaimIssuers.set")
TrustedClaimIssuersService_add == Options ** AssetsService_findOne ** Submit("asset", "trustedClaimIssuers.add")
TrustedClaimIssuersService_remove ==
  Options ** AssetsService_findOne ** Submit("asset", "trustedClaimIssuers.remove")

\* corporate-actions/corporate-actions.service.ts
CorporateActionsService_findDefaultConfigByAsset ==
  AssetsService_findFungible ** Query("asset", "corporateActions.getDefaultConfig")
CorporateActionsService_updateDefaultConfigByAsset ==
  Options ** AssetsService_findFungible ** Submit("asset", "corporateActions.setDefaultConfig")
CorporateActionsService_findDistributionsByAsset ==
  AssetsService_findFungible ** Query("asset", "distributions.get")
CorporateActionsService_findDistribution == AssetsService_findFungible ** Find("distribution")
CorporateActionsService_createDividendDistribution ==
  Options ** AssetsService_findFungible ** Submit("asset", "distributions.configureDividendDistribution")
CorporateActionsService_remove ==
  Options ** AssetsService_findFungible ** Submit("asset", "corporateActions.remove")
CorporateActionsService_payDividends ==
  Options ** CorporateActionsService_findDistribution ** Submit("distribution", "pay")
CorporateActionsService_linkDocuments ==
  Options ** CorporateActionsService_findDistribution ** Submit("distribution", "linkDocuments")
CorporateActionsService_claimDividends ==
  Options ** CorporateActionsService_findDistribution ** Submit("distribution", "claim")
CorporateActionsService_reclaimRemainingFunds ==
  Options ** CorporateActionsService_findDistribution ** Submit("distribution", "reclaimFunds")
CorporateActionsService_modifyCheckpoint ==
  Options ** CorporateActionsService_findDistribution ** Submit("distribution", "modifyCheckpoint")
CorporateActionsService_getPaymentHistory ==
  CorporateActionsService_findDistribution ** Query("distribution", "getPaymentHistory")

\* metadata/metadata.service.ts
MetadataService_findGlobalKeys == Query("api", "getGlobalMetadataKeys")
MetadataService_findAll == AssetsService_findOne ** Query("asset", "metadata.get")
MetadataService_findOne == AssetsService_findOne ** Find("metadata")
MetadataService_create == Options ** AssetsService_findOne ** Submit("asset", "metadata.register")
MetadataService_setValue == Options ** MetadataService_findOne ** Submit("metadata", "set")
MetadataService_clearValue == Options ** MetadataService_findOne ** Submit("metadata", "clear")
MetadataService_removeKey == Options ** MetadataService_findOne ** Submit("metadata", "remove")

\* nfts/nfts.service.ts
NftsService_findCollection == Find("collection")
NftsService_findNft == NftsService_findCollection ** Find("nft")
NftsService_nftDetails ==
  NftsService_findNft ** Query("nft", "getMetadata") ** Query("nft", "getImageUri") ** Query("nft", "getTokenUri")
NftsService_getCollectionKeys == NftsService_findCollection ** Query("collection", "collectionKeys")
NftsService_createNftCollection == Options ** Submit("api", "createNftCollection")
NftsService_issueNft == Options ** NftsService_findCollection ** Submit("collection", "issue")
NftsService_redeemNft == Options ** NftsService_findNft ** Submit("nft", "redeem")

\* offerings/offerings.service.ts
OfferingsService_findAllByAsset == AssetsService_findFungible ** Query("asset", "offerings.get")
OfferingsService_findOne == OfferingsService_findAllByAsset ** Check("NotFound") ** Ref("offering")
OfferingsService_findInvestmentsByAsset == OfferingsService_findOne ** Query("offering", "getInvestments")

\* permission-groups/permission-groups.service.ts
PermissionGroupsService_findOne ==
  AssetsService_findOne ** RawFind("group") ** Query("group", "exists") ** Check("NotFound")
PermissionGroupsService_createPermissionGroup ==
  Options ** AssetsService_findOne ** Submit("asset", "permissions.createGroup")
PermissionGroupsService_getPermissionGroups ==
  AssetsService_findOne ** Query("asset", "permissions.getGroups")
    ** Each(Ref("group") ** Query("group", "getPermissions"))
\* The group is given by id, and looked up, by type, or described in the request.
PermissionGroupsService_inviteAgentToGroup ==
  Options ** AssetsService_findOne ** IdentitiesService_findOne
    ** (Skip \cup RawFind("group") \cup Query("asset", "permissions.getGroup")) ** Submit("asset", "permissions.inviteAgent")
PermissionGroupsService_assignAgentToGroup ==
  Options ** AssetsService_findOne ** IdentitiesService_findOne
    ** (Skip \cup RawFind("group") \cup Query("asset", "permissions.getGroup")) ** Submit("identity", "assetPermissions.setGroup")
PermissionGroupsService_removeAgentFromAsset ==
  Options ** AssetsService_findOne ** IdentitiesService_findOne ** Submit("asset", "permissions.removeAgent")
PermissionGroupsService_getGroupPermissions ==
  PermissionGroupsService_findOne ** Query("group", "getPermissions")
PermissionGroupsService_modifyPermissions ==
  PermissionGroupsService_findOne ** Options ** Submit("group", "setPermissions")
PermissionGroupsService_checkPermissions ==
  AssetsService_findOne ** IdentitiesService_findOne ** Query("identity", "assetPermissions.checkPermissions")
PermissionGroupsService_abdicateAgent ==
  Options ** AssetsService_findOne ** IdentitiesService_findOne ** Submit("identity", "assetPermissions.waive")

\* settlements/settlements.service.ts
SettlementsService_findGroupedInstructionsByDid == IdentitiesService_findOne ** Query("identity", "getInstructions")
SettlementsService_findInstruction == Find("instruction")
SettlementsService_findVenuesByOwner == IdentitiesService_findOne ** Query("identity", "getVenues")
SettlementsService_findVenue == Find("venue")
\* The venue is looked up only when the route names one.
SettlementsService_createInstruction(venue) ==
  Options ** (IF venue THEN SettlementsService_findVenue ELSE Skip) ** Submit("api", "addInstruction")
SettlementsService_findVenueDetails == SettlementsService_findVenue ** Query("venue", "details")
SettlementsService_fetchAllowedSigners == SettlementsService_findVenue ** Query("venue", "getAllowedSigners")
SettlementsService_findAffirmations == SettlementsService_findInstruction ** Query("instruction", "getAffirmations")
SettlementsService_fetchOffChainAffirmations ==
  SettlementsService_findInstruction ** Query("instruction", "getOffChainAffirmations")
SettlementsService_fetchOffChainAffirmationForALeg ==
  SettlementsService_findInstruction ** Query("instruction", "getOffChainAffirmationForLeg")
SettlementsService_createVenue == Options ** Submit("api", "createVenue")
SettlementsService_modifyVenue == Options ** SettlementsService_findVenue ** Submit("venue", "modify")
SettlementsService_updateVenueSigners(addSigners) ==
  Options ** SettlementsService_findVenue
    ** Submit("venue", IF addSigners THEN "addSigners" ELSE "removeSigners")
SettlementsService_canTransfer == AssetsService_findOne ** Query("asset", "settlements.canTransfer")
\* A receipt without a signature is signed by the SDK.
SettlementsService_affirmInstruction ==
  Options ** SettlementsService_findInstruction
    ** Each(Query("instruction", "generateOffChainAffirmationReceipt")) ** Submit("instruction", "affirm")
SettlementsService_rejectInstruction ==
  Options ** SettlementsService_findInstruction ** Submit("instruction", "reject")
SettlementsService_executeInstruction ==
  Options ** SettlementsService_findInstruction ** Submit("instruction", "executeManually")
SettlementsService_withdrawAffirmation ==
  Options ** SettlementsService_findInstruction ** Submit("instruction", "withdraw")
SettlementsService_affirmInstructionAsMediator ==
  Options ** SettlementsService_findInstruction ** Submit("instruction", "affirmAsMediator")
SettlementsService_rejectInstructionAsMediator ==
  Options ** SettlementsService_findInstruction ** Submit("instruction", "rejectAsMediator")
SettlementsService_withdrawAffirmationAsMediator ==
  Options ** SettlementsService_findInstruction ** Submit("instruction", "withdrawAsMediator")
============================================================================
