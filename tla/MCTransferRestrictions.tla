----------------------- MODULE MCTransferRestrictions -----------------------
(***************************************************************************)
(* TransferRestrictions over one restriction of each kind and two that     *)
(* differ in their maximum only.                                           *)
(***************************************************************************)
EXTENDS TransferRestrictions

CONSTANTS zero, one

Accredited == [type |-> "Accredited", accredited |-> TRUE]
Resident == [type |-> "Jurisdiction", countryCode |-> "ca"]

Count1 == [type |-> "Count", count |-> one]
Percentage1 == [type |-> "Percentage", percentage |-> one]
AtMost(m) ==
  [type |-> "ClaimCount", min |-> zero, max |-> m, issuer |-> "issuer", claim |-> Accredited]
Share1 ==
  [type |-> "ClaimPercentage", min |-> zero, max |-> one, issuer |-> "issuer", claim |-> Resident]

SomeWishes ==
  {{}, {Count1}, {AtMost(one)}, {AtMost(None), Percentage1}, {Share1, Count1}}
AllAmounts == {zero, one}
=============================================================================
