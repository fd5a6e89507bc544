---------------------------- MODULE MCAminoTypes ----------------------------
(* Model-checking instance of AminoTypes: the additions the unit tests of *)
(* packages/stargate/src/aminotypes.spec.ts register, in every order and   *)
(* every combination of at most two entries.                               *)
EXTENDS AminoTypes

MCAdditionUrls ==
  {"/cosmos.staking.v1beta1.MsgDelegate", "/my.CustomType", "/my.OverrideType"}

MCAdditionAminoTypes ==
  {"cosmos-sdk/MsgDelegate", "my-sdk/CustomType", "my-override/MsgDelegate"}
=============================================================================
