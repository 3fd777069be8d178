------------------------- MODULE MCReleaseCampaign -------------------------
(* A campaign that is resumed while the service does not answer its preflight,  *)
(* and one that is killed after it recorded its last case.                      *)
EXTENDS ReleaseCampaign
CONSTANTS uploaded, linked
BothCases == {uploaded, linked}
InOrder == <<uploaded, linked>>
UploadedCase == {uploaded}
============================================================================
