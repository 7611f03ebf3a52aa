---------------------------- MODULE MCRFSampler ----------------------------
(* RFSampler on instances that TLC explores completely.                    *)
EXTENDS RFSampler

TwoChannels == <<"A", "N">>
=============================================================================
