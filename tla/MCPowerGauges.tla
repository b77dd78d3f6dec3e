---------------------------- MODULE MCPowerGauges ----------------------------
(* PowerGauges with readings in quarters of full scale.                     *)
EXTENDS PowerGauges
=============================================================================
