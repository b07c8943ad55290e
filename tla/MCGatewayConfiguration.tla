----------------------- MODULE MCGatewayConfiguration -----------------------
(* The runs of GatewayConfiguration.  The decoders are told apart by Metering
   and the runs check liveness, so nothing is symmetric. *)
EXTENDS GatewayConfiguration, TLC
=============================================================================
