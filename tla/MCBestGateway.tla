--------------------------- MODULE MCBestGateway ---------------------------
(* Instance of BestGateway for TLC: three gateways, ratios with ties. *)
EXTENDS BestGateway

MCLsnr == {-5, 0, 5}

MCFloor == -100
=============================================================================
