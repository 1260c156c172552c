----------------------- MODULE MC_FeatureLifecycle -----------------------
(* Instantiates FeatureLifecycle for TLC with the environments of the    *)
(* unit test: one development, one production and one unknown name.     *)
EXTENDS FeatureLifecycle, TLC

CONSTANTS dev, prod, unknown

MCEnvs == {dev, prod, unknown}

MCEnvType == (dev :> "development") @@ (prod :> "production")
===========================================================================
