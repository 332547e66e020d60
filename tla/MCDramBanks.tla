---------------------------- MODULE MCDramBanks ----------------------------
(* Model checking of DramBanks, with the constants of MC_DramBanks.cfg.    *)
EXTENDS DramBanks
=============================================================================
