-------------------------- MODULE MCHNZReception --------------------------
(* HNZReception for TLC.                                                    *)
EXTENDS HNZReception
=============================================================================
