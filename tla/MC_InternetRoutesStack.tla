----------------------- MODULE MC_InternetRoutesStack -----------------------
(* The instances of MC_InternetRoutes, with the stack to compare with. *)
EXTENDS MC_InternetRoutes, InternetRoutesStack
=============================================================================
