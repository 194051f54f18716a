-------------------------------- MODULE Null --------------------------------
(***************************************************************************)
(* The null pointer of the C library (stddef.h), for the modules that are   *)
(* reasoned about together.                                                *)
(***************************************************************************)
CONSTANT NULL
=============================================================================
