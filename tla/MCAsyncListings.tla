--------------------------- MODULE MCAsyncListings ---------------------------
(***************************************************************************)
(* A small instance of AsyncListings: two requests, made by one thread or  *)
(* by two, through one handle or two, carried out by one worker or by two, *)
(* and a pool that holds one buffer, so that it overflows when both come   *)
(* back.                                                                   *)
(***************************************************************************)
EXTENDS AsyncListings
=============================================================================
