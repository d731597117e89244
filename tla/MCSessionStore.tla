--------------------------- MODULE MCSessionStore ---------------------------
(* Small instances of the session store. *)
EXTENDS SessionStore
=============================================================================
