-------------------------------- MODULE MCGuard --------------------------------
(* Small instances of Guard for TLC. *)
EXTENDS Guard

================================================================================
