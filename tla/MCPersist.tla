------------------------------ MODULE MCPersist ------------------------------
(* Small devices: a partition that can grow, and one or two file systems     *)
(* with a SecureFS index, or none.                                           *)
EXTENDS PersistSystem

MCNoSecure == <<>>
MCSecure == <<"rootfs", "data">>
==============================================================================
