------------------------------ MODULE MCBookSync ------------------------------
(* Small instances of the books pipeline.                                    *)
EXTENDS BookSync
===============================================================================
