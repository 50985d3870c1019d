------------------------------ MODULE UserIds ------------------------------
(* What all the tables of the REST backend speak of: its users, and null.  *)
CONSTANTS
    Users,   \* user ids: rows of the users table, before or after their creation
    None     \* null
=============================================================================
