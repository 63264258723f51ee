----------------------------- MODULE MCPasswords -----------------------------
(* Logins that adopt the legacy password, beside changes and resets. *)
EXTENDS Passwords
=============================================================================
