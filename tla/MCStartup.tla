----------------------------- MODULE MCStartup -------------------------------
(* The shell, its engines and the startup page on a small instance.           *)
EXTENDS CoreStartup
=============================================================================
