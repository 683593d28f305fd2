------------------------------- MODULE MCAuth -------------------------------
(* Small instances of Auth for TLC. *)
EXTENDS AuthLedger, TLC

CONSTANTS alice, Alice, bob   \* addresses; Alice is another spelling of alice

MCNorm == (alice :> alice) @@ (Alice :> alice) @@ (bob :> bob)
MCNormOne == alice :> alice
MCNormTwo == (alice :> alice) @@ (bob :> bob)

(* The endpoints of each instance. *)
Sessioned == {"login", "refresh", "logout", "forgot", "reset"}
Mailing ==
  {"signup", "login", "resend", "verify_email", "forgot", "reset", "logout"}
Identifying == {"signup", "login", "google", "verify_email", "logout"}
Cookies == {"login", "refresh", "logout"}
Resetting == {"forgot", "reset", "logout"}
Googling == {"google", "logout"}
Everything == EndpointNames
GoogleResetting == {"google", "forgot", "reset", "logout"}

(* No definition tells requests, passwords or Google subjects apart. *)
Interchangeable ==
  Permutations(Requests) \cup Permutations(Passwords) \cup Permutations(Subs)
=============================================================================
