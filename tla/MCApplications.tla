--------------------------- MODULE MCApplications ---------------------------
(* Every example; the cable is pulled twice, and drives once do not follow. *)
EXTENDS Applications

AllPrograms == DOMAIN Script
SomeVerbs == {"connect", "run", "home", "reconnect"}

=============================================================================
