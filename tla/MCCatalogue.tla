---------------------------- MODULE MCCatalogue ----------------------------
(* Five requests on one row *)
EXTENDS Catalogue

MCBodies == [devices |-> {{"room"}, {"details", "status"}},
             rooms |-> {{"visibility"}, {"details"}}]
=============================================================================
