---------------------------- MODULE MCWebServer ----------------------------
(* The web server with two tabs, a few sessions and two jobs. *)
EXTENDS WebServer
=============================================================================
