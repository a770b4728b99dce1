---------------------------- MODULE MCClientCache ----------------------------
(* Small instances of the client's cache for TLC: a setter, and a call that *)
(* changes what hangs from a database below the handle and frees packages;  *)
(* and the calls about a transaction's targets, which the overlay lists and *)
(* does not list.                                                           *)
EXTENDS ClientCache

Read == {"syncdbs", "logfile", "pkgcache", "depends"}
Setters == {"set_logfile", "trans_commit"}

ReadTargets == {"trans_add"}
Targets == {"add_pkg", "sysupgrade"}
=============================================================================
