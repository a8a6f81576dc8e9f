---------------------------- MODULE MCSupervisors ----------------------------
(* Two supervisors on one host, with one database and the same ports.      *)
EXTENDS Supervisors

CONSTANTS s1, s2

Config(kind, ci, mcp) ==
  [kind |-> kind, ci |-> ci, mcp |-> mcp, metrics |-> kind = "serve" /\ ~mcp, workers |-> 1,
   marked |-> FALSE]

MCSpecs ==
  {s1 :> Config("serve", "spawn", FALSE) @@ s2 :> Config("serve", "disabled", FALSE),
   s1 :> Config("serve", "disabled", TRUE) @@ s2 :> Config("integrated", "external", TRUE),
   s1 :> Config("integrated", "spawn", TRUE)
     @@ s2 :> [Config("serve", "external", FALSE) EXCEPT !.marked = TRUE],
   s1 :> [Config("serve", "disabled", FALSE) EXCEPT !.workers = 2]
     @@ s2 :> Config("serve", "disabled", FALSE)}

(* SQLite, which has no lock to wait for, is only tried with the last      *)
(* pair, Postgres with the first three.                                    *)
MCInit ==
  /\ Init
  /\ (dialect = "sqlite") = (spec[s1].workers = 2)

MCSpec == MCInit /\ [][Next]_vars /\ Fairness

=============================================================================
