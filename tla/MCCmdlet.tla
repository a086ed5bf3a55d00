----------------------------- MODULE MCCmdlet ------------------------------
(* The cmdlets of the runs: one that lists with POST, so that it asks for confirmation, *)
(* goes through pages and loops over subscriptions; two that start something long, with *)
(* -NoWait, one of them with pages; one by identity.                                    *)
EXTENDS Cmdlet
base == [writable |-> FALSE, pageable |-> FALSE, viaIdentity |-> FALSE, noWait |-> FALSE,
         subscriptions |-> 1, exceptions |-> "default", custom |-> FALSE, proxy |-> "none"]
MCCmdlets ==
  { [base EXCEPT !.writable = TRUE, !.pageable = TRUE, !.subscriptions = 2,
                 !.exceptions = "specific", !.proxy = "own"],
    [base EXCEPT !.writable = TRUE, !.noWait = TRUE],
    [base EXCEPT !.writable = TRUE, !.noWait = TRUE, !.pageable = TRUE],
    [base EXCEPT !.viaIdentity = TRUE, !.custom = TRUE, !.exceptions = "none"] }
=============================================================================
