----------------------------- MODULE MCFirewall -----------------------------
(***************************************************************************)
(* The lists: one address and one block that holds it; clean requests and  *)
(* requests that trip two checks; and five small scenarios instead of one  *)
(* large: two administrators' calls beside the ban engine, a call and an   *)
(* edit of the file, denials to count and bans with a failing statement,   *)
(* an edit that fails while the plugin is switched off and on, a call on   *)
(* the address and the block with a failing statement.  The sixth, without *)
(* any of these, goes with the counter and with the limiter.               *)
(***************************************************************************)
EXTENDS Firewall

MCCovers == [e \in Entries |-> Ips]
MCRequests == {{}, {"sql", "xss"}}
MCWafOn == {"sql", "xss"}
MCFiles == {{}, Ips}
MCThresholds == [attack |-> 1, crawler |-> 1, generic |-> 1]

Budget(c, e, f, h, t, r) ==
  [calls |-> c, edits |-> e, failures |-> f, hits |-> h, toggles |-> t,
   rounds |-> r, blocks |-> 0]

WithBlocks(c, f) == [Budget(c, 0, f, 0, 0, 0) EXCEPT !.blocks = 1]

MCBudgets == {Budget(2, 0, 0, 0, 0, 1), Budget(1, 1, 0, 0, 0, 1), Budget(0, 0, 1, 2, 0, 3),
              Budget(0, 1, 1, 0, 1, 1), WithBlocks(1, 1), Budget(0, 0, 0, 0, 0, 0)}

MCBudgetsReenabled == {Budget(0, 1, 0, 0, 1, 0), Budget(0, 0, 0, 0, 0, 0)}
=============================================================================
