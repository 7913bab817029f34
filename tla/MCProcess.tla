------------------------------ MODULE MCProcess ------------------------------
(***************************************************************************)
(* One small scenario for each interaction instead of a large one: see     *)
(* MCBudgets.                                                              *)
(***************************************************************************)
EXTENDS Process

Budget(r, o, m, q, g, b, f, t, s, c, h, e) ==
  [requests |-> r, obs |-> o, messages |-> m, mq |-> q, registry |-> g,
   beats |-> b, failures |-> f, timeouts |-> t, stops |-> s, crashes |-> c,
   reloads |-> h, restarts |-> e]

MCBudgets == {
  Budget(2, 2, 0, 0, 0, 0, 1, 0, 1, 0, 0, 0),  \* obs is switched off and on
  Budget(1, 2, 0, 0, 0, 0, 0, 2, 1, 0, 0, 0),  \* the same, with waits that end early
  Budget(3, 0, 0, 0, 0, 0, 2, 0, 1, 0, 0, 0),  \* records and events at their limits
  Budget(0, 0, 2, 3, 0, 0, 1, 0, 1, 0, 0, 0),  \* messages, mq switched off and on
  Budget(0, 0, 1, 2, 0, 0, 1, 0, 0, 1, 0, 0),  \* a crash and a restart
  Budget(0, 0, 0, 0, 3, 3, 0, 1, 1, 0, 0, 0),  \* services come and go
  Budget(1, 0, 1, 1, 1, 0, 0, 0, 1, 0, 0, 0),  \* everything is there when the signal comes
  Budget(1, 1, 0, 0, 0, 0, 0, 0, 1, 0, 1, 0),  \* a reload beside a switch of obs, or late
  Budget(1, 0, 0, 0, 0, 0, 1, 1, 1, 0, 1, 0),  \* a reload that fails or is too slow
  Budget(0, 0, 1, 2, 1, 0, 0, 0, 1, 0, 1, 1)}  \* a reload beside mq and the services, and a restart
=============================================================================
