---------------------------- MODULE MCWireFormat ----------------------------
(***************************************************************************)
(* Small instances of WireFormat.                                          *)
(***************************************************************************)
EXTENDS WireFormat

CONSTANTS none, null, nan, notutf8

\* event_advanced(), and event() when only user and name are given.
Tracked(user, name, device, stamp, data) ==
  [kind |-> "event", user |-> user, name |-> name, device |-> device,
   session |-> none, stamp |-> stamp, data |-> data, own |-> NoProperties]

\* event_revenue()
Ordered(user, amount, data) ==
  [Tracked(user, "order_completed", none, none, data) EXCEPT
     !.own = [order_id |-> "o1", amount |-> amount, currency |-> "EUR"]]

Logged(service, level, message, data) ==
  [kind |-> "log", service |-> service, level |-> level, data |-> data,
   own |-> [message |-> message]]

MCCalls ==
  {Tracked("u1", "login", none, none, NoProperties),
   Tracked("u2", "view", "d1", 0, [page |-> "home", speed |-> nan]),
   Tracked("u2", "typo", none, none, [page |-> notutf8]),
   Ordered("u1", 9, [amount |-> 1, gift |-> null]),
   Logged("s1", "INFO", "up", NoProperties),
   Logged("s2", "ERROR", "down", [message |-> "none", code |-> 7]),
   Logged("s1", "INFO", notutf8, [code |-> 7])}
=============================================================================
