---------------------------- MODULE MC_EsimTransfer ----------------------------
(* Two transfers from one modem, which are each other's fallback; two in a row, *)
(* the target of one is the source of the other; two that cross; one from a     *)
(* reader, one from a physical SIM, and one from a modem to itself.             *)
EXTENDS EsimTransfer

CONSTANTS t1, t2, a, b, c, l1, l2

From(kind, source, target, line) ==
  [kind |-> kind, source |-> source, target |-> target, line |-> line]

Two(x, y, cards) == [transfers |-> [t \in Transfers |-> IF t = t1 THEN x ELSE y], cards |-> cards]

Cards(x, y, z) == [p \in Places |-> IF p = a THEN x ELSE IF p = b THEN y ELSE z]

TwoAndOne == [t \in Transfers |-> IF t = t1 THEN 2 ELSE 1]

SomeBrowsers ==
  [t \in Transfers |-> IF t = t1 THEN {"answer", "cancel", "leave"} ELSE {"answer"}]

SomePlans ==
  {Two(From("modem", a, b, l1), From("modem", a, c, l2), Cards({l1, l2}, {}, {})),
   Two(From("modem", a, b, l1), From("modem", b, c, l2), Cards({l1}, {l2}, {})),
   Two(From("modem", a, b, l1), From("modem", b, a, l2), Cards({l1}, {l2}, {})),
   Two(From("ccid", a, b, l1), From("physical", c, b, l2), Cards({l1, l2}, {}, {})),
   Two(From("modem", a, a, l1), From("ccid", b, a, l2), Cards({l1}, {l2}, {}))}
=============================================================================
